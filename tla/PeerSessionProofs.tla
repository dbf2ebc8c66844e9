------------------------- MODULE PeerSessionProofs -------------------------
(***************************************************************************)
(* Proofs about one peer session, for any blocks, tasks, window, channel   *)
(* capacities and timeouts.  First the types and the line of tasks that    *)
(* wait for a permit, then the refinement of PeerLink, then the window.    *)
(***************************************************************************)
EXTENDS PeerSession, FiniteSetTheorems, SequenceTheorems, TLAPS

(* The semaphore's line: exactly the tasks that wait are in it, each once, *)
(* and never beside a free permit.                                         *)
WaitInv ==
  /\ \A i \in DOMAIN waiters : task[waiters[i]].at = "queued"
  /\ \A i, j \in DOMAIN waiters : waiters[i] = waiters[j] => i = j
  /\ \A t \in Tasks : task[t].at = "queued" => \E i \in DOMAIN waiters : waiters[i] = t
  /\ permits > 0 => waiters = <<>>

PlanInv == plan = "shrink" => window > InFlightLimit

TInv == TypeOK /\ WaitInv /\ PlanInv

---------------------------------------------------------------------------
(* Facts about the values the variables take.                              *)

LEMMA MessageTypes ==
  /\ \A b \in Blocks : BlockMsg(b) \in Message
  /\ \A m \in {"Choke", "Unchoke", "Disconnect", "Other"} : Msg(m) \in Message
  /\ Other \in Message /\ Other \in Order
  /\ \A m \in {"BulkRequest", "BulkCancel"}, S \in SUBSET Blocks : Bulk(m, S) \in Order
  /\ \A m \in Message : m.msg = "Block" => m.block \in Blocks /\ m = BlockMsg(m.block)
  /\ \A m \in Message : m.msg \in {"Block", "Choke", "Unchoke", "Disconnect", "Other"}
  /\ \A m \in Order : m.msg \in {"BulkRequest", "BulkCancel"} => m.blocks \in SUBSET Blocks
  BY DEF Message, Order, BlockMsg, Msg, Bulk, Other

LEMMA TaskTypes ==
  /\ Free \in Task
  /\ \A S \in SUBSET Blocks : NextOf(S) \in Task
  /\ \A at \in {"queued", "permit", "tracked"}, b \in Blocks, S \in SUBSET Blocks :
       With(at, b, S) \in Task
  /\ \A k \in Task : k.at \in {"free", "next", "queued", "permit", "tracked"}
  /\ \A k \in Task : k.at = "next" => k.todo \in SUBSET Blocks /\ k = NextOf(k.todo)
  /\ \A k \in Task : k.at \in {"queued", "permit", "tracked"} =>
       k.block \in Blocks /\ k.todo \in SUBSET Blocks /\ k = With(k.at, k.block, k.todo)
  BY DEF Task, Free, NextOf, With

LEMMA TaskFields ==
  /\ Free.at = "free"
  /\ \A S : NextOf(S).at = "next" /\ NextOf(S).todo = S
  /\ \A at, b, S : /\ With(at, b, S).at = at
                   /\ With(at, b, S).block = b
                   /\ With(at, b, S).todo = S
  BY DEF Free, NextOf, With

LEMMA SendType ==
  ASSUME NEW S, NEW q \in Seq(S), NEW cap, NEW m \in S
  PROVE  TrySend(q, cap, m) \in Seq(S)
  BY DEF TrySend

LEMMA TailType ==
  ASSUME NEW S, NEW q \in Seq(S), q # <<>>
  PROVE  Head(q) \in S /\ Tail(q) \in Seq(S)
  OBVIOUS

(* Taking the i-th of a line without repetitions takes its element out.    *)
LEMMA WithoutIs ==
  ASSUME NEW S, NEW q \in Seq(S), NEW i \in DOMAIN q
  PROVE  /\ Without(q, i) \in Seq(S)
         /\ Len(Without(q, i)) = Len(q) - 1
         /\ DOMAIN Without(q, i) = 1 .. Len(q) - 1
         /\ \A j \in 1 .. Len(q) - 1 : Without(q, i)[j] = IF j < i THEN q[j] ELSE q[j + 1]
<1>1. Len(q) \in Nat \ {0} /\ DOMAIN q = 1 .. Len(q) /\ \A j \in 1 .. Len(q) : q[j] \in S
  OBVIOUS
<1>2. Without(q, i) \in [1 .. Len(q) - 1 -> S]
  BY <1>1 DEF Without
<1> DEFINE n == Len(q) - 1
           w == Without(q, i)
<1>3. n \in Nat /\ w \in [1..n -> S]
  BY <1>1, <1>2
<1> HIDE DEF w, n
<1>4. w \in Seq(S) /\ Len(w) = n /\ DOMAIN w = 1..n
  BY <1>3
<1> QED BY <1>1, <1>4 DEF Without, w, n

(* add_permits: every unit becomes a free permit or one in the hand of a   *)
(* task that waited; nothing else about the tasks changes.                 *)
LEMMA AddPermitsEffect ==
  ASSUME TypeOK, WaitInv, NEW n \in Nat, AddPermits(n)
  PROVE  /\ permits' \in Nat /\ waiters' \in Seq(Tasks) /\ task' \in [Tasks -> Task]
         /\ WaitInv'
         /\ \A t \in Tasks : \/ task'[t] = task[t]
                             \/ /\ task[t].at = "queued"
                                /\ task'[t] = With("permit", task[t].block, task[t].todo)
         /\ permits' + Cardinality(Held') = permits + Cardinality(Held) + n
<1> DEFINE k == Min(n, Len(waiters))
           served == {waiters[i] : i \in 1..k}
<1>1. /\ waiters \in Seq(Tasks) /\ Len(waiters) \in Nat /\ DOMAIN waiters = 1..Len(waiters)
      /\ permits \in Nat /\ task \in [Tasks -> Task]
  BY DEF TypeOK
<1>2. /\ k \in Nat /\ k <= n /\ k <= Len(waiters) /\ (k = n \/ k = Len(waiters))
  BY <1>1 DEF Min
<1>3. /\ permits' = permits + (n - k)
      /\ waiters' = SubSeq(waiters, k + 1, Len(waiters))
      /\ task' = [t \in Tasks |-> IF t \in served THEN [task[t] EXCEPT !.at = "permit"]
                                                 ELSE task[t]]
  BY DEF AddPermits
<1> HIDE DEF k
<1>g. Len(waiters) \in Nat /\ k \in Nat /\ k <= Len(waiters)
  BY <1>1, <1>2, Zenon
<1>f. \A x \in 1..k : x \in 1..Len(waiters)
  BY <1>g
<1>a. \A i \in 1..Len(waiters) : waiters[i] \in Tasks /\ task[waiters[i]].at = "queued"
  BY <1>1 DEF WaitInv
<1>b. \A i, j \in 1..Len(waiters) : waiters[i] = waiters[j] => i = j
  BY <1>1, Zenon DEF WaitInv
<1>c. \A t \in Tasks : task[t].at = "queued" => \E i \in 1..Len(waiters) : waiters[i] = t
  BY <1>1, Zenon DEF WaitInv
<1>4. served \subseteq Tasks /\ \A t \in served : task[t].at = "queued"
  BY <1>2, <1>a
<1>e. /\ \A i \in 1..k : waiters[i] \in served
      /\ \A t \in served : \E i \in 1..k : waiters[i] = t
  OBVIOUS
<1> HIDE DEF served
<1>5. \A t \in served : task'[t] = With("permit", task[t].block, task[t].todo)
  <2> TAKE t \in served
  <2>1. task[t] = With("queued", task[t].block, task[t].todo)
    BY <1>1, <1>4, TaskTypes
  <2>2. task'[t] = [task[t] EXCEPT !.at = "permit"]
    BY <1>3, <1>4
  <2> QED BY <2>1, <2>2 DEF With
<1>d. \A t \in served : task'[t].at = "permit"
  <2> TAKE t \in served
  <2>1. task'[t] = With("permit", task[t].block, task[t].todo)
    BY <1>5
  <2> QED BY <2>1 DEF With
<1>6. \A t \in Tasks \ served : task'[t] = task[t]
  BY <1>3
<1>7. task' \in [Tasks -> Task]
  <2>1. \A t \in Tasks : task'[t] \in Task
    <3> TAKE t \in Tasks
    <3>1. CASE t \in served
      BY <1>1, <1>4, <1>5, <3>1, TaskTypes
    <3>2. CASE t \notin served
      BY <1>1, <1>6, <3>2, Zenon
    <3> QED BY <3>1, <3>2
  <2> QED BY <1>3, <2>1
<1>8. /\ waiters' \in Seq(Tasks) /\ Len(waiters') = Len(waiters) - k
      /\ DOMAIN waiters' = 1 .. Len(waiters) - k
      /\ \A i \in 1 .. Len(waiters) - k : waiters'[i] = waiters[i + k]
  <2>1. /\ k + 1 \in Int /\ Len(waiters) \in Int
        /\ \A i \in k + 1 .. Len(waiters) : i \in 1..Len(waiters)
        /\ Len(waiters) - (k + 1) + 1 = Len(waiters) - k
        /\ (IF k + 1 <= Len(waiters) THEN Len(waiters) - (k + 1) + 1 ELSE 0) = Len(waiters) - k
        /\ \A i \in 1 .. Len(waiters) - k : (k + 1) + i - 1 = i + k
    BY <1>g
  <2>2. \A i \in k + 1 .. Len(waiters) : waiters[i] \in Tasks
    BY <1>a, <2>1, Zenon
  <2>3. /\ waiters' \in Seq(Tasks)
        /\ Len(waiters') = IF k + 1 <= Len(waiters) THEN Len(waiters) - (k + 1) + 1 ELSE 0
        /\ \A i \in 1 .. Len(waiters) - (k + 1) + 1 : waiters'[i] = waiters[(k + 1) + i - 1]
    BY <1>3, <2>1, <2>2, SubSeqProperties, SMTT(30)
  <2>4. Len(waiters') = Len(waiters) - k
    BY <2>1, <2>3, Zenon
  <2>5. DOMAIN waiters' = 1..Len(waiters')
    BY <2>3
  <2> QED BY <2>1, <2>3, <2>4, <2>5, Zenon
<1>9. permits' \in Nat
  BY <1>1, <1>2, <1>3
<1>h. DOMAIN waiters = 1..Len(waiters) /\ DOMAIN waiters' = 1 .. Len(waiters) - k
  BY <1>1, <1>8, Zenon
<1>i. \A i \in 1 .. Len(waiters) - k : waiters'[i] = waiters[i + k]
  BY <1>8, Zenon
<1>j. \A i \in 1 .. Len(waiters) - k : i \in Int /\ i + k \in 1..Len(waiters)
  BY <1>g
<1>10. WaitInv'
  <2>1. \A i \in DOMAIN waiters' : task'[waiters'[i]].at = "queued"
    <3> TAKE i \in DOMAIN waiters'
    <3>1. waiters'[i] = waiters[i + k] /\ i + k \in DOMAIN waiters
      BY <1>h, <1>i, <1>j, Zenon
    <3>2. waiters[i + k] \notin served
      <4> SUFFICES ASSUME waiters[i + k] \in served PROVE FALSE
        OBVIOUS
      <4>1. PICK j \in 1..k : waiters[j] = waiters[i + k]
        BY <1>e
      <4>2. j \in 1..Len(waiters) /\ i + k \in 1..Len(waiters)
        BY <1>1, <1>f, <3>1
      <4>3. j = i + k
        BY <1>b, <4>1, <4>2
      <4>4. i \in 1 .. Len(waiters) - k
        BY <1>8
      <4> QED BY <1>g, <4>3, <4>4
    <3> QED BY <1>1, <1>6, <1>a, <3>1, <3>2
  <2>2. \A i, j \in DOMAIN waiters' : waiters'[i] = waiters'[j] => i = j
    <3> SUFFICES ASSUME NEW i \in 1 .. Len(waiters) - k, NEW j \in 1 .. Len(waiters) - k,
                        waiters[i + k] = waiters[j + k]
                 PROVE  i = j
      BY <1>h, <1>i, Zenon
    <3>1. i + k = j + k
      BY <1>b, <1>j, Zenon
    <3> QED BY <1>g, <1>j, <3>1
  <2>3. ASSUME NEW t \in Tasks, task'[t].at = "queued"
        PROVE  \E i \in DOMAIN waiters' : waiters'[i] = t
    <3>1. t \notin served
      BY <1>d, <2>3
    <3>2. PICK i \in DOMAIN waiters : waiters[i] = t
      BY <1>1, <1>6, <1>c, <2>3, <3>1
    <3>3. i \notin 1..k
      BY <1>e, <3>1, <3>2
    <3>4. i - k \in DOMAIN waiters' /\ waiters'[i - k] = t
      <4>1. i \in 1..Len(waiters)
        BY <1>h, <3>2, Zenon
      <4>2. i - k \in 1 .. Len(waiters) - k /\ (i - k) + k = i
        BY <1>g, <3>3, <4>1
      <4> QED BY <1>h, <1>i, <3>2, <4>2, Zenon
    <3> QED BY <3>4
  <2>4. permits' > 0 => waiters' = <<>>
    BY <1>1, <1>2, <1>3, <1>8 DEF WaitInv
  <2> QED BY <2>1, <2>2, <2>3, <2>4 DEF WaitInv
<1>11. permits' + Cardinality(Held') = permits + Cardinality(Held) + n
  <2>1. Held' = Held \cup served /\ Held \cap served = {}
    <3>1. Held' \subseteq Held \cup served
      BY <1>6 DEF Held
    <3>2. Held \subseteq Held'
      BY <1>4, <1>6 DEF Held
    <3>3. served \subseteq Held'
      BY <1>4, <1>d DEF Held
    <3>4. Held \cap served = {}
      BY <1>4 DEF Held
    <3> QED BY <3>1, <3>2, <3>3, <3>4, Zenon
  <2>2. IsFiniteSet(Held) /\ Cardinality(Held) \in Nat
    BY SessionAssumption, FS_Subset, FS_CardinalityType DEF Held
  <2>3. IsFiniteSet(served) /\ Cardinality(served) = k
    <3> DEFINE f == [i \in 1..k |-> waiters[i]]
    <3>1. f \in Bijection(1..k, served)
      <4>1. f \in [1..k -> served]
        BY <1>e
      <4>2. \A x, y \in 1..k : f[x] = f[y] => x = y
        <5> TAKE x, y \in 1..k
        <5>1. x \in 1..Len(waiters) /\ y \in 1..Len(waiters)
          BY <1>f
        <5> QED BY <1>b, <5>1
      <4>3. \A s \in served : \E x \in 1..k : f[x] = s
        BY <1>e
      <4> QED BY <4>1, <4>2, <4>3 DEF Bijection, Injection, Surjection, IsInjective
    <3>2. IsFiniteSet(1..k) /\ Cardinality(1..k) = k
      BY <1>2, FS_Interval
    <3>3. ExistsBijection(1..k, served)
      BY <3>1 DEF ExistsBijection
    <3> QED BY <3>2, <3>3, FS_Bijection
  <2>4. Cardinality(Held') = Cardinality(Held) + k
    <3>1. Cardinality(Held \cap served) = 0
      BY <2>1, FS_EmptySet
    <3>2. Cardinality(Held \cup served)
            = Cardinality(Held) + Cardinality(served) - Cardinality(Held \cap served)
      BY <2>2, <2>3, FS_Union
    <3> QED BY <1>2, <2>1, <2>2, <2>3, <3>1, <3>2
  <2> QED BY <1>1, <1>2, <1>3, <2>2, <2>4
<1> QED
  BY <1>4, <1>5, <1>6, <1>7, <1>8, <1>9, <1>10, <1>11

LEMMA TypeInit == Init => TInv
<1> SUFFICES ASSUME Init PROVE TInv
  OBVIOUS
<1>1. task \in [Tasks -> Task] /\ \A t \in Tasks : task[t].at = "free"
  BY TaskTypes DEF Init, Free
<1>2. WaitInv /\ PlanInv
  BY <1>1 DEF Init, WaitInv, PlanInv
<1>3. /\ waiters \in Seq(Tasks) /\ to_session \in Seq(Order) /\ to_manager \in Seq(Message)
      /\ writer \in Seq(Blocks) /\ inbox \in Seq(Message)
  BY DEF Init
<1>4. /\ permits \in Nat /\ window \in InFlightLimit..MaxWindow /\ shrink \in Nat
      /\ quiet \in 0..StallTicks + 1 /\ idle \in 0..IdleTicks + 1
      /\ owed \in [Blocks -> Nat] /\ chokes \in Nat
  BY SessionAssumption DEF Init
<1>5. got \in BOOLEAN /\ warm \in BOOLEAN /\ reader \in BOOLEAN /\ choking \in BOOLEAN
      /\ unchoked \in BOOLEAN
  BY Zenon DEF Init
<1> QED
  BY <1>1, <1>2, <1>3, <1>4, <1>5 DEF Init, TInv, TypeOK

(* What is left of the session when it ends.                               *)
LEMMA EndType == TInv /\ End => TInv'
<1> SUFFICES ASSUME TInv, End PROVE TInv'
  OBVIOUS
<1>1. task' \in [Tasks -> Task] /\ \A t \in Tasks : task'[t].at = "free"
  BY TaskTypes, Zenon DEF End, Free
<1>2. to_manager' \in Seq(Message)
  BY MessageTypes, SendType DEF End, TInv, TypeOK
<1>3. WaitInv' /\ PlanInv'
  BY <1>1 DEF End, WaitInv, PlanInv
<1>4. /\ permits' \in Nat /\ window' \in InFlightLimit..MaxWindow /\ shrink' \in Nat
      /\ quiet' \in 0..StallTicks + 1 /\ idle' \in 0..IdleTicks + 1
      /\ owed' \in [Blocks -> Nat] /\ chokes' \in Nat
  BY SessionAssumption DEF End, TInv, TypeOK
<1>5. /\ waiters' \in Seq(Tasks) /\ to_session' \in Seq(Order)
      /\ writer' \in Seq(Blocks) /\ inbox' \in Seq(Message)
  BY DEF End
<1>6. got' \in BOOLEAN /\ warm' \in BOOLEAN /\ reader' \in BOOLEAN /\ choking' \in BOOLEAN
  BY Zenon DEF End
<1> QED
  BY <1>1, <1>2, <1>3, <1>4, <1>5, <1>6 DEF End, TInv, TypeOK, managerSide

(* A step that leaves the semaphore, the tasks and the window alone.       *)
LEMMA WaitFrame ==
  ASSUME TInv, UNCHANGED <<permits, waiters, task>>
  PROVE  WaitInv'
  BY Zenon DEF TInv, WaitInv

LEMMA TypeNext == TInv /\ [Next]_vars => TInv'
<1> SUFFICES ASSUME TInv, [Next]_vars PROVE TInv'
  OBVIOUS
<1> USE SessionAssumption
<1>1. CASE Handshake
  BY <1>1, WaitFrame DEF Handshake, TInv, TypeOK, PlanInv, requests, semaphore, timers,
     peerSide, managerSide
<1>2. CASE Piece
  <2> DEFINE b == Head(inbox).block
  <2>1. /\ Head(inbox) \in Message /\ Tail(inbox) \in Seq(Message)
    BY <1>2, SMTT(30) DEF Piece, FromPeer, TInv, TypeOK
  <2>5. b \in Blocks
    BY <1>2, <2>1, MessageTypes DEF Piece, FromPeer
  <2> HIDE DEF b
  <2>2. /\ forwarding' \subseteq Blocks /\ tracker' \subseteq Blocks
        /\ inbox' \in Seq(Message) /\ idle' = 0
        /\ got' \in BOOLEAN /\ (quiet' = 0 \/ quiet' = quiet)
    BY <1>2, <2>1, <2>5, Zenon DEF Piece, ToForward, TInv, TypeOK
  <2>3. \/ AddPermits(1) /\ UNCHANGED shrink
        \/ UNCHANGED <<semaphore, task>> /\ shrink > 0 /\ shrink' = shrink - 1
        \/ UNCHANGED <<semaphore, task, shrink>>
    BY <1>2, Zenon DEF Piece, ReturnPermit
  <2>4. /\ permits' \in Nat /\ waiters' \in Seq(Tasks) /\ task' \in [Tasks -> Task]
        /\ WaitInv'
    <3>1. CASE AddPermits(1)
      BY <3>1, AddPermitsEffect DEF TInv
    <3>2. CASE UNCHANGED <<semaphore, task>>
      BY <3>2, WaitFrame DEF TInv, TypeOK, semaphore
    <3> QED BY <2>3, <3>1, <3>2
  <2>6. shrink' \in Nat
    BY <2>3 DEF TInv, TypeOK
  <2> QED
    <3>1. quiet' \in 0..StallTicks + 1 /\ idle' \in 0..IdleTicks + 1
      BY <2>2, SMTT(30) DEF TInv, TypeOK
    <3> QED
      BY <1>2, <2>2, <2>4, <2>6, <3>1, Zenon DEF Piece, TInv, TypeOK, PlanInv, managerSide
<1>3. CASE Forward
  <2>1. to_manager' \in Seq(Message)
    BY <1>3, MessageTypes DEF Forward, TInv, TypeOK
  <2> QED
    BY <1>3, <2>1, WaitFrame DEF Forward, TInv, TypeOK, PlanInv, requests, semaphore,
       timers, peerSide, managerSide
<1>4. CASE Choke
  <2>1. inbox' \in Seq(Message)
    BY <1>4 DEF Choke, FromPeer, TInv, TypeOK
  <2>2. to_manager' \in Seq(Message)
    BY <1>4, MessageTypes, SendType, Zenon DEF Choke, TInv, TypeOK
  <2>3. Monus(InFlightLimit, permits) \in Nat
    BY SMTT(30) DEF Monus, TInv, TypeOK
  <2>4. /\ permits' \in Nat /\ waiters' \in Seq(Tasks) /\ task' \in [Tasks -> Task]
        /\ WaitInv'
    BY <1>4, <2>3, AddPermitsEffect, Zenon DEF Choke, TInv
  <2>5. PlanInv'
    BY <1>4 DEF Choke, FromPeer, Selecting, PlanInv
  <2> QED
    BY <1>4, <2>1, <2>2, <2>4, <2>5 DEF Choke, TInv, TypeOK, managerSide
<1>5. CASE Unchoke
  <2>1. inbox' \in Seq(Message)
    BY <1>5 DEF Unchoke, FromPeer, TInv, TypeOK
  <2>2. to_manager' \in Seq(Message)
    BY <1>5, MessageTypes, SendType, Zenon DEF Unchoke, TInv, TypeOK
  <2> QED
    BY <1>5, <2>1, <2>2, WaitFrame DEF Unchoke, TInv, TypeOK, PlanInv, requests,
       semaphore, managerSide
<1>6. CASE OtherMessage
  <2>1. inbox' \in Seq(Message)
    BY <1>6 DEF OtherMessage, FromPeer, TInv, TypeOK
  <2>2. to_manager' \in Seq(Message)
    BY <1>6, MessageTypes, SendType DEF OtherMessage, TInv, TypeOK
  <2>3. idle' \in 0..IdleTicks + 1
    BY <1>6 DEF OtherMessage
  <2>4. WaitInv' /\ PlanInv'
    BY <1>6, WaitFrame DEF OtherMessage, requests, semaphore, TInv, PlanInv
  <2>5. /\ UNCHANGED <<phase, permits, waiters, tracker, window, shrink, task, cancelling>>
        /\ UNCHANGED <<forwarding, got, warm, quiet, plan, to_session, writer, reader>>
        /\ UNCHANGED <<owed, choking, chokes, asked, finished, unchoked>>
    BY <1>6 DEF OtherMessage, requests, semaphore, managerSide
  <2> QED
    BY <2>1, <2>2, <2>3, <2>4, <2>5, ZenonT(30) DEF TInv, TypeOK
<1>7. CASE BulkRequest
  <2>1. /\ Head(to_session) \in Order /\ Tail(to_session) \in Seq(Order)
        /\ Head(to_session).blocks \in SUBSET Blocks
    <3>1. Head(to_session) \in Order /\ Tail(to_session) \in Seq(Order)
      BY <1>7 DEF BulkRequest, Command, TInv, TypeOK
    <3> QED BY <1>7, <3>1, MessageTypes DEF BulkRequest, Command
  <2>2. PICK t \in Tasks : /\ task[t] = Free
                           /\ task' = [task EXCEPT ![t] = NextOf(Head(to_session).blocks)]
    BY <1>7, Zenon DEF BulkRequest
  <2>3. /\ NextOf(Head(to_session).blocks) \in Task
        /\ NextOf(Head(to_session).blocks).at = "next" /\ Free.at = "free"
    BY <2>1, TaskTypes DEF NextOf, Free
  <2>4. task' \in [Tasks -> Task]
    BY <2>2, <2>3 DEF TInv, TypeOK
  <2>5. WaitInv'
    BY <1>7, <2>2, <2>3 DEF BulkRequest, semaphore, TInv, TypeOK, WaitInv
  <2> QED
    BY <1>7, <2>1, <2>4, <2>5 DEF BulkRequest, TInv, TypeOK, PlanInv, semaphore,
       peerSide, managerSide
<1>8. CASE BulkCancel
  <2>1. /\ Tail(to_session) \in Seq(Order)
        /\ Head(to_session) \in Order
    BY <1>8 DEF BulkCancel, Command, TInv, TypeOK
  <2>2. Head(to_session).blocks \in SUBSET Blocks
    BY <1>8, <2>1, MessageTypes, Zenon DEF BulkCancel, Command
  <2> QED
    BY <1>8, <2>1, <2>2, WaitFrame DEF BulkCancel, TInv, TypeOK, PlanInv, semaphore,
       peerSide, managerSide
<1>9. CASE OtherCommand
  <2>1. Tail(to_session) \in Seq(Order)
    BY <1>9 DEF OtherCommand, Command, TInv, TypeOK
  <2>2. idle' \in 0..IdleTicks + 1
    BY <1>9, SMTT(30) DEF OtherCommand, TInv, TypeOK
  <2>3. WaitInv' /\ PlanInv'
    BY <1>9, WaitFrame, Zenon DEF OtherCommand, requests, semaphore, TInv, PlanInv
  <2>4. /\ UNCHANGED <<phase, permits, waiters, tracker, window, shrink, task, cancelling>>
        /\ UNCHANGED <<forwarding, got, warm, quiet, plan, to_manager, writer, inbox, reader>>
        /\ UNCHANGED <<owed, choking, chokes, asked, finished, unchoked>>
    BY <1>9 DEF OtherCommand, requests, semaphore, peerSide, managerSide
  <2> QED
    BY <1>9, <2>1, <2>2, <2>3, <2>4 DEF OtherCommand, TInv, TypeOK
<1>10. CASE Tick
  <2>1. \/ window < MaxWindow /\ window' = window + 1 /\ AddPermits(1) /\ UNCHANGED plan
        \/ UNCHANGED <<window, semaphore, task, plan>>
        \/ plan' = (IF window > InFlightLimit THEN "shrink" ELSE "none")
           /\ UNCHANGED <<window, semaphore, task>>
    BY <1>10, Zenon DEF Tick, adjust_window_size, Grow, Shrink, Same
  <2>2. plan = "none"
    BY <1>10, ZenonT(30) DEF Tick, Selecting
  <2>3. /\ permits' \in Nat /\ waiters' \in Seq(Tasks) /\ task' \in [Tasks -> Task]
        /\ WaitInv'
    <3>1. CASE AddPermits(1)
      BY <3>1, AddPermitsEffect DEF TInv
    <3>2. CASE UNCHANGED <<semaphore, task>>
      BY <3>2, WaitFrame DEF TInv, TypeOK, semaphore
    <3> QED BY <2>1, <3>1, <3>2
  <2>4. window' \in InFlightLimit..MaxWindow /\ plan' \in {"none", "shrink"} /\ PlanInv'
    BY <2>1, <2>2 DEF TInv, TypeOK, PlanInv
  <2>5. got' \in BOOLEAN /\ warm' \in BOOLEAN
    BY <1>10, Zenon DEF Tick, TInv, TypeOK
  <2>6. quiet' \in 0..StallTicks + 1 /\ idle' \in 0..IdleTicks + 1
    BY <1>10 DEF Tick, Min, TInv, TypeOK
  <2> QED
    BY <1>10, <2>3, <2>4, <2>5, <2>6, Zenon DEF Tick, TInv, TypeOK, peerSide, managerSide
<1>11. CASE TickEnds \/ Close
  BY <1>11, EndType DEF TickEnds, Close
<1>12. CASE shrink_window
  <2>1. permits' \in Nat /\ shrink' \in Nat
    BY <1>12, SMTT(30) DEF shrink_window, TInv, TypeOK
  <2>2. WaitInv'
    BY <1>12, SMTT(30) DEF shrink_window, TInv, TypeOK, WaitInv
  <2>3. window' \in InFlightLimit..MaxWindow /\ PlanInv' /\ plan' \in {"none", "shrink"}
    <3>1. /\ plan = "shrink" /\ window > InFlightLimit /\ window' = window - 1
          /\ plan' = "none" /\ window \in InFlightLimit..MaxWindow
      BY <1>12 DEF shrink_window, TInv, TypeOK, PlanInv
    <3> QED BY <3>1 DEF PlanInv
  <2> QED
    BY <1>12, <2>1, <2>2, <2>3 DEF shrink_window, TInv, TypeOK, peerSide, managerSide
<1>13. ASSUME NEW t \in Tasks, TaskNext(t) PROVE TInv'
  <2>1. task[t] \in Task /\ task[t].at = "next" /\ task[t].todo \in SUBSET Blocks
    BY <1>13, TaskTypes DEF TaskNext, TInv, TypeOK
  <2>2. CASE task' = [task EXCEPT ![t] = Free] /\ UNCHANGED semaphore
    <3>1. task' \in [Tasks -> Task] /\ WaitInv'
      BY <2>1, <2>2, TaskTypes DEF semaphore, TInv, TypeOK, WaitInv, Free
    <3> QED
      BY <1>13, <2>2, <3>1 DEF TaskNext, TInv, TypeOK, PlanInv, semaphore, timers,
         peerSide, managerSide
  <2>3. ASSUME NEW b \in task[t].todo, permits > 0, permits' = permits - 1,
               task' = [task EXCEPT ![t] = With("permit", b, task[t].todo \ {b})],
               UNCHANGED waiters
        PROVE  TInv'
    <3> DEFINE w == With("permit", b, task[t].todo \ {b})
    <3>1. w \in Task /\ w.at = "permit"
      BY <2>1, TaskTypes DEF With
    <3> HIDE DEF w
    <3>2. task' \in [Tasks -> Task] /\ permits' \in Nat
      BY <2>3, <3>1 DEF TInv, TypeOK, w
    <3>3. WaitInv'
      <4>1. waiters = <<>> /\ waiters' = <<>>
        BY <2>3 DEF TInv, WaitInv
      <4>2. \A u \in Tasks : task[u].at # "queued"
        BY <4>1 DEF TInv, WaitInv
      <4>3. \A u \in Tasks : task'[u].at # "queued"
        BY <2>3, <3>1, <4>2, Zenon DEF TInv, TypeOK, w
      <4> QED BY <4>1, <4>3 DEF WaitInv
    <3> QED
      BY <1>13, <2>3, <3>2, <3>3, ZenonT(30) DEF TaskNext, TInv, TypeOK, PlanInv, timers,
         peerSide, managerSide
  <2>4. ASSUME NEW b \in task[t].todo, permits = 0,
               waiters' = Append(waiters, t),
               task' = [task EXCEPT ![t] = With("queued", b, task[t].todo \ {b})],
               UNCHANGED permits
        PROVE  TInv'
    <3> DEFINE w == With("queued", b, task[t].todo \ {b})
    <3>1. w \in Task /\ w.at = "queued"
      BY <2>1, TaskTypes DEF With
    <3> HIDE DEF w
    <3>2. task' \in [Tasks -> Task] /\ waiters' \in Seq(Tasks)
      BY <2>4, <3>1 DEF TInv, TypeOK, w
    <3>3. /\ waiters \in Seq(Tasks) /\ Len(waiters) \in Nat /\ DOMAIN waiters = 1..Len(waiters)
          /\ DOMAIN waiters' = 1 .. Len(waiters) + 1
          /\ \A i \in 1..Len(waiters) : waiters'[i] = waiters[i]
          /\ waiters'[Len(waiters) + 1] = t
      BY <2>4 DEF TInv, TypeOK
    <3>4. task'[t].at = "queued" /\ \A u \in Tasks \ {t} : task'[u] = task[u]
      BY <2>4, <3>1, Zenon DEF TInv, TypeOK, w
    <3>5. \A i \in 1..Len(waiters) : waiters[i] \in Tasks /\ waiters[i] # t
                                     /\ task[waiters[i]].at = "queued"
      BY <2>1, <3>3 DEF TInv, WaitInv
    <3>6. \A i \in DOMAIN waiters' : task'[waiters'[i]].at = "queued"
      BY <3>3, <3>4, <3>5
    <3>7. \A i, j \in DOMAIN waiters' : waiters'[i] = waiters'[j] => i = j
      <4>1. \A i, j \in 1..Len(waiters) : waiters[i] = waiters[j] => i = j
        BY <3>3, Zenon DEF TInv, WaitInv
      <4> QED BY <3>3, <3>5, <4>1
    <3>8. \A u \in Tasks : task'[u].at = "queued" => \E i \in DOMAIN waiters' : waiters'[i] = u
      <4> TAKE u \in Tasks
      <4> HAVE task'[u].at = "queued"
      <4>1. CASE u = t
        BY <3>3, <4>1
      <4>2. CASE u # t
        <5>1. PICK i \in DOMAIN waiters : waiters[i] = u
          BY <3>4, <4>2 DEF TInv, WaitInv
        <5> QED BY <3>3, <5>1
      <4> QED BY <4>1, <4>2
    <3>9. WaitInv'
      <4>1. ~(permits' > 0)
        BY <2>4
      <4> QED BY <3>6, <3>7, <3>8, <4>1, Zenon DEF WaitInv
    <3> QED
      BY <1>13, <2>4, <3>2, <3>9 DEF TaskNext, TInv, TypeOK, PlanInv, timers,
         peerSide, managerSide
  <2> QED BY <1>13, <2>2, <2>3, <2>4, Zenon DEF TaskNext
<1>14. ASSUME NEW t \in Tasks, TaskTimeout(t) PROVE TInv'
  <2>1. task[t] \in Task /\ task[t].at = "queued" /\ task[t].todo \in SUBSET Blocks
    BY <1>14, TaskTypes DEF TaskTimeout, TInv, TypeOK
  <2>2. PICK k \in DOMAIN waiters : waiters[k] = t /\ waiters' = Without(waiters, k)
    BY <1>14 DEF TaskTimeout
  <2>3. NextOf(task[t].todo) \in Task /\ NextOf(task[t].todo).at = "next"
    BY <2>1, TaskTypes DEF NextOf
  <2>4. /\ task' \in [Tasks -> Task]
        /\ task'[t].at = "next" /\ \A u \in Tasks \ {t} : task'[u] = task[u]
    BY <1>14, <2>3 DEF TaskTimeout, TInv, TypeOK
  <2>5. waiters \in Seq(Tasks) /\ Len(waiters) \in Nat /\ DOMAIN waiters = 1..Len(waiters)
    BY DEF TInv, TypeOK
  <2>6. /\ waiters' \in Seq(Tasks) /\ DOMAIN waiters' = 1 .. Len(waiters) - 1
        /\ \A j \in 1 .. Len(waiters) - 1 :
             waiters'[j] = IF j < k THEN waiters[j] ELSE waiters[j + 1]
    BY <2>2, <2>5, WithoutIs, Zenon
  <2>7. \A i \in 1..Len(waiters) : waiters[i] \in Tasks /\ task[waiters[i]].at = "queued"
    BY <2>5 DEF TInv, WaitInv
  <2>8. \A i, j \in 1..Len(waiters) : waiters[i] = waiters[j] => i = j
    BY <2>5, Zenon DEF TInv, WaitInv
  <2>9. \A i \in DOMAIN waiters' : waiters'[i] # t /\ task'[waiters'[i]].at = "queued"
    BY <2>2, <2>4, <2>5, <2>6, <2>7, <2>8
  <2>10. \A i, j \in DOMAIN waiters' : waiters'[i] = waiters'[j] => i = j
    BY <2>2, <2>5, <2>6, <2>8
  <2>11. ASSUME NEW u \in Tasks, task'[u].at = "queued"
         PROVE  \E i \in DOMAIN waiters' : waiters'[i] = u
    <3>1. u # t /\ task[u].at = "queued"
      BY <2>4, <2>11
    <3>2. PICK i \in DOMAIN waiters : waiters[i] = u
      BY <3>1 DEF TInv, WaitInv
    <3>3. CASE i < k
      BY <2>2, <2>5, <2>6, <3>2, <3>3
    <3>4. CASE i > k
      <4>1. i - 1 \in DOMAIN waiters' /\ waiters'[i - 1] = u
        BY <2>2, <2>5, <2>6, <3>2, <3>4
      <4> QED BY <4>1
    <3> QED BY <2>2, <2>5, <3>1, <3>2, <3>3, <3>4
  <2>12. permits' > 0 => waiters' = <<>>
    <3>1. permits = 0
      BY <2>2, <2>5 DEF TInv, TypeOK, WaitInv
    <3> QED BY <1>14, <3>1 DEF TaskTimeout
  <2>13. WaitInv'
    BY <2>9, <2>10, <2>11, <2>12 DEF WaitInv
  <2> QED
    BY <1>14, <2>4, <2>6, <2>13 DEF TaskTimeout, TInv, TypeOK, PlanInv, timers,
       peerSide, managerSide
<1>15. ASSUME NEW t \in Tasks, TaskTrack(t) PROVE TInv'
  <2>1. /\ task[t] \in Task /\ task[t].at = "permit"
        /\ task[t].block \in Blocks /\ task[t].todo \in SUBSET Blocks
        /\ task[t] = With("permit", task[t].block, task[t].todo)
    BY <1>15, TaskTypes, Zenon DEF TaskTrack, TInv, TypeOK
  <2>2. task' = [task EXCEPT ![t] = With("tracked", task[t].block, task[t].todo)]
    <3>1. task' = [task EXCEPT ![t] = [task[t] EXCEPT !.at = "tracked"]]
      BY <1>15 DEF TaskTrack
    <3>2. [task[t] EXCEPT !.at = "tracked"] = With("tracked", task[t].block, task[t].todo)
      <4> DEFINE b == task[t].block
                 S == task[t].todo
      <4>1. task[t] = With("permit", b, S)
        BY <2>1
      <4> HIDE DEF b, S
      <4>2. [With("permit", b, S) EXCEPT !.at = "tracked"] = With("tracked", b, S)
        BY DEF With
      <4>3. [task[t] EXCEPT !.at = "tracked"] = With("tracked", b, S)
        BY <4>1, <4>2
      <4> QED BY <4>3 DEF b, S
    <3> QED BY <3>1, <3>2, Zenon
  <2>3. /\ With("tracked", task[t].block, task[t].todo) \in Task
        /\ With("tracked", task[t].block, task[t].todo).at = "tracked"
    BY <2>1, TaskTypes DEF With
  <2>4. task' \in [Tasks -> Task]
    BY <2>2, <2>3 DEF TInv, TypeOK
  <2>5. WaitInv'
    <3>1. /\ task'[t].at = "tracked" /\ \A u \in Tasks \ {t} : task'[u] = task[u]
          /\ permits' = permits /\ waiters' = waiters /\ waiters \in Seq(Tasks)
      BY <1>15, <2>2, <2>3 DEF TaskTrack, semaphore, TInv, TypeOK
    <3> QED BY <2>1, <3>1 DEF TInv, WaitInv
  <2> QED
    BY <1>15, <2>1, <2>4, <2>5, Zenon DEF TaskTrack, TInv, TypeOK, PlanInv, semaphore, timers,
       peerSide, managerSide
<1>16. ASSUME NEW t \in Tasks, TaskSend(t) PROVE TInv'
  <2>1. /\ task[t] \in Task /\ task[t].at = "tracked"
        /\ task[t].block \in Blocks /\ task[t].todo \in SUBSET Blocks
    BY <1>16, TaskTypes DEF TaskSend, TInv, TypeOK
  <2>2. NextOf(task[t].todo) \in Task /\ NextOf(task[t].todo).at = "next"
    BY <2>1, TaskTypes DEF NextOf
  <2>3. task' \in [Tasks -> Task] /\ writer' \in Seq(Blocks)
    BY <1>16, <2>1, <2>2 DEF TaskSend, TInv, TypeOK
  <2>4. WaitInv'
    BY <1>16, <2>1, <2>2 DEF TaskSend, semaphore, TInv, TypeOK, WaitInv
  <2> QED
    BY <1>16, <2>3, <2>4 DEF TaskSend, TInv, TypeOK, PlanInv, semaphore, timers,
       peerSide, managerSide
<1>17. ASSUME NEW S \in cancelling, CancelTask(S) PROVE TInv'
  <2>1. Refund(S) \in Nat
    BY FS_Subset, FS_CardinalityType DEF Refund, Cancelled, TInv, TypeOK
  <2>2. /\ permits' \in Nat /\ waiters' \in Seq(Tasks) /\ task' \in [Tasks -> Task]
        /\ WaitInv'
    BY <1>17, <2>1, AddPermitsEffect DEF CancelTask, TInv
  <2> QED
    BY <1>17, <2>2 DEF CancelTask, TInv, TypeOK, PlanInv, timers, peerSide, managerSide
<1>18. CASE Peer
  <2>1. WaitInv' /\ PlanInv'
    BY <1>18, WaitFrame DEF Peer, PeerGetsRequest, PeerChokes, PeerUnchokes, PeerSendsOther,
       ReaderEnds, PeerAnswers, requests, semaphore, timers, TInv, PlanInv
  <2> DEFINE Ok == /\ writer' \in Seq(Blocks) /\ inbox' \in Seq(Message)
                   /\ owed' \in [Blocks -> Nat] /\ chokes' \in Nat
  <2>t. /\ writer \in Seq(Blocks) /\ inbox \in Seq(Message)
        /\ owed \in [Blocks -> Nat] /\ chokes \in Nat
    BY Zenon DEF TInv, TypeOK
  <2>m. \A m \in Message : Append(inbox, m) \in Seq(Message)
    BY <2>t
  <2>2. Ok
    <3>1. CASE PeerGetsRequest
      <4>0. writer # <<>> /\ writer' = Tail(writer) /\ inbox' = inbox /\ chokes' = chokes
        BY <3>1, Zenon DEF PeerGetsRequest
      <4>1. Head(writer) \in Blocks /\ Tail(writer) \in Seq(Blocks)
        BY <2>t, <4>0
      <4>2. owed' = owed \/ owed' = [owed EXCEPT ![Head(writer)] = @ + 1]
        BY <3>1, Zenon DEF PeerGetsRequest
      <4>3. owed' \in [Blocks -> Nat]
        BY <2>t, <4>1, <4>2
      <4> QED BY <2>t, <4>0, <4>1, <4>3, Zenon
    <3>2. ASSUME NEW b \in Blocks, PeerAnswers(b) PROVE Ok
      <4>1. Append(inbox, BlockMsg(b)) \in Seq(Message)
        BY <2>m, MessageTypes
      <4>2. /\ owed[b] > 0 /\ owed' = [owed EXCEPT ![b] = owed[b] - 1]
            /\ inbox' = Append(inbox, BlockMsg(b)) /\ writer' = writer /\ chokes' = chokes
        BY <3>2, Zenon DEF PeerAnswers
      <4>3. owed' \in [Blocks -> Nat]
        BY <2>t, <4>2
      <4> QED BY <2>t, <4>1, <4>2, <4>3, Zenon
    <3>3. CASE PeerChokes
      <4>1. Append(inbox, Msg("Choke")) \in Seq(Message)
        BY <2>m, MessageTypes
      <4>2. /\ owed' = [b \in Blocks |-> 0] /\ inbox' = Append(inbox, Msg("Choke"))
            /\ writer' = writer /\ chokes' = chokes + 1
        BY <3>3, Zenon DEF PeerChokes
      <4>3. owed' \in [Blocks -> Nat] /\ chokes' \in Nat
        BY <2>t, <4>2
      <4> QED BY <2>t, <4>1, <4>2, <4>3, Zenon
    <3>4. CASE PeerUnchokes
      <4>1. Append(inbox, Msg("Unchoke")) \in Seq(Message)
        BY <2>m, MessageTypes
      <4> QED BY <2>t, <3>4, <4>1, Zenon DEF PeerUnchokes
    <3>5. CASE PeerSendsOther
      <4>1. Append(inbox, Other) \in Seq(Message)
        BY <2>m, MessageTypes
      <4> QED BY <2>t, <3>5, <4>1, Zenon DEF PeerSendsOther
    <3>6. CASE ReaderEnds
      BY <2>t, <3>6, Zenon DEF ReaderEnds
    <3> QED BY <1>18, <3>1, <3>2, <3>3, <3>4, <3>5, <3>6, Zenon DEF Peer
  <2>4. reader' \in BOOLEAN /\ choking' \in BOOLEAN
    BY <1>18, Zenon DEF Peer, PeerGetsRequest, PeerChokes, PeerUnchokes, PeerSendsOther,
       ReaderEnds, PeerAnswers, TInv, TypeOK
  <2>5. UNCHANGED <<phase, requests, forwarding, timers, to_session, to_manager, managerSide>>
    BY <1>18, Zenon DEF Peer, PeerGetsRequest, PeerChokes, PeerUnchokes, PeerSendsOther,
       ReaderEnds, PeerAnswers
  <2> QED
    BY <2>1, <2>2, <2>4, <2>5 DEF TInv, TypeOK, requests, semaphore, timers, managerSide
<1>19. CASE Manager
  <2>1. WaitInv' /\ PlanInv'
    BY <1>19, WaitFrame, Zenon DEF Manager, ManagerRequests, ManagerCancels, ManagerSendsOther,
       ManagerReceives, requests, semaphore, timers, TInv, PlanInv
  <2>2. to_session' \in Seq(Order)
    <3>0. to_session \in Seq(Order)
      BY Zenon DEF TInv, TypeOK
    <3>1. \A m \in Order : Send(m) => to_session' \in Seq(Order)
      BY <3>0, SendType, Zenon DEF Send
    <3>2. /\ Other \in Order
          /\ \A S \in SUBSET Blocks : /\ Bulk("BulkRequest", S) \in Order
                                     /\ Bulk("BulkCancel", S) \in Order
      BY MessageTypes
    <3>3. \/ \E m \in Order : Send(m)
          \/ to_session' = to_session
      BY <1>19, <3>2, Zenon DEF Manager, ManagerRequests, ManagerCancels,
         ManagerSendsOther, ManagerReceives
    <3> QED BY <3>0, <3>1, <3>3, Zenon
  <2>3. to_manager' \in Seq(Message)
    <3>0. to_manager \in Seq(Message)
      BY Zenon DEF TInv, TypeOK
    <3>1. \/ to_manager' = to_manager
          \/ to_manager # <<>> /\ to_manager' = Tail(to_manager)
      BY <1>19, Zenon DEF Manager, ManagerRequests, ManagerCancels, ManagerSendsOther,
         ManagerReceives
    <3> QED BY <3>0, <3>1
  <2>4. asked' \subseteq Blocks /\ finished' \subseteq Blocks /\ unchoked' \in BOOLEAN
    BY <1>19, Zenon DEF Manager, ManagerRequests, ManagerCancels, ManagerSendsOther, ManagerReceives,
       managerSide, TInv, TypeOK
  <2>5. UNCHANGED <<phase, requests, forwarding, timers, writer, peerSide>>
    BY <1>19, Zenon DEF Manager, ManagerRequests, ManagerCancels, ManagerSendsOther, ManagerReceives
  <2> QED
    BY <2>1, <2>2, <2>3, <2>4, <2>5, ZenonT(30) DEF TInv, TypeOK, requests, semaphore, timers, peerSide
<1>20. CASE UNCHANGED vars
  BY <1>20, WaitFrame DEF vars, TInv, TypeOK, PlanInv, requests, semaphore, timers,
     peerSide, managerSide
<1> QED
  BY <1>1, <1>2, <1>3, <1>4, <1>5, <1>6, <1>7, <1>8, <1>9, <1>10, <1>11, <1>12, <1>13,
     <1>14, <1>15, <1>16, <1>17, <1>18, <1>19, <1>20, Zenon DEF Next, Session, Spawned

(* Every step keeps the state well typed: in particular the window stays   *)
(* between its limits however adjust_window_size and shrink_window meet.   *)
THEOREM TypeCorrect == Spec => []TypeOK
<1>1. Init => TInv
  BY TypeInit
<1>2. TInv /\ [Next]_vars => TInv'
  BY TypeNext
<1>3. TInv => TypeOK
  BY DEF TInv
<1> QED BY <1>1, <1>2, <1>3, PTL DEF Spec

LEMMA TypeInvariant == Spec => []TInv
  BY TypeInit, TypeNext, PTL DEF Spec

---------------------------------------------------------------------------
(* The refinement of PeerLink.                                             *)

(* At most one block waits for room in the manager's channel.              *)
OneForward == \A x, y \in forwarding : x = y

LEMMA OneForwardNext == OneForward /\ [Next]_vars => OneForward'
<1> SUFFICES ASSUME OneForward, [Next]_vars PROVE OneForward'
  OBVIOUS
<1>1. CASE Piece
  BY <1>1 DEF Piece, ToForward, OneForward
<1>2. CASE Forward
  BY <1>2 DEF Forward, OneForward
<1>3. CASE TickEnds \/ Close
  BY <1>3 DEF TickEnds, Close, End, OneForward
<1>4. CASE forwarding' = forwarding
  BY <1>4, Zenon DEF OneForward
<1>5. CASE Session
  BY <1>1, <1>2, <1>3, <1>4, <1>5 DEF Session, Handshake, Choke, Unchoke, OtherMessage,
     BulkRequest, BulkCancel, OtherCommand, Tick, shrink_window
<1>6. CASE Spawned \/ Peer \/ Manager \/ UNCHANGED vars
  BY <1>4, <1>6 DEF Spawned, TaskNext, TaskTimeout, TaskTrack, TaskSend, CancelTask, Peer,
     PeerGetsRequest, PeerChokes, PeerUnchokes, PeerSendsOther, ReaderEnds, PeerAnswers,
     Manager, ManagerRequests, ManagerCancels, ManagerSendsOther, ManagerReceives, vars
<1> QED BY <1>5, <1>6 DEF Next

(* Where a deliverable block is: in a queued request, in a task, expected, *)
(* or on its way to the manager.                                           *)
Waits(b) == \E i \in DOMAIN to_session :
              to_session[i].msg = "BulkRequest" /\ b \in to_session[i].blocks
Pends(b) == \E t \in Tasks : b \in InTask(t)

LEMMA DeliverableIs ==
  /\ \A b : b \in Deliverable <=> Waits(b) \/ Pends(b) \/ b \in tracker \/ b \in forwarding
  /\ \A b : b \in Deliverable' <=> Waits(b)' \/ Pends(b)' \/ b \in tracker' \/ b \in forwarding'
<1>1. \A b : b \in Queued <=> Waits(b)
  BY DEF Queued, Waits
<1>2. \A b : b \in Queued' <=> Waits(b)'
  BY DEF Queued, Waits
<1>3. \A b : b \in (UNION {InTask(t) : t \in Tasks}) <=> Pends(b)
  BY DEF Pends
<1>4. \A b : b \in (UNION {InTask(t) : t \in Tasks})' <=> Pends(b)'
  BY DEF Pends
<1> QED BY <1>1, <1>2, <1>3, <1>4 DEF Deliverable

LEMMA InTaskIs ==
  ASSUME NEW t \in Tasks
  PROVE  /\ task[t].at = "free" => InTask(t) = {}
         /\ task[t].at \in {"next", "tracked"} => InTask(t) = task[t].todo
         /\ task[t].at \in {"queued", "permit"} => InTask(t) = task[t].todo \cup {task[t].block}
         /\ task'[t].at = "free" => InTask(t)' = {}
         /\ task'[t].at \in {"next", "tracked"} => InTask(t)' = task'[t].todo
         /\ task'[t].at \in {"queued", "permit"} =>
              InTask(t)' = task'[t].todo \cup {task'[t].block}
         /\ task'[t] = task[t] => InTask(t)' = InTask(t)
  BY Zenon DEF InTask

LEMMA DeliverableType == TypeOK => Deliverable \subseteq Blocks
<1> SUFFICES ASSUME TypeOK, NEW b \in Deliverable PROVE b \in Blocks
  OBVIOUS
<1>1. CASE Waits(b)
  <2>1. PICK i \in DOMAIN to_session :
          to_session[i].msg = "BulkRequest" /\ b \in to_session[i].blocks
    BY <1>1 DEF Waits
  <2>2. to_session[i] \in Order
    BY DEF TypeOK
  <2> QED BY <2>1, <2>2, MessageTypes
<1>2. CASE Pends(b)
  <2>1. PICK t \in Tasks : b \in InTask(t)
    BY <1>2 DEF Pends
  <2>2. task[t] \in Task
    BY Zenon DEF TypeOK
  <2> QED BY <2>1, <2>2, InTaskIs, TaskTypes, Zenon
<1> QED BY <1>1, <1>2, DeliverableIs DEF TypeOK

(* Serving waiting tasks moves no block.                                   *)
LEMMA AddPermitsPends ==
  ASSUME TInv, NEW n \in Nat, AddPermits(n)
  PROVE  \A t \in Tasks : InTask(t)' = InTask(t)
<1> TAKE t \in Tasks
<1>1. CASE task'[t] = task[t]
  BY <1>1, InTaskIs
<1>2. CASE task[t].at = "queued" /\ task'[t] = With("permit", task[t].block, task[t].todo)
  <2>1. task'[t].at = "permit" /\ task'[t].block = task[t].block /\ task'[t].todo = task[t].todo
    BY <1>2, TaskFields
  <2> QED BY <1>2, <2>1, InTaskIs
<1> QED BY <1>1, <1>2, AddPermitsEffect DEF TInv

(* The three ways a step of the session looks to the manager: blocks are   *)
(* lost, a signal arrives and blocks are lost with it, or nothing.         *)
LEMMA LinkLose ==
  ASSUME TypeOK, Deliverable' \subseteq Deliverable, UNCHANGED <<asked, to_manager>>
  PROVE  Link!Next
<1> DEFINE D == Deliverable \ Deliverable'
<1>1. D \in SUBSET Blocks
  BY DeliverableType
<1>2. Link!Lose(D)
  BY DEF Link!Lose
<1> QED BY <1>1, <1>2 DEF Link!Next

LEMMA LinkSignal ==
  ASSUME TypeOK, Deliverable' \subseteq Deliverable, asked' = asked,
         NEW m \in {"Choke", "Unchoke", "Disconnect", "Other"},
         to_manager' = TrySend(to_manager, ManagerCap, Msg(m))
  PROVE  Link!Next
<1> DEFINE D == Deliverable \ Deliverable'
<1>1. D \in SUBSET Blocks
  BY DeliverableType
<1>2. CASE to_manager' = Append(to_manager, Msg(m))
  <2>1. Link!Signal(m, D)
    BY <1>2 DEF Link!Signal, Msg
  <2> QED BY <1>1, <2>1 DEF Link!Next
<1>3. CASE to_manager' = to_manager
  BY <1>3, LinkLose
<1> QED BY <1>2, <1>3 DEF TrySend

(* Steps that touch no request leave the deliverable blocks alone.         *)
LEMMA DeliverableFrame ==
  ASSUME UNCHANGED <<to_session, task, tracker, forwarding>>
  PROVE  Deliverable' = Deliverable
<1>1. \A b : (Waits(b)' <=> Waits(b)) /\ (Pends(b)' <=> Pends(b))
  BY InTaskIs DEF Waits, Pends
<1> QED BY <1>1, DeliverableIs

(* With only tasks and tracker changing.                                   *)
LEMMA DeliverableTasks ==
  ASSUME UNCHANGED to_session, forwarding' \subseteq Deliverable,
         \A t \in Tasks : InTask(t)' \subseteq Deliverable, tracker' \subseteq Deliverable
  PROVE  Deliverable' \subseteq Deliverable
<1>1. \A b : Waits(b)' <=> Waits(b)
  BY DEF Waits
<1>2. \A b : Pends(b)' => b \in Deliverable
  BY DEF Pends
<1> QED BY <1>1, <1>2, DeliverableIs

LEMMA LinkStep == TInv /\ OneForward /\ [Next]_vars => [Link!Next]_(Link!linkVars)
<1> SUFFICES ASSUME TInv, OneForward, [Next]_vars
             PROVE  Link!Next \/ UNCHANGED Link!linkVars
  OBVIOUS
<1>0. TypeOK
  BY DEF TInv
<1>a. \A t \in Tasks : InTask(t) \subseteq Deliverable
  BY DeliverableIs DEF Pends
<1>b. tracker \subseteq Deliverable /\ forwarding \subseteq Deliverable
  BY DeliverableIs
<1>1. CASE Handshake
  BY <1>0, <1>1, DeliverableFrame, LinkLose DEF Handshake, requests, managerSide
<1>2. CASE Piece
  <2>1. \A t \in Tasks : InTask(t)' = InTask(t)
    <3>1. CASE AddPermits(1)
      BY <3>1, AddPermitsPends
    <3>2. CASE UNCHANGED task
      BY <3>2, InTaskIs
    <3> QED BY <1>2, <3>1, <3>2 DEF Piece, ReturnPermit
  <2>2. tracker' \subseteq tracker /\ forwarding' \subseteq tracker
    BY <1>2 DEF Piece, ToForward
  <2>3. Deliverable' \subseteq Deliverable
    BY <1>2, <1>a, <1>b, <2>1, <2>2, DeliverableTasks DEF Piece
  <2> QED BY <1>0, <1>2, <2>3, LinkLose DEF Piece, managerSide
<1>3. CASE Forward
  <2>1. PICK b \in forwarding : to_manager' = Append(to_manager, BlockMsg(b))
    BY <1>3 DEF Forward
  <2>2. \A x : (Waits(x)' <=> Waits(x)) /\ (Pends(x)' <=> Pends(x))
    BY <1>3, InTaskIs, ZenonT(30) DEF Forward, Waits, Pends, requests
  <2>3. forwarding = {b} /\ forwarding' = {} /\ tracker' = tracker
    BY <1>3, <2>1 DEF Forward, OneForward, requests
  <2>4. Deliverable' \in {Deliverable, Deliverable \ {b}}
    <3>1. CASE b \in Deliverable'
      BY <2>2, <2>3, <3>1, DeliverableIs
    <3>2. CASE b \notin Deliverable'
      BY <2>2, <2>3, <3>2, DeliverableIs
    <3> QED BY <3>1, <3>2
  <2>5. b \in Deliverable /\ b \in Blocks
    BY <1>0, <1>b, <2>1, DeliverableType
  <2>6. Link!Deliver(b)
    BY <1>3, <2>1, <2>4, <2>5 DEF Forward, managerSide, Link!Deliver, BlockMsg
  <2> QED BY <2>5, <2>6 DEF Link!Next
<1>4. CASE Choke
  <2>1. Monus(InFlightLimit, permits) \in Nat
    BY <1>0, SessionAssumption DEF Monus, TypeOK
  <2>2. \A t \in Tasks : InTask(t)' = InTask(t)
    BY <1>4, <2>1, AddPermitsPends DEF Choke
  <2>3. Deliverable' \subseteq Deliverable
    BY <1>4, <1>a, <1>b, <2>2, DeliverableTasks DEF Choke
  <2> QED BY <1>0, <1>4, <2>3, LinkSignal DEF Choke, managerSide
<1>5. CASE Unchoke
  <2>1. Deliverable' = Deliverable
    BY <1>5, DeliverableFrame DEF Unchoke, requests
  <2> QED BY <1>0, <1>5, <2>1, LinkSignal DEF Unchoke, managerSide
<1>6. CASE OtherMessage
  <2>1. Deliverable' = Deliverable
    BY <1>6, DeliverableFrame DEF OtherMessage, requests
  <2>2. CASE to_manager' = to_manager
    BY <1>0, <1>6, <2>1, <2>2, LinkLose DEF OtherMessage, managerSide
  <2>3. CASE to_manager' = TrySend(to_manager, ManagerCap, Other)
    <3>1. Other = Msg("Other")
      BY DEF Other, Msg
    <3> QED BY <1>0, <1>6, <2>1, <2>3, <3>1, LinkSignal DEF OtherMessage, managerSide
  <2> QED BY <1>6, <2>2, <2>3 DEF OtherMessage
<1>7. CASE BulkRequest
  <2>1. PICK t \in Tasks : /\ task[t] = Free
                           /\ task' = [task EXCEPT ![t] = NextOf(Head(to_session).blocks)]
    BY <1>7, ZenonT(30) DEF BulkRequest
  <2>2. /\ to_session \in Seq(Order) /\ to_session # <<>> /\ to_session' = Tail(to_session)
        /\ Head(to_session).msg = "BulkRequest"
    BY <1>0, <1>7 DEF BulkRequest, Command, TypeOK
  <2>3. /\ task'[t] = NextOf(Head(to_session).blocks)
        /\ \A u \in Tasks \ {t} : task'[u] = task[u]
    BY <1>0, <2>1, ZenonT(30) DEF TypeOK
  <2>4. InTask(t)' = Head(to_session).blocks
    BY <2>3, TaskFields, InTaskIs
  <2>5. \A b : Waits(b)' => Waits(b)
    BY <2>2 DEF Waits
  <2>6. \A b \in Head(to_session).blocks : Waits(b)
    BY <2>2 DEF Waits
  <2>7. \A b : Pends(b)' => Pends(b) \/ Waits(b)
    BY <2>3, <2>4, <2>6, InTaskIs, ZenonT(30) DEF Pends
  <2>8. Deliverable' \subseteq Deliverable
    BY <1>7, <2>5, <2>7, DeliverableIs, Zenon DEF BulkRequest
  <2> QED BY <1>0, <1>7, <2>8, LinkLose DEF BulkRequest, managerSide
<1>8. CASE BulkCancel \/ OtherCommand
  <2>1. /\ to_session \in Seq(Order) /\ to_session # <<>> /\ to_session' = Tail(to_session)
        /\ UNCHANGED <<task, tracker, forwarding, to_manager, asked>>
    BY <1>0, <1>8, ZenonT(30) DEF BulkCancel, OtherCommand, Command, TypeOK, requests, managerSide
  <2>2. \A b : Waits(b)' => Waits(b)
    BY <2>1 DEF Waits
  <2>3. \A b : Pends(b)' <=> Pends(b)
    BY <2>1, InTaskIs, ZenonT(30) DEF Pends
  <2>4. Deliverable' \subseteq Deliverable
    BY <2>1, <2>2, <2>3, DeliverableIs
  <2> QED BY <1>0, <2>1, <2>4, LinkLose
<1>9. CASE Tick
  <2>1. \A t \in Tasks : InTask(t)' = InTask(t)
    <3>1. CASE AddPermits(1)
      BY <3>1, AddPermitsPends
    <3>2. CASE UNCHANGED task
      BY <3>2, InTaskIs
    <3> QED BY <1>9, <3>1, <3>2, ZenonT(30) DEF Tick, adjust_window_size, Grow, Shrink, Same
  <2>2. Deliverable' \subseteq Deliverable
    BY <1>9, <1>a, <1>b, <2>1, DeliverableTasks DEF Tick
  <2> QED BY <1>0, <1>9, <2>2, LinkLose DEF Tick, managerSide
<1>10. CASE TickEnds \/ Close
  <2>1. End
    BY <1>10 DEF TickEnds, Close
  <2>2. \A t \in Tasks : InTask(t)' = {}
    BY <2>1, InTaskIs, TaskFields, ZenonT(30) DEF End
  <2>3. Deliverable' = {}
    BY <2>1, <2>2, DeliverableIs DEF End, Waits, Pends
  <2> QED BY <1>0, <2>1, <2>3, LinkSignal DEF End, managerSide
<1>11. CASE shrink_window
  BY <1>0, <1>11, DeliverableFrame, LinkLose DEF shrink_window, managerSide
<1>12. ASSUME NEW t \in Tasks, TaskNext(t) PROVE Link!Next
  <2>1. task[t] \in Task /\ task[t].at = "next" /\ InTask(t) = task[t].todo
    BY <1>0, <1>12, InTaskIs, ZenonT(30) DEF TaskNext, TypeOK
  <2>2. InTask(t)' \subseteq InTask(t) /\ \A u \in Tasks \ {t} : InTask(u)' = InTask(u)
    <3>1. CASE task' = [task EXCEPT ![t] = Free]
      BY <1>0, <3>1, InTaskIs, TaskFields DEF TypeOK
    <3>2. ASSUME NEW b \in task[t].todo, NEW at \in {"permit", "queued"},
                 task' = [task EXCEPT ![t] = With(at, b, task[t].todo \ {b})]
          PROVE  InTask(t)' \subseteq InTask(t) /\ \A u \in Tasks \ {t} : InTask(u)' = InTask(u)
      <4>1. /\ task'[t] = With(at, b, task[t].todo \ {b})
            /\ \A u \in Tasks \ {t} : task'[u] = task[u]
        BY <1>0, <3>2, ZenonT(30) DEF TypeOK
      <4>2. InTask(t)' = (task[t].todo \ {b}) \cup {b}
        BY <4>1, InTaskIs, TaskFields
      <4> QED BY <2>1, <4>1, <4>2, InTaskIs, Zenon
    <3> QED BY <1>12, <3>1, <3>2, ZenonT(30) DEF TaskNext
  <2>3. Deliverable' \subseteq Deliverable
    BY <1>12, <1>a, <1>b, <2>2, DeliverableTasks, Zenon DEF TaskNext
  <2> QED BY <1>0, <1>12, <2>3, LinkLose, ZenonT(30) DEF TaskNext, managerSide
<1>13. ASSUME NEW t \in Tasks, TaskTimeout(t) \/ TaskSend(t) PROVE Link!Next
  <2>1. /\ task[t] \in Task /\ task[t].at \in {"queued", "tracked"}
        /\ task' = [task EXCEPT ![t] = NextOf(task[t].todo)]
        /\ UNCHANGED <<to_session, tracker, forwarding, to_manager, asked>>
    BY <1>0, <1>13, ZenonT(30) DEF TaskTimeout, TaskSend, TypeOK, managerSide
  <2>2. task'[t] = NextOf(task[t].todo) /\ \A u \in Tasks \ {t} : task'[u] = task[u]
    BY <1>0, <2>1, ZenonT(30) DEF TypeOK
  <2>3. InTask(t)' = task[t].todo
    <3>1. NextOf(task[t].todo).at = "next" /\ NextOf(task[t].todo).todo = task[t].todo
      BY TaskFields, Zenon
    <3>2. task'[t].at \in {"next", "tracked"} /\ task'[t].todo = task[t].todo
      BY <2>2, <3>1, Zenon
    <3> QED BY <3>2, InTaskIs, Zenon
  <2>4. InTask(t)' \subseteq InTask(t)
    BY <2>1, <2>3, InTaskIs, ZenonT(30)
  <2>5. \A u \in Tasks \ {t} : InTask(u)' = InTask(u)
    BY <2>2, InTaskIs, ZenonT(30)
  <2>6. Deliverable' \subseteq Deliverable
    BY <1>a, <1>b, <2>1, <2>4, <2>5, DeliverableTasks
  <2> QED BY <1>0, <2>1, <2>6, LinkLose
<1>14. ASSUME NEW t \in Tasks, TaskTrack(t) PROVE Link!Next
  <2>1. /\ task[t] \in Task /\ task[t].at = "permit"
        /\ InTask(t) = task[t].todo \cup {task[t].block}
    BY <1>0, <1>14, InTaskIs DEF TaskTrack, TypeOK
  <2>2. /\ task'[t].at = "tracked" /\ task'[t].todo = task[t].todo
        /\ \A u \in Tasks \ {t} : task'[u] = task[u]
    <3>1. task[t] = With("permit", task[t].block, task[t].todo)
      BY <2>1, TaskTypes
    <3>2. /\ task'[t] = [task[t] EXCEPT !.at = "tracked"]
          /\ \A u \in Tasks \ {t} : task'[u] = task[u]
      BY <1>0, <1>14 DEF TaskTrack, TypeOK
    <3> QED BY <3>1, <3>2 DEF With
  <2>3. InTask(t)' \subseteq InTask(t) /\ \A u \in Tasks \ {t} : InTask(u)' = InTask(u)
    BY <2>1, <2>2, InTaskIs, Zenon
  <2>4. tracker' \subseteq Deliverable
    BY <1>14, <1>a, <1>b, <2>1 DEF TaskTrack
  <2>5. Deliverable' \subseteq Deliverable
    BY <1>14, <1>a, <1>b, <2>3, <2>4, DeliverableTasks DEF TaskTrack
  <2> QED BY <1>0, <1>14, <2>5, LinkLose DEF TaskTrack, managerSide
<1>15. ASSUME NEW S \in cancelling, CancelTask(S) PROVE Link!Next
  <2>1. Refund(S) \in Nat
    BY <1>0, SessionAssumption, FS_Subset, FS_CardinalityType, ZenonT(30) DEF Refund, Cancelled, TypeOK
  <2>2. \A t \in Tasks : InTask(t)' = InTask(t)
    BY <1>15, <2>1, AddPermitsPends DEF CancelTask
  <2>3. Deliverable' \subseteq Deliverable
    BY <1>15, <1>a, <1>b, <2>2, DeliverableTasks DEF CancelTask
  <2> QED BY <1>0, <1>15, <2>3, LinkLose DEF CancelTask, managerSide
<1>16. CASE Peer
  <2>1. UNCHANGED <<to_session, task, tracker, forwarding, asked, to_manager>>
    BY <1>16, Zenon DEF Peer, PeerGetsRequest, PeerChokes, PeerUnchokes, PeerSendsOther, ReaderEnds,
       PeerAnswers, requests, managerSide
  <2> QED BY <1>0, <2>1, DeliverableFrame, LinkLose
<1>17. ASSUME NEW S \in SUBSET Blocks, ManagerRequests(S) PROVE Link!Next
  <2>1. /\ S # {} /\ S \cap asked = {} /\ asked' = asked \cup S
        /\ UNCHANGED <<task, tracker, forwarding, to_manager>>
        /\ to_session' = to_session \/ to_session' = Append(to_session, Bulk("BulkRequest", S))
        /\ to_session \in Seq(Order)
    BY <1>0, <1>17 DEF ManagerRequests, Send, TrySend, TypeOK, requests
  <2>2. \A b : Pends(b)' <=> Pends(b)
    BY <2>1, InTaskIs, ZenonT(30) DEF Pends
  <2>3. Deliverable' \in {Deliverable, Deliverable \cup S}
    <3>1. CASE to_session' = to_session
      BY <2>1, <3>1, DeliverableFrame
    <3>2. CASE to_session' = Append(to_session, Bulk("BulkRequest", S))
      <4>1. Bulk("BulkRequest", S) \in Order /\ Bulk("BulkRequest", S).msg = "BulkRequest"
            /\ Bulk("BulkRequest", S).blocks = S
        BY MessageTypes, Zenon DEF Bulk
      <4>2. /\ Len(to_session') = Len(to_session) + 1 /\ Len(to_session) \in Nat
            /\ DOMAIN to_session = 1 .. Len(to_session)
            /\ DOMAIN to_session' = 1 .. Len(to_session) + 1
            /\ \A i \in DOMAIN to_session : to_session'[i] = to_session[i]
            /\ to_session'[Len(to_session) + 1] = Bulk("BulkRequest", S)
        BY <2>1, <3>2, <4>1
      <4>3. \A b : Waits(b)' <=> Waits(b) \/ b \in S
        BY <4>1, <4>2 DEF Waits
      <4>4. Deliverable' = Deliverable \cup S
        BY <2>1, <2>2, <4>3, DeliverableIs, Zenon
      <4> QED BY <4>4
    <3> QED BY <2>1, <3>1, <3>2
  <2>4. Link!Ask(S)
    BY <2>1, <2>3 DEF Link!Ask
  <2> QED BY <2>4 DEF Link!Next
<1>18. ASSUME NEW S \in SUBSET Blocks, ManagerCancels(S) PROVE Link!Next
  <2>1. /\ UNCHANGED <<task, tracker, forwarding, to_manager, asked>>
        /\ to_session' = to_session \/ to_session' = Append(to_session, Bulk("BulkCancel", S))
        /\ to_session \in Seq(Order)
    BY <1>0, <1>18 DEF ManagerCancels, Send, TrySend, TypeOK, requests
  <2>2. Bulk("BulkCancel", S).msg # "BulkRequest" /\ Bulk("BulkCancel", S) \in Order
    BY MessageTypes, ZenonT(30) DEF Bulk
  <2>3. \A b : Waits(b)' => Waits(b)
    BY <2>1, <2>2 DEF Waits
  <2>4. \A b : Pends(b)' <=> Pends(b)
    BY <2>1, InTaskIs, Zenon DEF Pends
  <2>5. Deliverable' \subseteq Deliverable
    BY <2>1, <2>3, <2>4, DeliverableIs
  <2> QED BY <1>0, <2>1, <2>5, LinkLose
<1>19. CASE ManagerSendsOther
  <2>1. /\ UNCHANGED <<task, tracker, forwarding, to_manager, asked>>
        /\ to_session' = to_session \/ to_session' = Append(to_session, Other)
        /\ to_session \in Seq(Order)
    BY <1>0, <1>19 DEF ManagerSendsOther, Send, TrySend, TypeOK, requests, managerSide
  <2>2. Other.msg # "BulkRequest" /\ Other \in Order
    BY MessageTypes DEF Other
  <2>3. \A b : Waits(b)' => Waits(b)
    BY <2>1, <2>2 DEF Waits
  <2>4. \A b : Pends(b)' <=> Pends(b)
    BY <2>1, InTaskIs, ZenonT(30) DEF Pends
  <2>5. Deliverable' \subseteq Deliverable
    BY <2>1, <2>3, <2>4, DeliverableIs
  <2> QED BY <1>0, <2>1, <2>5, LinkLose
<1>20. CASE ManagerReceives
  <2>1. Deliverable' = Deliverable
    BY <1>20, DeliverableFrame DEF ManagerReceives, requests
  <2>2. /\ to_manager # <<>> /\ to_manager' = Tail(to_manager)
        /\ Head(to_manager) \in Message
    BY <1>0, <1>20 DEF ManagerReceives, TypeOK
  <2>3. asked' = CASE Head(to_manager).msg = "Block" -> asked \ {Head(to_manager).block}
                   [] Head(to_manager).msg \in {"Choke", "Disconnect"} -> {}
                   [] Head(to_manager).msg \in {"Unchoke", "Other"} -> asked
    BY <1>20, <2>2, MessageTypes DEF ManagerReceives
  <2>4. Link!Take
    BY <2>1, <2>2, <2>3 DEF Link!Take
  <2> QED BY <2>4 DEF Link!Next
<1>21. CASE UNCHANGED vars
  <2>1. UNCHANGED <<to_session, task, tracker, forwarding, asked, to_manager>>
    BY <1>21 DEF vars, requests, managerSide
  <2> QED BY <1>0, <2>1, DeliverableFrame, LinkLose
<1> QED
  BY <1>1, <1>2, <1>3, <1>4, <1>5, <1>6, <1>7, <1>8, <1>9, <1>10, <1>11, <1>12, <1>13,
     <1>14, <1>15, <1>16, <1>17, <1>18, <1>19, <1>20, <1>21
  DEF Next, Session, Spawned, Manager

(* A peer session implements PeerLink: whatever chokes, cancellations,     *)
(* timeouts and late answers do, the manager is handed only blocks it      *)
(* asked for, each from a request that nothing has taken back.             *)
THEOREM SessionImplementsPeerLink == Spec => ImplementsPeerLink
<1>1. Init => Link!Init
  <2> SUFFICES ASSUME Init PROVE Link!Init
    OBVIOUS
  <2>1. \A t \in Tasks : InTask(t) = {}
    BY InTaskIs, TaskFields, Zenon DEF Init
  <2>0. DOMAIN to_session = {} /\ tracker = {} /\ forwarding = {}
    BY DEF Init
  <2>2. Deliverable = {}
    BY <2>0, <2>1, DeliverableIs, Zenon DEF Waits, Pends
  <2> QED BY <2>2 DEF Init, Link!Init
<1>2. Init => OneForward
  BY DEF Init, OneForward
<1> QED
  BY <1>1, <1>2, TypeInvariant, OneForwardNext, LinkStep, PTL
  DEF Spec, ImplementsPeerLink, Link!Spec

---------------------------------------------------------------------------
(* The window.  While the peer has not choked us, a block is in at most    *)
(* one place between the manager's request and the manager's receipt, and  *)
(* until then the manager does not ask for it again.                       *)

Has(s, x) == \E i \in DOMAIN s : s[i] = x
Once(s, x) == \A i, j \in DOMAIN s : s[i] = x /\ s[j] = x => i = j

Up(b) == Has(to_manager, BlockMsg(b))
WaitsOnce(b) ==
  \A i, j \in DOMAIN to_session :
    /\ to_session[i].msg = "BulkRequest" /\ b \in to_session[i].blocks
    /\ to_session[j].msg = "BulkRequest" /\ b \in to_session[j].blocks
    => i = j
PendsOnce(b) == \A t, u \in Tasks : b \in InTask(t) /\ b \in InTask(u) => t = u

Place(b) ==
  /\ Waits(b) => ~Pends(b) /\ b \notin tracker /\ b \notin forwarding /\ ~Up(b)
  /\ Pends(b) => b \notin tracker /\ b \notin forwarding /\ ~Up(b)
  /\ b \in tracker => b \notin forwarding /\ ~Up(b)
  /\ b \in forwarding => ~Up(b)
  /\ WaitsOnce(b) /\ PendsOnce(b) /\ Once(to_manager, BlockMsg(b))
  /\ Waits(b) \/ Pends(b) \/ b \in tracker \/ b \in forwarding \/ Up(b) => b \in asked

(* A block a task is about to request is not among those it still has.     *)
TaskInv == \A t \in Tasks : task[t].at \in {"queued", "permit"} => task[t].block \notin task[t].todo

(* No choke on its way to us, and no choke or goodbye to the manager.      *)
NoSignal ==
  /\ \A i \in DOMAIN inbox : inbox[i].msg # "Choke"
  /\ \A i \in DOMAIN to_manager : to_manager[i].msg \notin {"Choke", "Disconnect"}

Calm == chokes = 0 /\ phase # "closed"

PlaceInv == TaskInv /\ (Calm => NoSignal /\ \A b \in Blocks : Place(b))

(* What the end of a session leaves behind.                                *)
ClosedInv ==
  phase = "closed" =>
    /\ permits = InFlightLimit /\ window = InFlightLimit /\ shrink = 0
    /\ tracker = {} /\ task = [t \in Tasks |-> Free]
    /\ writer = <<>> /\ inbox = <<>> /\ owed = [b \in Blocks |-> 0]

LEMMA HasTail ==
  ASSUME NEW S, NEW s \in Seq(S), s # <<>>, NEW x
  PROVE  /\ Has(Tail(s), x) => Has(s, x)
         /\ Has(s, Head(s))
         /\ Once(s, x) => Once(Tail(s), x)
         /\ Once(s, x) /\ Head(s) = x => ~Has(Tail(s), x)
         /\ Has(s, x) /\ Head(s) # x => Has(Tail(s), x)
<1>1. /\ Len(s) \in Nat \ {0} /\ DOMAIN s = 1..Len(s) /\ DOMAIN Tail(s) = 1 .. Len(s) - 1
      /\ Head(s) = s[1] /\ \A i \in 1 .. Len(s) - 1 : Tail(s)[i] = s[i + 1]
  OBVIOUS
<1>2. Has(Tail(s), x) => Has(s, x)
  BY <1>1 DEF Has
<1>3. Has(s, Head(s))
  BY <1>1 DEF Has
<1>4. Once(s, x) => Once(Tail(s), x)
  BY <1>1 DEF Once
<1>5. Once(s, x) /\ Head(s) = x => ~Has(Tail(s), x)
  BY <1>1 DEF Once, Has
<1>6. ASSUME Has(s, x), Head(s) # x PROVE Has(Tail(s), x)
  <2>1. PICK i \in DOMAIN s : s[i] = x
    BY <1>6 DEF Has
  <2>2. i - 1 \in DOMAIN Tail(s) /\ Tail(s)[i - 1] = x
    BY <1>1, <1>6, <2>1
  <2> QED BY <2>2 DEF Has
<1> QED BY <1>2, <1>3, <1>4, <1>5, <1>6

LEMMA HasAppend ==
  ASSUME NEW S, NEW s \in Seq(S), NEW y \in S, NEW x
  PROVE  /\ Has(Append(s, y), x) <=> Has(s, x) \/ y = x
         /\ Once(s, x) /\ (y = x => ~Has(s, x)) => Once(Append(s, y), x)
<1>1. /\ Len(s) \in Nat /\ DOMAIN s = 1..Len(s) /\ DOMAIN Append(s, y) = 1 .. Len(s) + 1
      /\ \A i \in 1..Len(s) : Append(s, y)[i] = s[i]
      /\ Append(s, y)[Len(s) + 1] = y
  OBVIOUS
<1>2. Has(Append(s, y), x) <=> Has(s, x) \/ y = x
  BY <1>1 DEF Has
<1>3. Once(s, x) /\ (y = x => ~Has(s, x)) => Once(Append(s, y), x)
  BY <1>1 DEF Has, Once
<1> QED BY <1>2, <1>3

(* Taking the first command, and queueing one.                             *)
LEMMA CommandTaken ==
  ASSUME TypeOK, to_session # <<>>, to_session' = Tail(to_session), NEW b
  PROVE  /\ Waits(b)' => Waits(b)
         /\ WaitsOnce(b) => WaitsOnce(b)'
         /\ WaitsOnce(b) /\ Head(to_session).msg = "BulkRequest" /\ b \in Head(to_session).blocks
              => Waits(b) /\ ~Waits(b)'
<1>1. /\ Len(to_session) \in Nat \ {0} /\ DOMAIN to_session = 1..Len(to_session)
      /\ DOMAIN to_session' = 1 .. Len(to_session) - 1 /\ Head(to_session) = to_session[1]
      /\ \A i \in 1 .. Len(to_session) - 1 : to_session'[i] = to_session[i + 1]
  BY DEF TypeOK
<1>2. Waits(b)' => Waits(b)
  BY <1>1 DEF Waits
<1>3. WaitsOnce(b) => WaitsOnce(b)'
  BY <1>1 DEF WaitsOnce
<1>4. ASSUME WaitsOnce(b), Head(to_session).msg = "BulkRequest", b \in Head(to_session).blocks
      PROVE  Waits(b) /\ ~Waits(b)'
  BY <1>1, <1>4 DEF Waits, WaitsOnce
<1> QED BY <1>2, <1>3, <1>4

LEMMA CommandSent ==
  ASSUME TypeOK, NEW m \in Order, Send(m), NEW b
  PROVE  /\ Waits(b)' => Waits(b) \/ (m.msg = "BulkRequest" /\ b \in m.blocks)
         /\ WaitsOnce(b) /\ (Waits(b) => ~(m.msg = "BulkRequest" /\ b \in m.blocks))
              => WaitsOnce(b)'
<1>1. CASE to_session' = to_session
  BY <1>1 DEF Waits, WaitsOnce
<1>2. CASE to_session' = Append(to_session, m)
  <2>1. /\ Len(to_session) \in Nat /\ DOMAIN to_session = 1..Len(to_session)
        /\ DOMAIN to_session' = 1 .. Len(to_session) + 1
        /\ \A i \in 1..Len(to_session) : to_session'[i] = to_session[i]
        /\ to_session'[Len(to_session) + 1] = m
    BY <1>2 DEF TypeOK
  <2>2. Waits(b)' => Waits(b) \/ (m.msg = "BulkRequest" /\ b \in m.blocks)
    BY <2>1 DEF Waits
  <2>3. ASSUME WaitsOnce(b), Waits(b) => ~(m.msg = "BulkRequest" /\ b \in m.blocks)
        PROVE  WaitsOnce(b)'
    BY <2>1, <2>3 DEF Waits, WaitsOnce
  <2> QED BY <2>2, <2>3
<1> QED BY <1>1, <1>2 DEF Send, TrySend

LEMMA NoSignalKept ==
  ASSUME TypeOK, NoSignal,
         \/ inbox' = inbox
         \/ inbox # <<>> /\ inbox' = Tail(inbox)
         \/ \E m \in Message : m.msg # "Choke" /\ inbox' = Append(inbox, m),
         \/ to_manager' = to_manager
         \/ to_manager # <<>> /\ to_manager' = Tail(to_manager)
         \/ \E m \in Message : m.msg \notin {"Choke", "Disconnect"}
                               /\ to_manager' = Append(to_manager, m)
  PROVE  NoSignal'
<1>1. inbox \in Seq(Message) /\ to_manager \in Seq(Message)
  BY DEF TypeOK
<1>2. \A i \in DOMAIN inbox' : inbox'[i].msg # "Choke"
  <2>1. CASE inbox' = inbox
    BY <2>1 DEF NoSignal
  <2>2. CASE inbox # <<>> /\ inbox' = Tail(inbox)
    BY <1>1, <2>2 DEF NoSignal
  <2>3. ASSUME NEW m \in Message, m.msg # "Choke", inbox' = Append(inbox, m)
        PROVE  \A i \in DOMAIN inbox' : inbox'[i].msg # "Choke"
    BY <1>1, <2>3 DEF NoSignal
  <2> QED BY <2>1, <2>2, <2>3
<1>3. \A i \in DOMAIN to_manager' : to_manager'[i].msg \notin {"Choke", "Disconnect"}
  <2>1. CASE to_manager' = to_manager
    BY <2>1 DEF NoSignal
  <2>2. CASE to_manager # <<>> /\ to_manager' = Tail(to_manager)
    BY <1>1, <2>2 DEF NoSignal
  <2>3. ASSUME NEW m \in Message, m.msg \notin {"Choke", "Disconnect"},
               to_manager' = Append(to_manager, m)
        PROVE  \A i \in DOMAIN to_manager' : to_manager'[i].msg \notin {"Choke", "Disconnect"}
    BY <1>1, <2>3 DEF NoSignal
  <2> QED BY <2>1, <2>2, <2>3
<1> QED BY <1>2, <1>3 DEF NoSignal

(* The places of a block when requests are only taken out of them.         *)
LEMMA PlaceLess ==
  ASSUME TypeOK, NEW b \in Blocks, Place(b),
         to_session' = to_session \/ (to_session # <<>> /\ to_session' = Tail(to_session)),
         \A t \in Tasks : InTask(t)' \subseteq InTask(t),
         tracker' \subseteq tracker, forwarding' \subseteq forwarding, asked' = asked,
         \/ to_manager' = to_manager
         \/ \E m \in Message : m.msg # "Block" /\ to_manager' = Append(to_manager, m)
  PROVE  Place(b)'
<1>1. (Waits(b)' => Waits(b)) /\ (WaitsOnce(b) => WaitsOnce(b)')
  <2>1. CASE to_session' = to_session
    BY <2>1 DEF Waits, WaitsOnce
  <2> QED BY <2>1, CommandTaken, Zenon
<1>2. (Pends(b)' => Pends(b)) /\ (PendsOnce(b) => PendsOnce(b)')
  BY DEF Pends, PendsOnce
<1>3. (Up(b)' => Up(b)) /\ (Once(to_manager, BlockMsg(b)) => Once(to_manager, BlockMsg(b))')
  <2>1. CASE to_manager' = to_manager
    BY <2>1 DEF Up, Has, Once
  <2>2. ASSUME NEW m \in Message, m.msg # "Block", to_manager' = Append(to_manager, m)
        PROVE  /\ Up(b)' => Up(b)
               /\ Once(to_manager, BlockMsg(b)) => Once(to_manager, BlockMsg(b))'
    <3>1. m # BlockMsg(b) /\ to_manager \in Seq(Message)
      BY <2>2 DEF BlockMsg, TypeOK
    <3>2. /\ Has(to_manager', BlockMsg(b)) => Has(to_manager, BlockMsg(b))
          /\ Once(to_manager, BlockMsg(b)) => Once(to_manager', BlockMsg(b))
      BY <2>2, <3>1, HasAppend
    <3> QED BY <3>2 DEF Up, Has, Once
  <2> QED BY <2>1, <2>2
<1> QED BY <1>1, <1>2, <1>3 DEF Place

(* A task's step takes blocks only out of the task.                        *)
LEMMA TaskStep ==
  ASSUME TInv, NEW t \in Tasks,
         TaskNext(t) \/ TaskTimeout(t) \/ TaskTrack(t) \/ TaskSend(t)
  PROVE  /\ \A u \in Tasks \ {t} : task'[u] = task[u] /\ InTask(u)' = InTask(u)
         /\ InTask(t)' \subseteq InTask(t)
         /\ TaskInv => TaskInv'
         /\ TaskInv /\ TaskTrack(t) => /\ task[t].block \in InTask(t)
                                       /\ task[t].block \notin InTask(t)'
                                       /\ task'[t].at = "tracked"
                                       /\ task'[t].block = task[t].block
<1>0. task \in [Tasks -> Task] /\ task[t] \in Task
  BY DEF TInv, TypeOK
<1>1. SUFFICES
        /\ \A u \in Tasks \ {t} : task'[u] = task[u]
        /\ InTask(t)' \subseteq InTask(t)
        /\ TaskInv /\ task'[t].at \in {"queued", "permit"} => task'[t].block \notin task'[t].todo
        /\ TaskInv /\ TaskTrack(t) => /\ task[t].block \in InTask(t)
                                      /\ task[t].block \notin InTask(t)'
                                      /\ task'[t].at = "tracked"
                                      /\ task'[t].block = task[t].block
  <2>1. \A u \in Tasks \ {t} : InTask(u)' = InTask(u)
    BY <1>1, InTaskIs, ZenonT(30)
  <2>2. TaskInv => TaskInv'
    BY <1>1, ZenonT(30) DEF TaskInv
  <2> QED BY <1>1, <2>1, <2>2, ZenonT(30)
<1>2. CASE TaskNext(t)
  <2>1. task[t].at = "next" /\ InTask(t) = task[t].todo /\ ~TaskTrack(t)
    BY <1>2, InTaskIs DEF TaskNext, TaskTrack
  <2>2. CASE task' = [task EXCEPT ![t] = Free]
    BY <1>0, <2>1, <2>2, InTaskIs, TaskFields, ZenonT(30)
  <2>3. ASSUME NEW b \in task[t].todo, NEW at \in {"permit", "queued"},
               task' = [task EXCEPT ![t] = With(at, b, task[t].todo \ {b})]
        PROVE  /\ \A u \in Tasks \ {t} : task'[u] = task[u]
               /\ InTask(t)' \subseteq InTask(t)
               /\ task'[t].block \notin task'[t].todo
    <3>1. /\ task'[t] = With(at, b, task[t].todo \ {b})
          /\ \A u \in Tasks \ {t} : task'[u] = task[u]
      BY <1>0, <2>3, ZenonT(30)
    <3>2. /\ InTask(t)' = (task[t].todo \ {b}) \cup {b}
          /\ task'[t].block = b /\ task'[t].todo = task[t].todo \ {b}
      <4> DEFINE S == task[t].todo \ {b}
      <4>1. With(at, b, S).at = at /\ With(at, b, S).block = b /\ With(at, b, S).todo = S
        BY TaskFields
      <4>2. task'[t].at \in {"queued", "permit"} /\ task'[t].block = b /\ task'[t].todo = S
        BY <2>3, <3>1, <4>1, Zenon
      <4> HIDE DEF S
      <4>3. InTask(t)' = S \cup {b}
        BY <4>2, InTaskIs, Zenon
      <4> QED BY <4>2, <4>3, Zenon DEF S
    <3> QED BY <2>1, <3>1, <3>2, ZenonT(30)
  <2> QED BY <1>2, <2>1, <2>2, <2>3, Zenon DEF TaskNext
<1>3. CASE TaskTimeout(t) \/ TaskSend(t)
  <2>1. /\ task[t].at \in {"queued", "tracked"} /\ ~TaskTrack(t)
        /\ task' = [task EXCEPT ![t] = NextOf(task[t].todo)]
    BY <1>3 DEF TaskTimeout, TaskSend, TaskTrack
  <2>2. task'[t] = NextOf(task[t].todo) /\ \A u \in Tasks \ {t} : task'[u] = task[u]
    BY <1>0, <2>1
  <2>3. task'[t].at = "next" /\ InTask(t)' = task[t].todo
    <3>1. NextOf(task[t].todo).at = "next" /\ NextOf(task[t].todo).todo = task[t].todo
      BY TaskFields, Zenon
    <3>2. task'[t].at = "next" /\ task'[t].todo = task[t].todo
      BY <2>2, <3>1, Zenon
    <3> QED BY <3>2, InTaskIs, Zenon
  <2> QED BY <2>1, <2>2, <2>3, InTaskIs, Zenon
<1>4. CASE TaskTrack(t)
  <2>1. task[t].at = "permit" /\ InTask(t) = task[t].todo \cup {task[t].block}
    BY <1>4, InTaskIs DEF TaskTrack
  <2>2. /\ task'[t].at = "tracked" /\ task'[t].todo = task[t].todo
        /\ task'[t].block = task[t].block
        /\ \A u \in Tasks \ {t} : task'[u] = task[u]
    <3>1. task[t] = With("permit", task[t].block, task[t].todo)
      BY <1>0, <2>1, TaskTypes, Zenon
    <3>2. /\ task'[t] = [task[t] EXCEPT !.at = "tracked"]
          /\ \A u \in Tasks \ {t} : task'[u] = task[u]
      BY <1>0, <1>4 DEF TaskTrack
    <3> QED BY <3>1, <3>2 DEF With
  <2>3. InTask(t)' = task[t].todo
    BY <2>2, InTaskIs, ZenonT(30)
  <2>4. TaskInv => task[t].block \notin task[t].todo
    BY <2>1 DEF TaskInv
  <2> QED BY <2>1, <2>2, <2>3, <2>4, Zenon
<1> QED BY <1>2, <1>3, <1>4, Zenon

LEMMA AddPermitsTasks ==
  ASSUME TInv, TaskInv, NEW n \in Nat, AddPermits(n)
  PROVE  TaskInv'
<1> SUFFICES ASSUME NEW t \in Tasks, task'[t].at \in {"queued", "permit"}
             PROVE  task'[t].block \notin task'[t].todo
  BY DEF TaskInv
<1>1. CASE task'[t] = task[t]
  BY <1>1 DEF TaskInv
<1>2. CASE task[t].at = "queued" /\ task'[t] = With("permit", task[t].block, task[t].todo)
  BY <1>2, TaskFields DEF TaskInv
<1> QED BY <1>1, <1>2, AddPermitsEffect DEF TInv

LEMMA RefundType == TypeOK => \A S : Refund(S) \in Nat
  BY SessionAssumption, FS_Subset, FS_CardinalityType DEF Refund, Cancelled, TypeOK

LEMMA TaskInvNext == TInv /\ TaskInv /\ [Next]_vars => TaskInv'
<1> SUFFICES ASSUME TInv, TaskInv, [Next]_vars PROVE TaskInv'
  OBVIOUS
<1>1. CASE UNCHANGED task
  BY <1>1 DEF TaskInv
<1>2. ASSUME NEW n \in Nat, AddPermits(n) PROVE TaskInv'
  BY <1>2, AddPermitsTasks
<1>3. CASE End
  BY <1>3, TaskFields DEF End, TaskInv
<1>4. CASE BulkRequest
  <2>1. PICK t \in Tasks : task' = [task EXCEPT ![t] = NextOf(Head(to_session).blocks)]
    BY <1>4, ZenonT(30) DEF BulkRequest
  <2>2. task'[t].at = "next" /\ \A u \in Tasks \ {t} : task'[u] = task[u]
    BY <2>1, TaskFields DEF TInv, TypeOK
  <2> QED BY <2>2 DEF TaskInv
<1>5. ASSUME NEW t \in Tasks, TaskNext(t) \/ TaskTimeout(t) \/ TaskTrack(t) \/ TaskSend(t)
      PROVE  TaskInv'
  BY <1>5, TaskStep
<1>6. ASSUME NEW S \in cancelling, CancelTask(S) PROVE TaskInv'
  BY <1>2, <1>6, RefundType DEF CancelTask, TInv
<1>7. CASE Piece \/ Tick
  BY <1>1, <1>2, <1>7 DEF Piece, ReturnPermit, Tick, adjust_window_size, Grow, Shrink, Same
<1>8. CASE Choke
  <2>1. Monus(InFlightLimit, permits) \in Nat
    BY SessionAssumption DEF Monus, TInv, TypeOK
  <2> QED BY <1>2, <1>8, <2>1 DEF Choke
<1>9. CASE TickEnds \/ Close
  BY <1>3, <1>9 DEF TickEnds, Close
<1>10. CASE \/ Handshake \/ Forward \/ Unchoke \/ OtherMessage \/ BulkCancel \/ OtherCommand
            \/ shrink_window
  BY <1>1, <1>10 DEF Handshake, Forward, Unchoke, OtherMessage, BulkCancel, OtherCommand,
     shrink_window, requests
<1>11. CASE Peer \/ Manager \/ UNCHANGED vars
  BY <1>1, <1>11, Zenon DEF Peer, PeerGetsRequest, PeerChokes, PeerUnchokes, PeerSendsOther, ReaderEnds,
     PeerAnswers, Manager, ManagerRequests, ManagerCancels, ManagerSendsOther, ManagerReceives,
     requests, vars
<1> QED
  BY <1>4, <1>5, <1>6, <1>7, <1>8, <1>9, <1>10, <1>11 DEF Next, Session, Spawned

LEMMA CalmBack == TInv /\ [Next]_vars /\ Calm' => Calm
<1> SUFFICES ASSUME TInv, [Next]_vars, Calm' PROVE Calm
  OBVIOUS
<1>1. CASE Session
  BY <1>1, Zenon DEF Calm, Session, Handshake, Piece, Forward, Choke, Unchoke, OtherMessage,
     BulkRequest, BulkCancel, OtherCommand, Tick, TickEnds, shrink_window, Close, End, peerSide
<1>2. CASE Spawned \/ Manager \/ UNCHANGED vars
  BY <1>2 DEF Calm, Spawned, TaskNext, TaskTimeout, TaskTrack, TaskSend, CancelTask, Manager,
     ManagerRequests, ManagerCancels, ManagerSendsOther, ManagerReceives, peerSide, vars
<1>3. CASE Peer
  BY <1>3 DEF Calm, Peer, PeerGetsRequest, PeerChokes, PeerUnchokes, PeerSendsOther, ReaderEnds,
     PeerAnswers, TInv, TypeOK
<1> QED BY <1>1, <1>2, <1>3 DEF Next

(* Without a choke none is received.                                       *)
LEMMA CalmNoChoke ==
  ASSUME TypeOK, NoSignal
  PROVE  ~Choke
<1>1. ASSUME Choke PROVE FALSE
  <2>1. inbox \in Seq(Message) /\ inbox # <<>> /\ Head(inbox).msg = "Choke"
    BY <1>1 DEF Choke, FromPeer, TypeOK
  <2>2. 1 \in DOMAIN inbox /\ Head(inbox) = inbox[1]
    BY <2>1
  <2> QED BY <2>1, <2>2 DEF NoSignal
<1> QED BY <1>1

LEMMA NoSignalNext ==
  ASSUME TInv, NoSignal, [Next]_vars, Calm, Calm'
  PROVE  NoSignal'
<1>0. TypeOK
  BY DEF TInv
<1>a. /\ \A m \in {"Unchoke", "Other"} :
           Msg(m) \in Message /\ Msg(m).msg \notin {"Choke", "Disconnect"}
      /\ Other \in Message /\ Other.msg = "Other"
      /\ \A b \in Blocks : BlockMsg(b) \in Message /\ BlockMsg(b).msg = "Block"
  BY MessageTypes DEF Msg, Other, BlockMsg
<1>1. CASE UNCHANGED <<inbox, to_manager>>
  BY <1>0, <1>1, NoSignalKept
<1>2. CASE Piece
  BY <1>0, <1>2, NoSignalKept DEF Piece, FromPeer
<1>3. CASE Forward
  BY <1>0, <1>3, <1>a, NoSignalKept DEF Forward, TypeOK, peerSide
<1>4. CASE Unchoke
  BY <1>0, <1>4, <1>a, NoSignalKept DEF Unchoke, FromPeer, TrySend
<1>5. CASE OtherMessage
  BY <1>0, <1>5, <1>a, NoSignalKept DEF OtherMessage, FromPeer, TrySend
<1>6. ASSUME NEW b \in Blocks, PeerAnswers(b) PROVE NoSignal'
  BY <1>0, <1>6, <1>a, NoSignalKept DEF PeerAnswers
<1>7. CASE PeerUnchokes \/ PeerSendsOther
  BY <1>0, <1>7, <1>a, NoSignalKept DEF PeerUnchokes, PeerSendsOther
<1>8. CASE PeerChokes
  BY <1>8 DEF PeerChokes, Calm
<1>9. CASE ManagerReceives
  BY <1>0, <1>9, NoSignalKept DEF ManagerReceives, peerSide
<1>10. CASE TickEnds \/ Close
  BY <1>10 DEF TickEnds, Close, End, Calm
<1>11. CASE Session
  BY <1>0, <1>1, <1>2, <1>3, <1>4, <1>5, <1>10, <1>11, CalmNoChoke DEF Session, Handshake,
     BulkRequest, BulkCancel, OtherCommand, Tick, shrink_window, peerSide
<1>12. CASE Spawned \/ UNCHANGED vars
  BY <1>1, <1>12 DEF Spawned, TaskNext, TaskTimeout, TaskTrack, TaskSend, CancelTask, peerSide,
     vars
<1>13. CASE Peer
  BY <1>1, <1>6, <1>7, <1>8, <1>13 DEF Peer, PeerGetsRequest, ReaderEnds
<1>14. CASE Manager
  BY <1>1, <1>9, <1>14 DEF Manager, ManagerRequests, ManagerCancels, ManagerSendsOther, peerSide
<1> QED BY <1>11, <1>12, <1>13, <1>14 DEF Next

LEMMA PlaceNext ==
  ASSUME TInv, OneForward, TaskInv, NoSignal, [Next]_vars, Calm, Calm',
         NEW b \in Blocks, Place(b)
  PROVE  Place(b)'
<1>0. TypeOK
  BY DEF TInv
<1>a. /\ \A m \in {"Unchoke", "Other"} : Msg(m) \in Message /\ Msg(m).msg # "Block"
      /\ Other \in Message /\ Other.msg = "Other" /\ Other \in Order
  BY MessageTypes DEF Msg, Other
<1>b. UNCHANGED task => \A t \in Tasks : InTask(t)' = InTask(t)
  BY InTaskIs
<1>c. (\A t \in Tasks : InTask(t)' = InTask(t)) =>
        (Pends(b)' <=> Pends(b)) /\ (PendsOnce(b)' <=> PendsOnce(b))
  BY DEF Pends, PendsOnce
<1>d. UNCHANGED to_session => (Waits(b)' <=> Waits(b)) /\ (WaitsOnce(b)' <=> WaitsOnce(b))
  BY DEF Waits, WaitsOnce
<1>e. UNCHANGED to_manager => /\ Up(b)' <=> Up(b)
                              /\ Once(to_manager, BlockMsg(b))' <=> Once(to_manager, BlockMsg(b))
  BY DEF Up, Has, Once
<1>1. CASE UNCHANGED <<to_session, to_manager, task, tracker, forwarding, asked>>
  BY <1>0, <1>1, <1>b, PlaceLess
<1>2. CASE Piece
  <2> DEFINE x == Head(inbox).block
  <2>1. \A t \in Tasks : InTask(t)' = InTask(t)
    <3>1. CASE AddPermits(1)
      BY <3>1, AddPermitsPends
    <3> QED BY <1>2, <1>b, <3>1, Zenon DEF Piece, ReturnPermit
  <2>2. /\ UNCHANGED <<to_session, to_manager, asked>>
        /\ tracker' = tracker \ {x} /\ forwarding' = tracker \cap {x}
    BY <1>2, Zenon DEF Piece, ToForward, managerSide
  <2> HIDE DEF x
  <2> QED BY <1>c, <1>d, <1>e, <2>1, <2>2 DEF Place
<1>3. CASE Forward
  <2>1. PICK x \in forwarding : to_manager' = Append(to_manager, BlockMsg(x))
    BY <1>3 DEF Forward
  <2>2. /\ UNCHANGED <<to_session, task, tracker, asked>> /\ forwarding' = {}
        /\ x \in Blocks /\ to_manager \in Seq(Message) /\ BlockMsg(x) \in Message
    BY <1>0, <1>3, MessageTypes, Zenon DEF Forward, requests, managerSide, TypeOK
  <2>3. BlockMsg(x) = BlockMsg(b) => x = b
    BY DEF BlockMsg
  <2>4. /\ Has(to_manager', BlockMsg(b)) <=> Has(to_manager, BlockMsg(b)) \/ BlockMsg(x) = BlockMsg(b)
        /\ /\ Once(to_manager, BlockMsg(b))
           /\ (BlockMsg(x) = BlockMsg(b) => ~Has(to_manager, BlockMsg(b)))
           => Once(to_manager', BlockMsg(b))
    BY <2>1, <2>2, HasAppend
  <2>5. Up(b)' <=> Up(b) \/ x = b
    BY <2>3, <2>4 DEF Up, Has
  <2>6. Once(to_manager, BlockMsg(b))'
    <3>1. Once(to_manager', BlockMsg(b))
      BY <2>3, <2>4, Zenon DEF Place, Up
    <3> QED BY <3>1 DEF Once
  <2> QED BY <1>b, <1>c, <1>d, <2>2, <2>5, <2>6 DEF Place
<1>4. CASE Unchoke \/ OtherMessage
  <2>1. /\ UNCHANGED <<to_session, task, tracker, forwarding, asked>>
        /\ \/ to_manager' = to_manager
           \/ to_manager' = Append(to_manager, Msg("Unchoke"))
           \/ to_manager' = Append(to_manager, Other)
    BY <1>4 DEF Unchoke, OtherMessage, TrySend, requests, managerSide
  <2> QED BY <1>0, <1>a, <1>b, <2>1, PlaceLess
<1>5. CASE BulkRequest
  <2> DEFINE S == Head(to_session).blocks
  <2>1. PICK t \in Tasks : task[t] = Free /\ task' = [task EXCEPT ![t] = NextOf(S)]
    BY <1>5, Zenon DEF BulkRequest
  <2>2. /\ to_session # <<>> /\ to_session' = Tail(to_session)
        /\ Head(to_session).msg = "BulkRequest"
        /\ UNCHANGED <<tracker, forwarding, to_manager, asked>>
    BY <1>5 DEF BulkRequest, Command, managerSide
  <2>3. /\ Waits(b)' => Waits(b)
        /\ WaitsOnce(b)'
        /\ b \in S => Waits(b) /\ ~Waits(b)'
    BY <1>0, <2>2, CommandTaken, Zenon DEF Place
  <2> HIDE DEF S
  <2>4. task'[t] = NextOf(S) /\ \A u \in Tasks \ {t} : task'[u] = task[u]
    BY <1>0, <2>1 DEF TypeOK
  <2>5. InTask(t)' = S /\ InTask(t) = {} /\ \A u \in Tasks \ {t} : InTask(u)' = InTask(u)
    BY <2>1, <2>4, TaskFields, InTaskIs, ZenonT(30)
  <2>6. (Pends(b)' <=> Pends(b) \/ b \in S)
    BY <2>5 DEF Pends
  <2>7. PendsOnce(b)'
    BY <2>3, <2>5 DEF PendsOnce, Pends, Place
  <2> QED BY <1>e, <2>2, <2>3, <2>6, <2>7 DEF Place
<1>6. CASE BulkCancel \/ OtherCommand
  BY <1>0, <1>6, <1>b, PlaceLess DEF BulkCancel, OtherCommand, Command, requests, managerSide
<1>7. CASE Tick
  <2>1. \A t \in Tasks : InTask(t)' = InTask(t)
    <3>1. CASE AddPermits(1)
      BY <3>1, AddPermitsPends
    <3> QED BY <1>7, <1>b, <3>1, Zenon DEF Tick, adjust_window_size, Grow, Shrink, Same
  <2> QED BY <1>0, <1>7, <2>1, PlaceLess, Zenon DEF Tick, managerSide
<1>8. CASE TickEnds \/ Close
  BY <1>8 DEF TickEnds, Close, End, Calm
<1>9. ASSUME NEW t \in Tasks, TaskNext(t) \/ TaskTimeout(t) \/ TaskSend(t) PROVE Place(b)'
  <2>1. /\ UNCHANGED <<to_session, to_manager, tracker, forwarding, asked>>
    BY <1>9, ZenonT(30) DEF TaskNext, TaskTimeout, TaskSend, managerSide
  <2>2. \A u \in Tasks : InTask(u)' \subseteq InTask(u)
    BY <1>9, TaskStep, Zenon
  <2> QED BY <1>0, <2>1, <2>2, PlaceLess
<1>10. ASSUME NEW t \in Tasks, TaskTrack(t) PROVE Place(b)'
  <2> DEFINE x == task[t].block
  <2>1. /\ UNCHANGED <<to_session, to_manager, forwarding, asked>>
        /\ tracker' = tracker \cup {x}
    BY <1>10 DEF TaskTrack, managerSide
  <2>2. /\ x \in InTask(t) /\ x \notin InTask(t)' /\ InTask(t)' \subseteq InTask(t)
        /\ \A u \in Tasks \ {t} : InTask(u)' = InTask(u)
    BY <1>10, TaskStep, Zenon
  <2> HIDE DEF x
  <2>3. (Pends(b)' => Pends(b)) /\ (PendsOnce(b) => PendsOnce(b)')
    BY <2>2 DEF Pends, PendsOnce
  <2>4. b = x => Pends(b)
    BY <2>2 DEF Pends
  <2>5. b = x => ~Pends(b)'
    BY <2>2 DEF Pends, PendsOnce, Place
  <2> QED BY <1>d, <1>e, <2>1, <2>3, <2>4, <2>5 DEF Place
<1>11. ASSUME NEW S \in cancelling, CancelTask(S) PROVE Place(b)'
  <2>1. \A t \in Tasks : InTask(t)' = InTask(t)
    BY <1>0, <1>11, RefundType, AddPermitsPends DEF CancelTask
  <2> QED BY <1>0, <1>11, <2>1, PlaceLess DEF CancelTask, managerSide
<1>12. CASE Peer
  BY <1>1, <1>12 DEF Peer, PeerGetsRequest, PeerChokes, PeerUnchokes, PeerSendsOther, ReaderEnds,
     PeerAnswers, requests, managerSide
<1>13. ASSUME NEW S \in SUBSET Blocks, ManagerRequests(S) PROVE Place(b)'
  <2> DEFINE m == Bulk("BulkRequest", S)
  <2>1. /\ Send(m) /\ S \cap asked = {} /\ asked' = asked \cup S
        /\ UNCHANGED <<task, tracker, forwarding, to_manager>>
    BY <1>13 DEF ManagerRequests, requests
  <2>2. m \in Order /\ m.blocks = S
    BY MessageTypes DEF Bulk
  <2> HIDE DEF m
  <2>3. /\ Waits(b)' => Waits(b) \/ b \in S
        /\ WaitsOnce(b) /\ (Waits(b) => b \notin S) => WaitsOnce(b)'
    BY <1>0, <2>1, <2>2, CommandSent, ZenonT(30)
  <2> QED BY <1>b, <1>c, <1>e, <2>1, <2>3 DEF Place
<1>14. ASSUME NEW m \in Order, m.msg # "BulkRequest", Send(m),
              UNCHANGED <<task, tracker, forwarding, to_manager, asked>>
       PROVE  Place(b)'
  <2>1. (Waits(b)' => Waits(b)) /\ (WaitsOnce(b) => WaitsOnce(b)')
    BY <1>0, <1>14, CommandSent, Zenon
  <2> QED BY <1>b, <1>c, <1>e, <1>14, <2>1 DEF Place
<1>15. ASSUME NEW S \in SUBSET Blocks, ManagerCancels(S) PROVE Place(b)'
  <2>1. Bulk("BulkCancel", S) \in Order /\ Bulk("BulkCancel", S).msg # "BulkRequest"
    BY MessageTypes DEF Bulk
  <2> QED BY <1>14, <1>15, <2>1 DEF ManagerCancels, requests
<1>16. CASE ManagerSendsOther
  BY <1>14, <1>16, <1>a DEF ManagerSendsOther, requests, managerSide
<1>17. CASE ManagerReceives
  <2> DEFINE m == Head(to_manager)
  <2>1. /\ to_manager \in Seq(Message) /\ to_manager # <<>> /\ to_manager' = Tail(to_manager)
        /\ UNCHANGED <<to_session, task, tracker, forwarding>> /\ m \in Message
    BY <1>0, <1>17 DEF ManagerReceives, TypeOK, requests
  <2>2. m.msg \notin {"Choke", "Disconnect"}
    <3>1. 1 \in DOMAIN to_manager /\ m = to_manager[1]
      BY <2>1
    <3> QED BY <3>1 DEF NoSignal
  <2>3. \/ asked' = asked
        \/ m = BlockMsg(m.block) /\ asked' = asked \ {m.block}
    BY <1>17, <2>1, <2>2, MessageTypes, Zenon DEF ManagerReceives
  <2>4. /\ Has(to_manager', BlockMsg(b)) => Has(to_manager, BlockMsg(b))
        /\ Once(to_manager, BlockMsg(b)) => Once(to_manager', BlockMsg(b))
        /\ Once(to_manager, BlockMsg(b)) /\ m = BlockMsg(b) => ~Has(to_manager', BlockMsg(b))
        /\ Has(to_manager, m)
    BY <2>1, HasTail
  <2>5. m.block = b /\ m = BlockMsg(m.block) => Up(b) /\ ~Up(b)'
    BY <2>4, ZenonT(30) DEF Up, Has, Place
  <2>6. (Up(b)' => Up(b)) /\ Once(to_manager, BlockMsg(b))'
    BY <2>4, Zenon DEF Up, Has, Once, Place
  <2> HIDE DEF m
  <2> QED BY <1>b, <1>c, <1>d, <2>1, <2>3, <2>5, <2>6 DEF Place
<1>18. CASE Session
  BY <1>0, <1>1, <1>2, <1>3, <1>4, <1>5, <1>6, <1>7, <1>8, <1>18, CalmNoChoke DEF Session,
     Handshake, shrink_window, requests, managerSide
<1>19. CASE UNCHANGED vars
  BY <1>1, <1>19 DEF vars, requests, managerSide
<1> QED
  BY <1>9, <1>10, <1>11, <1>12, <1>13, <1>15, <1>16, <1>17, <1>18, <1>19
  DEF Next, Spawned, Manager

LEMMA ClosedNext == TInv /\ ClosedInv /\ [Next]_vars => ClosedInv'
<1> SUFFICES ASSUME TInv, ClosedInv, [Next]_vars PROVE ClosedInv'
  OBVIOUS
<1>1. CASE End
  BY <1>1 DEF End, ClosedInv
<1>2. CASE phase # "closed" /\ phase' # "closed"
  BY <1>2 DEF ClosedInv
<1>3. CASE UNCHANGED <<phase, permits, window, shrink, tracker, task, writer, inbox, owed>>
  BY <1>3 DEF ClosedInv
<1>4. CASE Session
  BY <1>1, <1>2, <1>4, Zenon DEF Session, Handshake, Piece, Forward, Choke, Unchoke, OtherMessage,
     BulkRequest, BulkCancel, OtherCommand, Tick, TickEnds, shrink_window, Close, Running,
     Selecting, FromPeer, Command
<1>5. CASE Spawned
  BY <1>2, <1>5 DEF Spawned, TaskNext, TaskTimeout, TaskTrack, TaskSend, CancelTask, Running
<1>6. CASE Peer
  BY <1>2, <1>6 DEF Peer, PeerGetsRequest, PeerChokes, PeerUnchokes, PeerSendsOther, ReaderEnds,
     PeerAnswers, Running, Reads
<1>7. CASE Manager \/ UNCHANGED vars
  BY <1>3, <1>7, Zenon DEF Manager, ManagerRequests, ManagerCancels, ManagerSendsOther, ManagerReceives,
     requests, semaphore, peerSide, vars
<1> QED BY <1>4, <1>5, <1>6, <1>7 DEF Next

(* The budget of a session that has not been choked.                       *)
LEMMA BudgetNext ==
  ASSUME TInv, TaskInv, NoSignal, \A b \in Blocks : Place(b), [Next]_vars, Calm, Calm',
         Budget = window + shrink
  PROVE  Budget' = window' + shrink'
<1>0. TypeOK /\ WaitInv
  BY DEF TInv
<1> DEFINE held == Cardinality(Held)
           due == Cardinality(tracker)
<1>a. /\ IsFiniteSet(Held) /\ IsFiniteSet(tracker) /\ held \in Nat /\ due \in Nat
      /\ permits \in Nat /\ window \in Nat /\ shrink \in Nat
  <2>1. Held \in SUBSET Tasks /\ tracker \in SUBSET Blocks
    BY <1>0, Zenon DEF Held, TypeOK
  <2>2. IsFiniteSet(Held) /\ IsFiniteSet(tracker)
    BY <2>1, SessionAssumption, FS_Subset
  <2>3. permits \in Nat /\ window \in Nat /\ shrink \in Nat
    BY <1>0, SessionAssumption DEF TypeOK
  <2> QED BY <2>2, <2>3, FS_CardinalityType
<1>b. permits + held + due = window + shrink
  BY DEF Budget
<1>c. UNCHANGED task => Held' = Held
  BY DEF Held
<1>1. CASE UNCHANGED <<permits, task, tracker, window, shrink>>
  BY <1>1, <1>c DEF Budget
<1>2. CASE Piece
  <2> DEFINE x == Head(inbox).block
  <2>1. CASE x \in tracker
    <3>1. tracker' = tracker \ {x} /\ window' = window
      BY <1>2 DEF Piece
    <3>2. Cardinality(tracker') = due - 1
      BY <1>a, <2>1, <3>1, FS_RemoveElement, ZenonT(30)
    <3>3. ReturnPermit
      BY <1>2, <2>1 DEF Piece
    <3>4. CASE shrink > 0 /\ shrink' = shrink - 1 /\ UNCHANGED <<semaphore, task>>
      BY <1>a, <1>b, <1>c, <3>1, <3>2, <3>4 DEF Budget, semaphore
    <3>5. CASE AddPermits(1) /\ UNCHANGED shrink
      <4>1. permits' + Cardinality(Held') = permits + held + 1 /\ permits' \in Nat
        BY <1>0, <3>5, AddPermitsEffect, Zenon
      <4>2. Cardinality(Held') \in Nat
        BY SessionAssumption, FS_Subset, FS_CardinalityType DEF Held
      <4> QED BY <1>a, <1>b, <3>1, <3>2, <3>5, <4>1, <4>2 DEF Budget
    <3> QED BY <3>3, <3>4, <3>5 DEF ReturnPermit
  <2>2. CASE x \notin tracker
    <3>1. tracker' = tracker
      BY <1>2, <2>2, Zenon DEF Piece
    <3> QED BY <1>1, <1>2, <2>2, <3>1, ZenonT(30) DEF Piece, semaphore
  <2> QED BY <2>1, <2>2
<1>3. CASE BulkRequest
  <2>1. PICK t \in Tasks : task[t] = Free /\ task' = [task EXCEPT ![t] = NextOf(Head(to_session).blocks)]
    BY <1>3, Zenon DEF BulkRequest
  <2>2. task[t].at = "free" /\ task'[t].at = "next" /\ \A u \in Tasks \ {t} : task'[u] = task[u]
    BY <1>0, <2>1, TaskFields, Zenon DEF TypeOK
  <2>3. Held' = Held
    BY <2>2, Zenon DEF Held
  <2> QED BY <1>3, <2>3 DEF BulkRequest, Budget, semaphore
<1>4. CASE Tick
  <2>1. tracker' = tracker /\ shrink' = shrink
    BY <1>4, Zenon DEF Tick
  <2>2. CASE window' = window + 1 /\ AddPermits(1)
    <3>1. permits' + Cardinality(Held') = permits + held + 1 /\ permits' \in Nat
      BY <1>0, <2>2, AddPermitsEffect
    <3>2. Cardinality(Held') \in Nat
      BY SessionAssumption, FS_Subset, FS_CardinalityType DEF Held
    <3> QED BY <1>a, <1>b, <2>1, <2>2, <3>1, <3>2 DEF Budget
  <2>3. CASE UNCHANGED <<window, semaphore, task>>
    BY <1>1, <2>1, <2>3 DEF semaphore
  <2> QED BY <1>4, <2>2, <2>3 DEF Tick, adjust_window_size, Grow, Shrink, Same
<1>5. CASE shrink_window
  <2>1. window' = window - 1 /\ UNCHANGED <<task, tracker>>
    BY <1>5 DEF shrink_window
  <2>2. CASE permits > 0 /\ permits' = permits - 1 /\ UNCHANGED shrink
    BY <1>a, <1>b, <1>c, <2>1, <2>2 DEF Budget
  <2>3. CASE shrink' = shrink + 1 /\ UNCHANGED permits
    BY <1>a, <1>b, <1>c, <2>1, <2>3 DEF Budget
  <2> QED BY <1>5, <2>2, <2>3 DEF shrink_window
<1>6. ASSUME NEW t \in Tasks, TaskNext(t) PROVE Budget' = window' + shrink'
  <2>1. /\ task[t].at = "next" /\ UNCHANGED <<tracker, window, shrink>>
        /\ \A u \in Tasks \ {t} : task'[u] = task[u]
    BY <1>6, TaskStep, Zenon DEF TaskNext
  <2>2. CASE permits' = permits /\ task'[t].at # "permit"
    <3>1. Held' = Held
      BY <2>1, <2>2, Zenon DEF Held
    <3> QED BY <2>1, <2>2, <3>1, Zenon DEF Budget
  <2>3. CASE permits > 0 /\ permits' = permits - 1 /\ task'[t].at = "permit"
    <3>1. Held' = Held \cup {t} /\ t \notin Held
      BY <2>1, <2>3 DEF Held
    <3>2. Cardinality(Held') = held + 1
      BY <1>a, <3>1, FS_AddElement, Zenon
    <3> QED BY <1>a, <1>b, <2>1, <2>3, <3>2 DEF Budget
  <2>4. \/ permits' = permits /\ task'[t].at # "permit"
        \/ permits > 0 /\ permits' = permits - 1 /\ task'[t].at = "permit"
    <3>1. CASE task' = [task EXCEPT ![t] = Free] /\ UNCHANGED semaphore
      BY <1>0, <3>1, TaskFields DEF TypeOK, semaphore
    <3>2. ASSUME NEW b, permits > 0, permits' = permits - 1,
                 task' = [task EXCEPT ![t] = With("permit", b, task[t].todo \ {b})]
          PROVE  permits > 0 /\ permits' = permits - 1 /\ task'[t].at = "permit"
      BY <1>0, <3>2, TaskFields DEF TypeOK
    <3>3. ASSUME NEW b, UNCHANGED permits,
                 task' = [task EXCEPT ![t] = With("queued", b, task[t].todo \ {b})]
          PROVE  permits' = permits /\ task'[t].at # "permit"
      BY <1>0, <3>3, TaskFields DEF TypeOK
    <3> QED BY <1>6, <3>1, <3>2, <3>3, Zenon DEF TaskNext
  <2> QED BY <2>2, <2>3, <2>4
<1>7. ASSUME NEW t \in Tasks, TaskTimeout(t) \/ TaskSend(t) PROVE Budget' = window' + shrink'
  <2>1. /\ task[t].at # "permit" /\ task' = [task EXCEPT ![t] = NextOf(task[t].todo)]
        /\ UNCHANGED <<permits, tracker, window, shrink>>
    BY <1>7, Zenon DEF TaskTimeout, TaskSend, semaphore
  <2>2. task'[t].at = "next" /\ \A u \in Tasks \ {t} : task'[u] = task[u]
    BY <1>0, <2>1, TaskFields DEF TypeOK
  <2>3. Held' = Held
    BY <2>1, <2>2, Zenon DEF Held
  <2> QED BY <2>1, <2>3, Zenon DEF Budget
<1>8. ASSUME NEW t \in Tasks, TaskTrack(t) PROVE Budget' = window' + shrink'
  <2> DEFINE x == task[t].block
  <2>1. /\ task[t].at = "permit" /\ UNCHANGED <<permits, window, shrink>>
        /\ tracker' = tracker \cup {x} /\ task[t] \in Task
    BY <1>0, <1>8 DEF TaskTrack, semaphore, TypeOK
  <2>2. /\ x \in InTask(t) /\ task'[t].at = "tracked"
        /\ \A u \in Tasks \ {t} : task'[u] = task[u]
    BY <1>8, TaskStep
  <2>3. x \notin tracker
    <3>1. x \in Blocks
      BY <2>1, TaskTypes, Zenon
    <3>2. Pends(x) /\ Place(x)
      BY <2>2, <3>1, Zenon DEF Pends
    <3> QED BY <3>2 DEF Place
  <2> HIDE DEF x
  <2>4. Cardinality(tracker') = due + 1
    BY <1>a, <2>1, <2>3, FS_AddElement, Zenon
  <2>5. Held' = Held \ {t} /\ t \in Held
    BY <2>1, <2>2, Zenon DEF Held
  <2>6. Cardinality(Held') = held - 1
    BY <1>a, <2>5, FS_RemoveElement, Zenon
  <2> QED BY <1>a, <1>b, <2>1, <2>4, <2>6 DEF Budget
<1>9. ASSUME NEW S \in cancelling, CancelTask(S) PROVE Budget' = window' + shrink'
  <2>1. /\ tracker' = tracker \ (S \cap tracker) /\ UNCHANGED <<window, shrink>>
        /\ AddPermits(Refund(S)) /\ Refund(S) \in Nat /\ Refund(S) = Cardinality(S \cap tracker)
    BY <1>0, <1>9, RefundType DEF CancelTask, Cancelled, Refund
  <2>2. tracker' = tracker \ S /\ S \cap tracker = tracker \cap S
    BY <2>1
  <2>3. Cardinality(tracker') = due - Refund(S)
    <3>1. Cardinality(tracker \ S) = Cardinality(tracker) - Cardinality(tracker \cap S)
      BY <1>a, FS_Difference, ZenonT(30)
    <3> QED BY <2>1, <2>2, <3>1, Zenon
  <2>4. permits' + Cardinality(Held') = permits + held + Refund(S) /\ permits' \in Nat
    BY <1>0, <2>1, AddPermitsEffect, Zenon
  <2>5. Cardinality(Held') \in Nat
    BY SessionAssumption, FS_Subset, FS_CardinalityType, ZenonT(30) DEF Held
  <2> QED BY <1>a, <1>b, <2>1, <2>3, <2>4, <2>5 DEF Budget
<1>10. CASE TickEnds \/ Close
  BY <1>10 DEF TickEnds, Close, End, Calm
<1>11. CASE Session
  BY <1>0, <1>1, <1>2, <1>3, <1>4, <1>5, <1>10, <1>11, CalmNoChoke, ZenonT(30) DEF Session, Handshake, Forward,
     Unchoke, OtherMessage, BulkCancel, OtherCommand, requests, semaphore
<1>12. CASE Peer \/ Manager \/ UNCHANGED vars
  BY <1>1, <1>12, Zenon DEF Peer, PeerGetsRequest, PeerChokes, PeerUnchokes, PeerSendsOther, ReaderEnds,
     PeerAnswers, Manager, ManagerRequests, ManagerCancels, ManagerSendsOther, ManagerReceives,
     requests, semaphore, vars
<1> QED BY <1>6, <1>7, <1>8, <1>9, <1>11, <1>12 DEF Next, Spawned

(* What is proved inductive for the window.                                *)
WindowInv == TInv /\ OneForward /\ PlaceInv /\ ClosedInv /\ WindowConserved

LEMMA WindowInit == Init => WindowInv
<1> SUFFICES ASSUME Init PROVE WindowInv
  OBVIOUS
<1>1. TInv
  BY TypeInit
<1>2. \A t \in Tasks : task[t].at = "free" /\ InTask(t) = {}
  BY InTaskIs, TaskFields, ZenonT(30) DEF Init
<1>3. OneForward /\ TaskInv /\ ClosedInv
  BY <1>2, ZenonT(30) DEF Init, OneForward, TaskInv, ClosedInv
<1>4. NoSignal /\ \A b \in Blocks : Place(b)
  <2>1. /\ DOMAIN to_session = {} /\ DOMAIN to_manager = {} /\ DOMAIN inbox = {}
        /\ tracker = {} /\ forwarding = {}
    BY DEF Init
  <2> QED BY <1>2, <2>1, Zenon
          DEF NoSignal, Place, Waits, Pends, Up, Has, Once, WaitsOnce, PendsOnce
<1>5. Held = {} /\ Cardinality({}) = 0
  BY <1>2, FS_EmptySet, Zenon DEF Held
<1>6. WindowConserved
  BY <1>5, SessionAssumption DEF Init, WindowConserved, Budget
<1> QED BY <1>1, <1>3, <1>4, <1>6 DEF WindowInv, PlaceInv

LEMMA WindowNext == WindowInv /\ [Next]_vars => WindowInv'
<1> SUFFICES ASSUME WindowInv, [Next]_vars PROVE WindowInv'
  OBVIOUS
<1>0. TInv /\ OneForward /\ TaskInv /\ ClosedInv
  BY Zenon DEF WindowInv, PlaceInv
<1>1. TInv' /\ OneForward' /\ TaskInv' /\ ClosedInv'
  BY <1>0, TypeNext, OneForwardNext, TaskInvNext, ClosedNext, Zenon
<1>2. CASE Calm'
  <2>1. /\ Calm /\ NoSignal /\ \A b \in Blocks : Place(b)
    BY <1>0, <1>2, CalmBack DEF WindowInv, PlaceInv
  <2>2. NoSignal' /\ \A b \in Blocks : Place(b)'
    BY <1>0, <1>2, <2>1, NoSignalNext, PlaceNext
  <2>3. Budget = window + shrink
    BY <2>1 DEF Calm, WindowInv, WindowConserved
  <2>4. Budget' = window' + shrink'
    BY <1>0, <1>2, <2>1, <2>3, BudgetNext
  <2> QED BY <1>1, <2>2, <2>4 DEF WindowInv, PlaceInv, WindowConserved
<1>3. CASE ~Calm'
  <2>1. CASE chokes' = 0
    <3>1. phase' = "closed"
      BY <1>3, <2>1 DEF Calm
    <3>2. /\ permits' = InFlightLimit /\ window' = InFlightLimit /\ shrink' = 0
          /\ tracker' = {} /\ task' = [t \in Tasks |-> Free]
      BY <1>1, <3>1, Zenon DEF ClosedInv
    <3>3. Held' = {} /\ Cardinality({}) = 0
      BY <3>2, TaskFields, FS_EmptySet, Zenon DEF Held
    <3>4. Budget' = window' + shrink'
      BY <3>2, <3>3, SessionAssumption DEF Budget
    <3> QED BY <1>1, <1>3, <3>4 DEF WindowInv, PlaceInv, WindowConserved
  <2>2. CASE chokes' # 0
    BY <1>1, <1>3, <2>2, Zenon DEF WindowInv, PlaceInv, WindowConserved
  <2> QED BY <2>1, <2>2, Zenon
<1> QED BY <1>2, <1>3

LEMMA WindowInvariant == Spec => []WindowInv
<1>1. Init => WindowInv
  BY WindowInit
<1>2. WindowInv /\ [Next]_vars => WindowInv'
  BY WindowNext
<1> QED BY <1>1, <1>2, PTL DEF Spec

(* However answers, permit timeouts, cancellations, window changes and the *)
(* spawned tasks interleave, no unit of the request window is lost or      *)
(* minted as long as the peer has not choked us.                           *)
THEOREM WindowConservedAlways == Spec => []WindowConserved
<1>1. WindowInv => WindowConserved
  BY Zenon DEF WindowInv
<1> QED BY <1>1, WindowInvariant, PTL

---------------------------------------------------------------------------
(* The answers.  A block the manager still wants is at most once between   *)
(* being expected and being received: due to be sent by a task, in the     *)
(* writer's channel, with the peer, or in the inbox.                       *)

Due(b) == \E t \in Tasks : task[t].at = "tracked" /\ task[t].block = b
DueOnce(b) ==
  \A t, u \in Tasks :
    /\ task[t].at = "tracked" /\ task[t].block = b
    /\ task[u].at = "tracked" /\ task[u].block = b
    => t = u
Sent(b) == Has(writer, b)
Back(b) == Has(inbox, BlockMsg(b))

Flight(b) ==
  /\ Due(b) \/ Sent(b) \/ owed[b] > 0 \/ Back(b) => b \in tracker
  /\ Due(b) => ~Sent(b) /\ owed[b] = 0 /\ ~Back(b)
  /\ Sent(b) => owed[b] = 0 /\ ~Back(b)
  /\ owed[b] > 0 => owed[b] = 1 /\ ~Back(b)
  /\ DueOnce(b) /\ Once(writer, b) /\ Once(inbox, BlockMsg(b))

(* Only blocks the manager has from elsewhere are cancelled.               *)
CancelInv ==
  /\ \A i \in DOMAIN to_session : to_session[i].msg = "BulkCancel" =>
                                    to_session[i].blocks \subseteq finished
  /\ \A S \in cancelling : S \subseteq finished

FlightInv == CancelInv /\ (Calm => \A b \in Blocks \ finished : Flight(b))

(* A block not owed before is owed once after one more request.            *)
LEMMA OneOwed ==
  ASSUME NEW n, NEW m, n = 0, m = n \/ m = n + 1
  PROVE  m > 0 => m = 1
BY SMT

LEMMA CancelNext == TInv /\ CancelInv /\ [Next]_vars => CancelInv'
<1> SUFFICES ASSUME TInv, CancelInv, [Next]_vars PROVE CancelInv'
  OBVIOUS
<1>0. to_session \in Seq(Order)
  BY Zenon DEF TInv, TypeOK
<1>1. CASE UNCHANGED <<to_session, cancelling, finished>>
  BY <1>1, Zenon DEF CancelInv
<1>2. ASSUME to_session # <<>>, to_session' = Tail(to_session), finished' = finished,
             \/ cancelling' = cancelling
             \/ /\ Head(to_session).msg = "BulkCancel"
                /\ cancelling' = cancelling \cup {Head(to_session).blocks}
      PROVE  CancelInv'
  <2>1. /\ Len(to_session) \in Nat \ {0} /\ DOMAIN to_session = 1..Len(to_session)
        /\ DOMAIN to_session' = 1 .. Len(to_session) - 1 /\ Head(to_session) = to_session[1]
        /\ \A i \in 1 .. Len(to_session) - 1 : to_session'[i] = to_session[i + 1]
    BY <1>0, <1>2
  <2> QED BY <1>2, <2>1 DEF CancelInv
<1>3. ASSUME NEW m \in Order, Send(m), cancelling' = cancelling, finished \subseteq finished',
             m.msg = "BulkCancel" => m.blocks \subseteq finished'
      PROVE  CancelInv'
  <2>1. CASE to_session' = to_session
    BY <1>3, <2>1, Zenon DEF CancelInv
  <2>2. CASE to_session' = Append(to_session, m)
    <3>1. /\ Len(to_session) \in Nat /\ DOMAIN to_session = 1..Len(to_session)
          /\ DOMAIN to_session' = 1 .. Len(to_session) + 1
          /\ \A i \in 1..Len(to_session) : to_session'[i] = to_session[i]
          /\ to_session'[Len(to_session) + 1] = m
      BY <1>0, <2>2
    <3> QED BY <1>3, <3>1 DEF CancelInv
  <2> QED BY <1>3, <2>1, <2>2, Zenon DEF Send, TrySend
<1>4. CASE BulkRequest \/ BulkCancel \/ OtherCommand
  BY <1>2, <1>4 DEF BulkRequest, BulkCancel, OtherCommand, Command, requests, managerSide
<1>5. CASE TickEnds \/ Close
  <2>1. to_session' = <<>> /\ cancelling' = {}
    BY <1>5, Zenon DEF TickEnds, Close, End
  <2>2. DOMAIN to_session' = {}
    BY <2>1
  <2> QED BY <2>1, <2>2, Zenon DEF CancelInv
<1>6. CASE Session
  BY <1>1, <1>4, <1>5, <1>6, ZenonT(30) DEF Session, Handshake, Piece, Forward, Choke, Unchoke, OtherMessage,
     Tick, shrink_window, requests, managerSide
<1>7. ASSUME NEW S \in cancelling, CancelTask(S) PROVE CancelInv'
  BY <1>7, Zenon DEF CancelTask, CancelInv, managerSide
<1>8. CASE Spawned
  BY <1>1, <1>7, <1>8 DEF Spawned, TaskNext, TaskTimeout, TaskTrack, TaskSend, managerSide
<1>9. CASE Peer \/ ManagerReceives \/ UNCHANGED vars
  BY <1>1, <1>9, Zenon DEF Peer, PeerGetsRequest, PeerChokes, PeerUnchokes, PeerSendsOther, ReaderEnds,
     PeerAnswers, ManagerReceives, requests, managerSide, vars
<1>10. ASSUME NEW S \in SUBSET Blocks, ManagerRequests(S) PROVE CancelInv'
  <2>1. Bulk("BulkRequest", S) \in Order /\ Bulk("BulkRequest", S).msg = "BulkRequest"
    BY MessageTypes, Zenon DEF Bulk
  <2> QED BY <1>3, <1>10, <2>1, Zenon DEF ManagerRequests, requests
<1>11. ASSUME NEW S \in SUBSET Blocks, ManagerCancels(S) PROVE CancelInv'
  <2>1. Bulk("BulkCancel", S) \in Order /\ Bulk("BulkCancel", S).blocks = S
    BY MessageTypes DEF Bulk
  <2> QED BY <1>3, <1>11, <2>1, Zenon DEF ManagerCancels, requests
<1>12. CASE ManagerSendsOther
  <2>1. Other \in Order /\ Other.msg = "Other"
    BY MessageTypes DEF Other
  <2> QED BY <1>3, <1>12, <2>1, Zenon DEF ManagerSendsOther, requests, managerSide
<1> QED BY <1>6, <1>8, <1>9, <1>10, <1>11, <1>12, Zenon DEF Next, Manager

LEMMA FlightNext ==
  ASSUME TInv, TaskInv, NoSignal, CancelInv, [Next]_vars, Calm, Calm',
         NEW b \in Blocks \ finished, Place(b), Flight(b)
  PROVE  Flight(b)'
<1>0. TypeOK
  BY Zenon DEF TInv
<1>a. (\A t \in Tasks : task'[t].at = "tracked" => task'[t] = task[t]) =>
        (Due(b)' => Due(b)) /\ (DueOnce(b) => DueOnce(b)')
  BY Zenon DEF Due, DueOnce
<1>b. UNCHANGED writer => (Sent(b)' <=> Sent(b)) /\ (Once(writer, b)' <=> Once(writer, b))
  BY Zenon DEF Sent, Has, Once
<1>c. UNCHANGED inbox => /\ Back(b)' <=> Back(b)
                         /\ Once(inbox, BlockMsg(b))' <=> Once(inbox, BlockMsg(b))
  BY DEF Back, Has, Once
<1>d. ASSUME inbox # <<>>, inbox' = Tail(inbox)
      PROVE  /\ (Back(b)' => Back(b)) /\ Once(inbox, BlockMsg(b))'
             /\ Head(inbox) = BlockMsg(b) => Back(b) /\ ~Back(b)'
  <2>1. /\ Has(inbox', BlockMsg(b)) => Has(inbox, BlockMsg(b))
        /\ Has(inbox, Head(inbox))
        /\ Once(inbox, BlockMsg(b)) => Once(inbox', BlockMsg(b))
        /\ Once(inbox, BlockMsg(b)) /\ Head(inbox) = BlockMsg(b) => ~Has(inbox', BlockMsg(b))
    BY <1>0, <1>d, HasTail DEF TypeOK
  <2> QED BY <2>1, Zenon DEF Back, Has, Once, Flight
<1>e. ASSUME NEW m \in Message, inbox' = Append(inbox, m)
      PROVE  /\ Back(b)' <=> Back(b) \/ m = BlockMsg(b)
             /\ (m = BlockMsg(b) => ~Back(b)) => Once(inbox, BlockMsg(b))'
  <2>1. /\ Has(inbox', BlockMsg(b)) <=> Has(inbox, BlockMsg(b)) \/ m = BlockMsg(b)
        /\ Once(inbox, BlockMsg(b)) /\ (m = BlockMsg(b) => ~Has(inbox, BlockMsg(b)))
             => Once(inbox', BlockMsg(b))
    BY <1>0, <1>e, HasAppend DEF TypeOK
  <2> QED BY <2>1, Zenon DEF Back, Has, Once, Flight
<1>f. ASSUME NEW n \in Nat, AddPermits(n)
      PROVE  \A t \in Tasks : task'[t].at = "tracked" => task'[t] = task[t]
  <2> TAKE t \in Tasks
  <2>1. With("permit", task[t].block, task[t].todo).at = "permit"
    BY TaskFields
  <2> QED BY <1>f, <2>1, AddPermitsEffect, Zenon DEF TInv
<1>1. CASE UNCHANGED <<task, tracker, writer, inbox, owed>>
  BY <1>1, <1>a, <1>b, <1>c, ZenonT(30) DEF Flight
<1>2. CASE Piece
  <2> DEFINE x == Head(inbox).block
  <2>1. \A t \in Tasks : task'[t].at = "tracked" => task'[t] = task[t]
    <3>1. CASE AddPermits(1)
      BY <3>1, <1>f, Zenon
    <3> QED BY <1>2, <3>1, Zenon DEF Piece, ReturnPermit
  <2>2. /\ tracker' = tracker \ {x} /\ UNCHANGED <<writer, owed>>
        /\ inbox # <<>> /\ inbox' = Tail(inbox)
    BY <1>2, Zenon DEF Piece, FromPeer
  <2>3. x = b => Head(inbox) = BlockMsg(b)
    <3>1. Head(inbox) \in Message /\ Head(inbox).msg = "Block"
      BY <1>0, <1>2 DEF Piece, FromPeer, TypeOK
    <3> QED BY <3>1, MessageTypes, Zenon
  <2> HIDE DEF x
  <2> QED BY <1>a, <1>b, <1>d, <2>1, <2>2, <2>3, ZenonT(30) DEF Flight
<1>3. CASE Unchoke \/ OtherMessage
  <2>1. UNCHANGED <<task, tracker, writer, owed>> /\ inbox # <<>> /\ inbox' = Tail(inbox)
    BY <1>3 DEF Unchoke, OtherMessage, FromPeer, requests
  <2> QED BY <1>a, <1>b, <1>d, <2>1, Zenon DEF Flight
<1>4. CASE BulkRequest
  <2>1. PICK t \in Tasks : task' = [task EXCEPT ![t] = NextOf(Head(to_session).blocks)]
    BY <1>4, ZenonT(30) DEF BulkRequest
  <2>2. task'[t].at = "next" /\ \A u \in Tasks \ {t} : task'[u] = task[u]
    BY <1>0, <2>1, TaskFields, Zenon DEF TypeOK
  <2>3. \A u \in Tasks : task'[u].at = "tracked" => task'[u] = task[u]
    BY <2>2
  <2> QED BY <1>4, <1>a, <1>b, <1>c, <2>3, Zenon DEF BulkRequest, Flight, peerSide
<1>5. CASE Tick
  <2>1. \A t \in Tasks : task'[t].at = "tracked" => task'[t] = task[t]
    <3>1. CASE AddPermits(1)
      BY <3>1, <1>f
    <3> QED BY <1>5, <3>1, ZenonT(30) DEF Tick, adjust_window_size, Grow, Shrink, Same
  <2> QED BY <1>5, <1>a, <1>b, <1>c, <2>1, ZenonT(30) DEF Tick, Flight, peerSide
<1>6. ASSUME NEW t \in Tasks, TaskNext(t) \/ TaskTimeout(t) PROVE Flight(b)'
  <2>1. /\ UNCHANGED <<tracker, writer, inbox, owed>>
        /\ \A u \in Tasks \ {t} : task'[u] = task[u]
    BY <1>6, TaskStep, ZenonT(30) DEF TaskNext, TaskTimeout, peerSide
  <2>2. task'[t].at # "tracked"
    <3>1. task'[t] = Free \/ task'[t] = NextOf(task[t].todo)
          \/ \E x, S : task'[t] = With("permit", x, S) \/ task'[t] = With("queued", x, S)
      BY <1>0, <1>6, Zenon DEF TaskNext, TaskTimeout, TypeOK
    <3>2. /\ Free.at # "tracked" /\ NextOf(task[t].todo).at # "tracked"
          /\ \A x, S : With("permit", x, S).at # "tracked" /\ With("queued", x, S).at # "tracked"
      BY TaskFields, Zenon
    <3> QED BY <3>1, <3>2, Zenon
  <2> QED BY <1>a, <1>b, <1>c, <2>1, <2>2, ZenonT(30) DEF Flight
<1>7. ASSUME NEW t \in Tasks, TaskTrack(t) PROVE Flight(b)'
  <2> DEFINE x == task[t].block
  <2>1. UNCHANGED <<writer, inbox, owed>> /\ tracker' = tracker \cup {x} /\ task[t].at = "permit"
    BY <1>7 DEF TaskTrack, peerSide
  <2>2. /\ x \in InTask(t) /\ task'[t].at = "tracked" /\ task'[t].block = x
        /\ \A u \in Tasks \ {t} : task'[u] = task[u]
    BY <1>7, TaskStep, ZenonT(30)
  <2> HIDE DEF x
  <2>3. CASE b = x
    <3>1. b \notin tracker
      BY <2>2, <2>3, Zenon DEF Pends, Place
    <3>2. ~Due(b) /\ ~Sent(b) /\ owed[b] = 0 /\ ~Back(b)
      BY <1>0, <3>1 DEF Flight, TypeOK
    <3>3. DueOnce(b)'
      BY <2>2, <3>2, Zenon DEF Due, DueOnce
    <3> QED BY <1>b, <1>c, <2>1, <2>3, <3>2, <3>3, ZenonT(30) DEF Flight
  <2>4. CASE b # x
    <3>1. (Due(b)' => Due(b)) /\ (DueOnce(b) => DueOnce(b)')
      BY <2>2, <2>4, ZenonT(30) DEF Due, DueOnce
    <3> QED BY <1>b, <1>c, <2>1, <2>4, <3>1, ZenonT(30) DEF Flight
  <2> QED BY <2>3, <2>4, Zenon
<1>8. ASSUME NEW t \in Tasks, TaskSend(t) PROVE Flight(b)'
  <2> DEFINE x == task[t].block
  <2>1. /\ UNCHANGED <<tracker, inbox, owed>> /\ writer' = Append(writer, x)
        /\ task[t].at = "tracked" /\ task' = [task EXCEPT ![t] = NextOf(task[t].todo)]
        /\ task[t] \in Task
    BY <1>0, <1>8 DEF TaskSend, peerSide, TypeOK
  <2>2. x \in Blocks /\ writer \in Seq(Blocks)
    BY <1>0, <2>1, TaskTypes, ZenonT(30) DEF TypeOK
  <2>3. task'[t].at = "next" /\ \A u \in Tasks \ {t} : task'[u] = task[u]
    BY <1>0, <2>1, TaskFields DEF TypeOK
  <2>4. b = x => Due(b) /\ ~Due(b)'
    BY <2>1, <2>3, ZenonT(30) DEF Due, DueOnce, Flight
  <2> HIDE DEF x
  <2>5. (Due(b)' => Due(b)) /\ DueOnce(b)'
    BY <2>3, Zenon DEF Due, DueOnce, Flight
  <2>6. /\ Has(writer', b) <=> Has(writer, b) \/ x = b
        /\ Once(writer, b) /\ (x = b => ~Has(writer, b)) => Once(writer', b)
    BY <2>1, <2>2, HasAppend
  <2>7. (Sent(b)' <=> Sent(b) \/ x = b) /\ ((x = b => ~Sent(b)) => Once(writer, b)')
    BY <2>6, ZenonT(30) DEF Sent, Has, Once, Flight
  <2> QED BY <1>c, <2>1, <2>4, <2>5, <2>7 DEF Flight
<1>9. ASSUME NEW S \in cancelling, CancelTask(S) PROVE Flight(b)'
  <2>1. UNCHANGED <<writer, inbox, owed>> /\ tracker' = tracker \ (S \cap tracker)
    BY <1>9, Zenon DEF CancelTask, Cancelled, peerSide
  <2>2. b \notin S
    BY DEF CancelInv
  <2>3. \A t \in Tasks : task'[t].at = "tracked" => task'[t] = task[t]
    BY <1>0, <1>9, <1>f, RefundType, ZenonT(30) DEF CancelTask
  <2> QED BY <1>a, <1>b, <1>c, <2>1, <2>2, <2>3, Zenon DEF Flight
<1>10. CASE PeerGetsRequest
  <2> DEFINE x == Head(writer)
  <2>1. /\ writer \in Seq(Blocks) /\ writer # <<>> /\ writer' = Tail(writer)
        /\ owed' = owed \/ owed' = [owed EXCEPT ![x] = @ + 1]
        /\ UNCHANGED <<task, tracker, inbox>> /\ owed \in [Blocks -> Nat]
    BY <1>0, <1>10, Zenon DEF PeerGetsRequest, TypeOK, requests
  <2>2. /\ Has(writer', b) => Has(writer, b)
        /\ Once(writer, b) => Once(writer', b)
        /\ Once(writer, b) /\ x = b => ~Has(writer', b)
        /\ Has(writer, x)
    BY <2>1, HasTail, Zenon
  <2>3. /\ (Sent(b)' => Sent(b)) /\ Once(writer, b)'
        /\ x = b => Sent(b) /\ ~Sent(b)'
    BY <2>2, Zenon DEF Sent, Has, Once, Flight
  <2> HIDE DEF x
  <2>4. owed'[b] = owed[b] \/ (x = b /\ owed'[b] = owed[b] + 1)
    BY <2>1
  <2>5. CASE x = b
    <3>1. owed[b] = 0 /\ ~Due(b) /\ ~Back(b) /\ b \in tracker
      BY <2>3, <2>5, Zenon DEF Flight
    <3>2. owed'[b] > 0 => owed'[b] = 1
      BY <2>4, <3>1, OneOwed, Zenon
    <3> QED BY <1>a, <1>c, <2>1, <2>3, <2>5, <3>1, <3>2, Zenon DEF Flight
  <2>6. CASE x # b
    <3>1. owed'[b] = owed[b]
      BY <2>4, <2>6, Zenon
    <3> QED BY <1>a, <1>c, <2>1, <2>3, <3>1, Zenon DEF Flight
  <2> QED BY <2>5, <2>6, Zenon
<1>11. ASSUME NEW x \in Blocks, PeerAnswers(x) PROVE Flight(b)'
  <2>1. /\ UNCHANGED <<task, tracker, writer>> /\ owed[x] > 0
        /\ owed' = [owed EXCEPT ![x] = @ - 1] /\ inbox' = Append(inbox, BlockMsg(x))
        /\ owed \in [Blocks -> Nat] /\ BlockMsg(x) \in Message
    BY <1>0, <1>11, MessageTypes, Zenon DEF PeerAnswers, requests, TypeOK
  <2>2. BlockMsg(x) = BlockMsg(b) <=> x = b
    BY Zenon DEF BlockMsg
  <2>3. (Back(b)' <=> Back(b) \/ x = b) /\ ((x = b => ~Back(b)) => Once(inbox, BlockMsg(b))')
    BY <1>e, <2>1, <2>2, Zenon
  <2>4. IF x = b THEN owed'[b] = owed[b] - 1 ELSE owed'[b] = owed[b]
    BY <2>1
  <2>5. CASE x = b
    <3>1. owed[b] = 1 /\ ~Due(b) /\ ~Sent(b) /\ ~Back(b) /\ b \in tracker
      <4>1. ~(0 > 0)
        OBVIOUS
      <4> QED BY <2>1, <2>5, <4>1, Zenon DEF Flight
    <3>2. owed'[b] = 0 /\ ~(owed'[b] > 0)
      <4>1. 1 - 1 = 0 /\ ~(0 > 0)
        OBVIOUS
      <4> QED BY <2>4, <2>5, <3>1, <4>1, Zenon
    <3> QED BY <1>a, <1>b, <2>1, <2>3, <2>5, <3>1, <3>2, Zenon DEF Flight
  <2>6. CASE x # b
    <3>1. owed'[b] = owed[b]
      BY <2>4, <2>6, Zenon
    <3> QED BY <1>a, <1>b, <2>1, <2>3, <2>6, <3>1, Zenon DEF Flight
  <2> QED BY <2>5, <2>6
<1>12. CASE PeerUnchokes \/ PeerSendsOther
  <2>1. /\ UNCHANGED <<task, tracker, writer, owed>>
        /\ inbox' = Append(inbox, Msg("Unchoke")) \/ inbox' = Append(inbox, Other)
    BY <1>12, Zenon DEF PeerUnchokes, PeerSendsOther, requests
  <2>2. /\ Msg("Unchoke") \in Message /\ Other \in Message
        /\ Msg("Unchoke") # BlockMsg(b) /\ Other # BlockMsg(b)
    BY MessageTypes, Zenon DEF Msg, Other, BlockMsg
  <2>3. (Back(b)' => Back(b)) /\ Once(inbox, BlockMsg(b))'
    BY <1>e, <2>1, <2>2, Zenon
  <2> QED BY <1>a, <1>b, <2>1, <2>3, Zenon DEF Flight
<1>13. CASE PeerChokes \/ TickEnds \/ Close
  BY <1>0, <1>13 DEF PeerChokes, TickEnds, Close, End, Calm
<1>14. CASE Session
  BY <1>0, <1>1, <1>2, <1>3, <1>4, <1>5, <1>13, <1>14, CalmNoChoke, ZenonT(30) DEF Session, Handshake, Forward,
     BulkCancel, OtherCommand, shrink_window, requests, peerSide
<1>15. CASE Peer
  BY <1>1, <1>10, <1>11, <1>12, <1>13, <1>15, Zenon DEF Peer, ReaderEnds, requests
<1>16. CASE Manager \/ UNCHANGED vars
  BY <1>1, <1>16, Zenon DEF Manager, ManagerRequests, ManagerCancels, ManagerSendsOther, ManagerReceives,
     requests, peerSide, vars
<1> QED BY <1>6, <1>7, <1>8, <1>9, <1>14, <1>15, <1>16 DEF Next, Spawned

LEMMA FinishedGrows == [Next]_vars => finished \subseteq finished'
<1>1. Session => finished' = finished
  BY Zenon DEF Session, Handshake, Piece, Forward, Choke, Unchoke, OtherMessage, BulkRequest, BulkCancel,
     OtherCommand, Tick, TickEnds, shrink_window, Close, End, managerSide
<1>2. Spawned \/ Peer => finished' = finished
  BY DEF Spawned, TaskNext, TaskTimeout, TaskTrack, TaskSend, CancelTask, Peer, PeerGetsRequest,
     PeerChokes, PeerUnchokes, PeerSendsOther, ReaderEnds, PeerAnswers, managerSide
<1>3. Manager => finished \subseteq finished'
  BY Zenon DEF Manager, ManagerRequests, ManagerCancels, ManagerSendsOther, ManagerReceives, managerSide
<1> QED BY <1>1, <1>2, <1>3 DEF Next, vars, managerSide

(* An answer to a request that no choke and no cancellation took back      *)
(* finds its block in block_tracker, however early it comes and whatever   *)
(* else is in flight, so the session does not throw it away.               *)
THEOREM AnswersExpectedAlways == Spec => []AnswersExpected
<1>1. Init => FlightInv
  <2> SUFFICES ASSUME Init PROVE FlightInv
    OBVIOUS
  <2>1. \A t \in Tasks : task[t].at = "free"
    BY TaskFields, Zenon DEF Init
  <2>2. /\ DOMAIN to_session = {} /\ DOMAIN writer = {} /\ DOMAIN inbox = {} /\ cancelling = {}
        /\ \A b \in Blocks : ~(owed[b] > 0)
    BY DEF Init
  <2>3. CancelInv
    BY <2>2, Zenon DEF CancelInv
  <2>4. ASSUME NEW b \in Blocks PROVE Flight(b)
    <3>1. /\ ~Due(b) /\ ~Sent(b) /\ ~Back(b)
          /\ DueOnce(b) /\ Once(writer, b) /\ Once(inbox, BlockMsg(b))
      <4>1. "free" # "tracked"
        OBVIOUS
      <4> QED BY <2>1, <2>2, <4>1, Zenon DEF Due, DueOnce, Sent, Back, Has, Once
    <3> QED BY <2>2, <3>1, Zenon DEF Flight
  <2> QED BY <2>3, <2>4, Zenon DEF FlightInv
<1>2. WindowInv /\ FlightInv /\ [Next]_vars => FlightInv'
  <2> SUFFICES ASSUME WindowInv, FlightInv, [Next]_vars PROVE FlightInv'
    OBVIOUS
  <2>0. TInv /\ TaskInv /\ CancelInv
    BY Zenon DEF WindowInv, PlaceInv, FlightInv
  <2>1. CancelInv'
    BY <2>0, CancelNext, Zenon
  <2>2. ASSUME Calm', NEW b \in Blocks \ finished' PROVE Flight(b)'
    <3>1. Calm /\ NoSignal /\ b \in Blocks \ finished
      BY <2>0, <2>2, CalmBack, FinishedGrows, Zenon DEF WindowInv, PlaceInv
    <3>2. Place(b) /\ Flight(b)
      BY <3>1, Zenon DEF WindowInv, PlaceInv, FlightInv
    <3> QED BY <2>0, <2>2, <3>1, <3>2, FlightNext, Zenon
  <2> QED BY <2>1, <2>2, Zenon DEF FlightInv
<1>3. WindowInv /\ FlightInv => AnswersExpected
  <2> SUFFICES ASSUME WindowInv, FlightInv, chokes = 0, NEW b \in Blocks, Asked(b)
               PROVE  b \in tracker \cup finished
    BY Zenon DEF AnswersExpected
  <2>1. CASE phase = "closed"
    <3>1. writer = <<>> /\ inbox = <<>> /\ owed[b] = 0
      BY <2>1 DEF WindowInv, ClosedInv
    <3> QED BY <3>1 DEF Asked
  <2>2. CASE phase # "closed" /\ b \notin finished
    BY <2>2, Zenon DEF FlightInv, Calm, Flight, Asked, Sent, Back, Has
  <2> QED BY <2>1, <2>2, Zenon
<1> QED BY <1>1, <1>2, <1>3, WindowInvariant, PTL DEF Spec
===========================================================================
