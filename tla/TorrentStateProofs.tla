------------------------- MODULE TorrentStateProofs -------------------------
(***************************************************************************)
(* Proofs about TorrentState for every set of peers, pieces and blocks,    *)
(* every bound and every choice of the events that occur.                  *)
(***************************************************************************)
EXTENDS TorrentState, TLAPS, FiniteSetTheorems

(* Counting blocks and pieces: the sets counted are finite. *)
LEMMA FiniteCounts ==
  /\ \A S : S \subseteq Block => IsFiniteSet(S) /\ Cardinality(S) \in Nat
  /\ \A S : S \subseteq Pieces => IsFiniteSet(S) /\ Cardinality(S) \in Nat
  /\ \A S : S \subseteq Peers => IsFiniteSet(S) /\ Cardinality(S) \in Nat
<1>1. IsFiniteSet(Block)
  BY TorrentAssumption, FS_Product DEF Block
<1>2. ASSUME NEW U, IsFiniteSet(U), NEW S, S \subseteq U
      PROVE  IsFiniteSet(S) /\ Cardinality(S) \in Nat
  BY <1>2, FS_Subset, FS_CardinalityType
<1> QED
  BY <1>1, <1>2, TorrentAssumption

(* saturating_sub stays in the naturals. *)
LEMMA MonusType == \A a, b \in Nat : Monus(a, b) \in Nat
BY DEF Monus

(* The fields of a peer record, and the records that handlers make of it. *)
LEMMA PeerFields ==
  \A q \in PeerState :
    /\ q.known \in BOOLEAN /\ q.has \subseteq Pieces
    /\ q.peer_choking \in BOOLEAN /\ q.am_interested \in BOOLEAN
    /\ q.pending_requests \subseteq Pieces /\ q.active_blocks \subseteq Block
    /\ q.inflight \in Nat
BY DEF PeerState

LEMMA NewPeerType == NewPeer \in PeerState
BY DEF NewPeer, PeerState

LEMMA RetiredType == \A q \in PeerState : Retired(q) \in PeerState
BY Zenon DEF Retired, PeerState

LEMMA ChokedType == \A q \in PeerState : Choked(q) \in PeerState
BY Zenon DEF Choked, PeerState

(* Initially every variable has its type. *)
LEMMA InitType == Init => TypeOK
<1> SUFFICES ASSUME Init PROVE TypeOK
  OBVIOUS
<1>1. peer \in [Peers -> PeerState]
  BY NewPeerType DEF Init
<1>2. todo \in Seq(Call)
  BY DEF Init
<1>3. verify_tasks \in [Peers \X Pieces -> Nat]
  BY DEF Init
<1>4. pending_queue \in [Pieces -> SUBSET Peers] /\ wire \in [Peers -> SUBSET Block]
  BY DEF Init
<1> QED
  BY <1>1, <1>2, <1>3, <1>4, TorrentAssumption, Zenon DEF Init, TypeOK, Status, Validations

-----------------------------------------------------------------------------
(* The operations of the piece manager keep the types of the queues. *)
LEMMA ReleaseType ==
  ASSUME TypeOK, NEW S, S \subseteq Peers, release_pending_peer_or_requeue(S)
  PROVE  /\ need_queue' \subseteq Pieces
         /\ pending_queue' \in [Pieces -> SUBSET Peers]
         /\ legacy_buffers' \subseteq Block
<1> DEFINE asked(x) == {p \in S : x \in peer[p].pending_requests}
           released == {x \in Pieces \ bitfield : asked(x) # {}}
           left == [x \in Pieces |-> IF x \in released
                                       THEN pending_queue[x] \ asked(x)
                                       ELSE pending_queue[x]]
           requeued == {x \in released : left[x] = {}}
<1>1. /\ pending_queue' = left
      /\ need_queue' = need_queue \cup (requeued \ Skip)
      /\ legacy_buffers' = legacy_buffers \ BlocksOf(requeued)
  BY DEF release_pending_peer_or_requeue
<1>2. requeued \subseteq Pieces
  OBVIOUS
<1>3. left \in [Pieces -> SUBSET Peers]
  BY DEF TypeOK
<1> HIDE DEF left, requeued
<1> QED
  BY <1>1, <1>2, <1>3 DEF TypeOK

LEMMA RequeueType ==
  ASSUME TypeOK, NEW R, R \subseteq Pieces, requeue_pending_to_need(R)
  PROVE  /\ need_queue' \subseteq Pieces
         /\ pending_queue' \in [Pieces -> SUBSET Peers]
         /\ legacy_buffers' \subseteq Block
BY DEF requeue_pending_to_need, TypeOK

LEMMA MarkPendingType ==
  ASSUME TypeOK, NEW p \in Peers, NEW new, new \subseteq Pieces, mark_as_pending(p, new)
  PROVE  /\ need_queue' \subseteq Pieces
         /\ pending_queue' \in [Pieces -> SUBSET Peers]
BY DEF mark_as_pending, TypeOK

LEMMA MarkCompleteType ==
  ASSUME TypeOK, NEW R, R \subseteq Pieces, mark_as_complete(R)
  PROVE  bitfield' \subseteq Pieces /\ pieces_remaining' \in Nat
<1>1. Cardinality(R \ bitfield) \in Nat
  BY FiniteCounts
<1> QED
  BY <1>1, MonusType, Zenon DEF mark_as_complete, TypeOK

LEMMA CallType ==
  /\ Check \in Call
  /\ \A S \in SUBSET Peers : Assign(S) \in Call /\ ForceRemove(S) \in Call
BY DEF Check, Assign, ForceRemove, Call

(* Calls made one after the other are calls.                               *)
LEMMA ConcatType ==
  ASSUME NEW S, NEW q \in Seq(S), NEW r \in Seq(S)
  PROVE  q \o r \in Seq(S)
OBVIOUS

(* A single call is a sequence of calls.                                   *)
LEMMA SingleType ==
  ASSUME NEW S, NEW c \in S
  PROVE  <<c>> \in Seq(S)
OBVIOUS

(* The calls of assign_work for a set of peers.                            *)
LEMMA AssignEachType == \A S \in SUBSET Peers : AssignEach(S) \in Seq(Call)
<1> TAKE S \in SUBSET Peers
<1>1. Assign(S) \in Call
  BY CallType
<1>2. <<>> \in Seq(Call) /\ <<Assign(S)>> \in Seq(Call)
  BY <1>1
<1> QED
  BY <1>2 DEF AssignEach

-----------------------------------------------------------------------------
(* Every action keeps the types: the nested calls first. *)
LEMMA CheckCompletionType ==
  ASSUME TypeOK, CheckCompletion
  PROVE  /\ torrent_status' \in Status
         /\ need_queue' \subseteq Pieces
         /\ pending_queue' \in [Pieces -> SUBSET Peers]
         /\ legacy_buffers' \subseteq Block
         /\ peer' \in [Peers -> PeerState]
<1>1. CASE torrent_status \in {"Standard", "Endgame"} /\ IsComplete
  <2>1. [p \in Peers |-> Retired(peer[p])] \in [Peers -> PeerState]
    BY RetiredType DEF TypeOK
  <2> QED
    BY <1>1, <2>1 DEF CheckCompletion, Status
<1>2. CASE ~(torrent_status \in {"Standard", "Endgame"} /\ IsComplete)
  BY <1>2 DEF CheckCompletion, TypeOK, queues
<1> QED
  BY <1>1, <1>2

LEMMA AssignWorkType ==
  ASSUME TypeOK, NEW p \in Peers, AssignWork(p)
  PROVE  /\ torrent_status' \in Status
         /\ need_queue' \subseteq Pieces
         /\ pending_queue' \in [Pieces -> SUBSET Peers]
         /\ peer' \in [Peers -> PeerState]
         /\ wire' \in [Peers -> SUBSET Block]
<1>0. peer[p] \in PeerState /\ ShouldBeInterested(p) \in BOOLEAN
  BY DEF TypeOK, ShouldBeInterested
<1>1. CASE ~CanAssign(p)
  BY <1>1 DEF AssignWork, TypeOK, queues
<1>2. CASE CanAssign(p) /\ ~CanRequest(p)
  <2>1. /\ peer' = [peer EXCEPT ![p].am_interested = ShouldBeInterested(p)]
        /\ UNCHANGED <<torrent_status, queues, wire>>
    BY <1>2 DEF AssignWork
  <2>2. [peer[p] EXCEPT !.am_interested = ShouldBeInterested(p)] \in PeerState
    BY <1>0 DEF PeerState
  <2>3. peer' \in [Peers -> PeerState]
    BY <2>1, <2>2 DEF TypeOK
  <2> QED
    BY <2>1, <2>3 DEF TypeOK, queues
<1>3. CASE CanAssign(p) /\ CanRequest(p)
  <2> DEFINE slots == PipelineDepth - peer[p].inflight
  <2>1. PICK B \in Batches(Requestable(p, peer[p].pending_requests \ Busy), slots) :
          \E C \in NewRequests(p, slots - Cardinality(B)) :
             Request(p, B \cup C, {b[1] : b \in C})
    BY <1>3, Zenon DEF AssignWork
  <2>2. PICK C \in NewRequests(p, slots - Cardinality(B)) :
             Request(p, B \cup C, {b[1] : b \in C})
    BY <2>1, Zenon
  <2>3. B \subseteq Block
    <3>1. peer[p].pending_requests \subseteq Pieces
      BY <1>0, PeerFields
    <3> QED
      BY <3>1 DEF Batches, Requestable, BlocksOf, Block
  <2>4. C \subseteq Block
    <3>1. Candidates(p) \subseteq Pieces
      BY DEF Candidates, Pending, TypeOK
    <3> DEFINE n == slots - Cardinality(B)
               cut(D) == {E \in Batches(Requestable(p, D), n) :
                            Cardinality({x \in D : Requestable(p, {x}) \cap E \notin
                                           {{}, Requestable(p, {x})}}) <= 1}
    <3>2. C \in UNION {cut(D) : D \in Batches(Candidates(p), n)}
      BY Zenon DEF NewRequests
    <3>3. \A D : cut(D) \subseteq SUBSET Requestable(p, D)
      BY DEF Batches
    <3> HIDE DEF cut, n
    <3>4. PICK D \in Batches(Candidates(p), n) : C \in cut(D)
      BY <3>2
    <3>5. D \subseteq Pieces /\ C \subseteq Requestable(p, D)
      BY <3>1, <3>3, <3>4 DEF Batches
    <3> QED
      BY <3>5 DEF Requestable, BlocksOf, Block
  <2> DEFINE batch == B \cup C
             new == {b[1] : b \in C}
  <2>5. batch \subseteq Block /\ new \subseteq Pieces
    BY <2>3, <2>4 DEF Block
  <2>6. Request(p, batch, new)
    BY <2>2
  <2> HIDE DEF batch, new, slots
  <2>7. need_queue' \subseteq Pieces /\ pending_queue' \in [Pieces -> SUBSET Peers]
    BY <2>5, <2>6, MarkPendingType DEF Request
  <2>8. torrent_status' \in Status
    BY <2>6 DEF Request, TypeOK, Status
  <2>9. wire' \in [Peers -> SUBSET Block]
    BY <2>5, <2>6, Zenon DEF Request, TypeOK
  <2>10. peer' \in [Peers -> PeerState]
    <3>1. Cardinality(batch) \in Nat
      BY <2>5, FiniteCounts
    <3> DEFINE requests == peer[p].pending_requests \cup new
               blocks == peer[p].active_blocks \cup batch
               count == peer[p].inflight + Cardinality(batch)
               q == [peer[p] EXCEPT !.am_interested = ShouldBeInterested(p),
                                    !.pending_requests = requests,
                                    !.active_blocks = blocks,
                                    !.inflight = count]
    <3>2. requests \subseteq Pieces /\ blocks \subseteq Block /\ count \in Nat
      BY <1>0, <2>5, <3>1, PeerFields
    <3>3. peer' = [peer EXCEPT ![p] = q]
      BY <2>6, Zenon DEF Request, TypeOK
    <3> HIDE DEF requests, blocks, count
    <3>4. q \in PeerState
      BY <1>0, <3>2, Zenon DEF PeerState
    <3> HIDE DEF q
    <3> QED
      BY <3>3, <3>4 DEF TypeOK
  <2> QED
    BY <2>7, <2>8, <2>9, <2>10
<1> QED
  BY <1>1, <1>2, <1>3

LEMMA RemovePeersType ==
  ASSUME TypeOK, NEW S, S \subseteq Peers, RemovePeers(S)
  PROVE  /\ need_queue' \subseteq Pieces
         /\ pending_queue' \in [Pieces -> SUBSET Peers]
         /\ legacy_buffers' \subseteq Block
         /\ peers' \subseteq Peers /\ peer' \in [Peers -> PeerState]
         /\ pending_disconnects' \subseteq Peers /\ leaving' \subseteq Peers
<1>1. S \cap peers \subseteq Peers /\ release_pending_peer_or_requeue(S \cap peers)
  BY DEF RemovePeers
<1>2. peer' \in [Peers -> PeerState]
  BY NewPeerType DEF RemovePeers, TypeOK
<1> QED
  BY <1>1, <1>2, ReleaseType DEF RemovePeers, TypeOK

LEMMA NestedType == TypeOK /\ Nested => TypeOK'
<1> SUFFICES ASSUME TypeOK, Nested PROVE TypeOK'
  OBVIOUS
<1> USE DEF config, loop, queues, done, stages, swarm, tasks, network
<1> DEFINE c == Head(todo)
<1>1. Tail(todo) \in Seq(Call) /\ c.to \subseteq Peers
  <2>1. todo \in Seq(Call) /\ todo # <<>>
    BY DEF Nested, TypeOK
  <2>2. c \in Call /\ Tail(todo) \in Seq(Call)
    BY <2>1
  <2> QED
    BY <2>2, Zenon DEF Call
<1>2. UNCHANGED <<config, loop, done, piece_priorities, dialing, tasks, faults>>
  BY Zenon DEF Nested
<1>3. CASE /\ CheckCompletion
           /\ todo' = Tail(todo)
           /\ UNCHANGED <<peers, pending_disconnects, leaving>>
  <2>1. UNCHANGED <<verifying_pieces, writing_pieces, v2_pending_data, wire>>
    BY <1>3, Zenon DEF CheckCompletion
  <2> QED
    BY <1>1, <1>2, <1>3, <2>1, CheckCompletionType DEF TypeOK
<1>4. CASE /\ \E p \in c.to :
                /\ AssignWork(p)
                /\ todo' = IF c.to = {p} THEN Tail(todo)
                                         ELSE <<Assign(c.to \ {p})>> \o Tail(todo)
           /\ UNCHANGED <<peers, pending_disconnects, leaving>>
  <2>1. PICK p \in c.to :
                /\ AssignWork(p)
                /\ todo' = IF c.to = {p} THEN Tail(todo)
                                         ELSE <<Assign(c.to \ {p})>> \o Tail(todo)
    BY <1>4, Zenon
  <2>2. p \in Peers /\ Assign(c.to \ {p}) \in Call
    BY <1>1, CallType
  <2>3. <<Assign(c.to \ {p})>> \o Tail(todo) \in Seq(Call)
    BY <1>1, <2>2
  <2>4. todo' \in Seq(Call)
    BY <1>1, <2>1, <2>3
  <2>5. UNCHANGED stages
    BY <2>1, Zenon DEF AssignWork
  <2> QED
    BY <1>2, <1>4, <2>1, <2>2, <2>4, <2>5, AssignWorkType DEF TypeOK
<1>5. CASE /\ RemovePeers(pending_disconnects \cup c.to)
           /\ todo' = Tail(todo)
           /\ UNCHANGED <<torrent_status, verifying_pieces, writing_pieces,
                          v2_pending_data, wire>>
  <2>1. pending_disconnects \cup c.to \subseteq Peers
    BY <1>1 DEF TypeOK
  <2> QED
    BY <1>1, <1>2, <1>5, <2>1, RemovePeersType, Zenon DEF TypeOK
<1> QED
  BY <1>3, <1>4, <1>5, Zenon DEF Nested

LEMMA MetadataReceivedType == TypeOK /\ MetadataReceived => TypeOK'
<1> SUFFICES ASSUME TypeOK, MetadataReceived PROVE TypeOK'
  OBVIOUS
<1> USE DEF config, loop, queues, done, stages, swarm, tasks, network
<1>1. bitfield' \subseteq Pieces /\ pieces_remaining' \in Nat
  BY FiniteCounts DEF MetadataReceived
<1>2. peer' \in [Peers -> PeerState]
  <2>1. ASSUME NEW p \in Peers
        PROVE  [peer[p] EXCEPT !.known = @ \/ p \in peers] \in PeerState
    BY Zenon DEF TypeOK, PeerState
  <2> QED
    BY <2>1 DEF MetadataReceived
<1>3. torrent_status' \in Status /\ validations' \subseteq Validations
  BY DEF MetadataReceived, StartValidation, Validations, Status, TypeOK
<1> QED
  BY <1>1, <1>2, <1>3 DEF MetadataReceived, NoFault, TypeOK

LEMMA SetUserTorrentConfigType ==
  ASSUME TypeOK, NEW S \in SkipSets, SetUserTorrentConfig(S)
  PROVE  TypeOK'
<1> USE DEF config, loop, queues, done, stages, swarm, tasks, network
<1>1. torrent_status' \in Status /\ validations' \subseteq Validations
  BY Zenon DEF SetUserTorrentConfig, StartValidation, Validations, Status, TypeOK
<1>2. /\ need_queue' \subseteq Pieces /\ piece_priorities' \subseteq Pieces
      /\ file_priorities' \subseteq Pieces
  BY TorrentAssumption DEF SetUserTorrentConfig, apply_priorities, Skip, TypeOK
<1>3. faults' \in Nat
  BY DEF SetUserTorrentConfig, Fault, NoFault, TypeOK
<1>4. todo' \in Seq(Call)
  BY CallType DEF SetUserTorrentConfig
<1> QED
  BY <1>1, <1>2, <1>3, <1>4 DEF SetUserTorrentConfig, TypeOK

LEMMA StartType ==
  ASSUME TypeOK, NEW paused \in BOOLEAN, Start(paused)
  PROVE  TypeOK'
<1> USE DEF config, loop, queues, done, stages, swarm, tasks, network
<1>1. faults' \in Nat
  BY DEF Start, Fault, NoFault, TypeOK
<1>2. validations' \subseteq Validations
  BY DEF Start, Validations, TypeOK
<1> QED
  BY <1>1, <1>2, Zenon DEF Start, TypeOK

LEMMA ValidationCompleteType ==
  ASSUME TypeOK, NEW v, ValidationComplete(v)
  PROVE  TypeOK'
<1> USE DEF config, loop, queues, done, stages, swarm, tasks, network
<1>1. CASE torrent_status = "Validating"
  <2>1. bitfield' \subseteq Pieces /\ pieces_remaining' \in Nat
    <3>1. ValidationResult \subseteq Pieces /\ mark_as_complete(ValidationResult)
      BY <1>1, TorrentAssumption DEF ValidationComplete, ValidationResult
    <3> QED
      BY <3>1, MarkCompleteType, Zenon
  <2>2. peer' \in [Peers -> PeerState]
    <3>1. ASSUME NEW p \in Peers
          PROVE  [peer[p] EXCEPT !.pending_requests = {}] \in PeerState
      BY Zenon DEF TypeOK, PeerState
    <3> QED
      BY <1>1, <3>1 DEF ValidationComplete
  <2>3. todo' \in Seq(Call)
    <3>1. AssignEach(peers) \in Seq(Call) /\ <<Check>> \in Seq(Call)
      BY AssignEachType, CallType DEF TypeOK
    <3>2. <<Check>> \o AssignEach(peers) \in Seq(Call)
      BY <3>1
    <3> QED
      BY <1>1, <3>2, Zenon DEF ValidationComplete
  <2>4. /\ torrent_status' \in Status /\ need_queue' \subseteq Pieces
        /\ pending_queue' \in [Pieces -> SUBSET Peers]
        /\ verifying_pieces' = {} /\ writing_pieces' = {} /\ legacy_buffers' = {}
    BY <1>1, Zenon DEF ValidationComplete, Status
  <2> QED
    BY <2>1, <2>2, <2>3, <2>4, Zenon DEF ValidationComplete, NoFault, TypeOK
<1>2. CASE torrent_status # "Validating"
  BY <1>2, Zenon DEF ValidationComplete, NoFault, TypeOK
<1> QED
  BY <1>1, <1>2, Zenon

LEMMA RegisterPeerType ==
  ASSUME TypeOK, NEW p \in Peers, RegisterPeer(p)
  PROVE  TypeOK'
<1> USE DEF config, loop, queues, done, stages, swarm, tasks, network
<1>1. PICK gone \in {{}, pending_disconnects} :
        /\ release_pending_peer_or_requeue(gone \cap peers)
        /\ peers' = (peers \ gone) \cup {p}
        /\ peer' = [q \in Peers |-> IF q \in gone \cup {p} THEN NewPeer ELSE peer[q]]
        /\ pending_disconnects' = pending_disconnects \ gone
        /\ leaving' = leaving \ (gone \cup {p})
  BY DEF RegisterPeer
<1>2. gone \cap peers \subseteq Peers
  BY DEF TypeOK
<1>3. peer' \in [Peers -> PeerState]
  BY <1>1, NewPeerType, Zenon DEF TypeOK
<1>4. /\ need_queue' \subseteq Pieces
      /\ pending_queue' \in [Pieces -> SUBSET Peers]
      /\ legacy_buffers' \subseteq Block
  BY <1>1, <1>2, ReleaseType
<1> QED
  BY <1>1, <1>3, <1>4 DEF RegisterPeer, NoFault, TypeOK

LEMMA PeerDisconnectedType ==
  ASSUME TypeOK, NEW p \in Peers, PeerDisconnected(p)
  PROVE  TypeOK'
<1> USE DEF config, loop, queues, done, stages, swarm, tasks, network
<1> DEFINE batch == pending_disconnects \cup {p}
<1>1. faults' \in Nat
  BY DEF PeerDisconnected, Fault, NoFault, TypeOK
<1>2. wire' \in [Peers -> SUBSET Block]
  BY Zenon DEF PeerDisconnected, TypeOK
<1>3. batch \subseteq Peers
  BY Zenon DEF TypeOK
<1>4. CASE RemovePeers(batch)
  BY <1>1, <1>2, <1>3, <1>4, RemovePeersType, Zenon DEF PeerDisconnected, TypeOK
<1>5. CASE /\ pending_disconnects' = batch
           /\ UNCHANGED <<queues, legacy_buffers, peers, peer, leaving>>
  BY <1>1, <1>2, <1>3, <1>5 DEF PeerDisconnected, TypeOK
<1> QED
  BY <1>4, <1>5, Zenon DEF PeerDisconnected

LEMMA PeerPolicyUpdatedType ==
  ASSUME TypeOK, NEW S \in SUBSET Peers, PeerPolicyUpdated(S)
  PROVE  TypeOK'
<1> USE DEF config, loop, queues, done, stages, swarm, tasks, network
<1>1. todo' \in Seq(Call) /\ faults' \in Nat
  BY CallType DEF PeerPolicyUpdated, Fault, TypeOK
<1> QED
  BY <1>1 DEF PeerPolicyUpdated, TypeOK

LEMMA PeerMessageType ==
  ASSUME TypeOK, NEW p \in Peers, NEW record \in PeerState,
         PeerMessage(p, record), NoFault
  PROVE  TypeOK'
<1> USE DEF config, loop, queues, done, stages, swarm, tasks, network
<1>1. todo' \in Seq(Call)
  BY CallType DEF PeerMessage
<1>2. peer' \in [Peers -> PeerState]
  BY DEF PeerMessage, TypeOK
<1> QED
  BY <1>1, <1>2, Zenon DEF PeerMessage, NoFault, TypeOK

LEMMA DisconnectPeerType ==
  ASSUME NEW told \in SUBSET Peers, NEW S \in SUBSET Peers, DisconnectPeer(told, S)
  PROVE  leaving' \subseteq Peers /\ todo' \in Seq(Call)
<1>1. <<ForceRemove(S)>> \in Seq(Call) /\ <<>> \in Seq(Call)
  <2>1. ForceRemove(S) \in Call
    BY CallType
  <2> QED
    BY <2>1
<1> QED
  BY <1>1, Zenon DEF DisconnectPeer

LEMMA PeerBitfieldReceivedType ==
  ASSUME TypeOK, NEW p \in Peers, NEW S \in Bitfields, PeerBitfieldReceived(p, S)
  PROVE  TypeOK'
<1> USE DEF config, loop, queues, done, stages, swarm, tasks, network
<1> DEFINE record == [peer[p] EXCEPT !.known = TRUE, !.has = S]
<1>1. CASE NoFault /\ PeerMessage(p, record)
  <2>1. record \in PeerState
    <3>1. S \subseteq Pieces /\ peer[p] \in PeerState
      BY TorrentAssumption DEF TypeOK
    <3> QED
      BY <3>1, Zenon DEF PeerState
  <2> QED
    BY <1>1, <2>1, PeerMessageType
<1>2. CASE /\ Fault("bitfield") /\ DisconnectPeer(leaving, {p})
           /\ UNCHANGED <<config, loop, torrent_status, queues, done, piece_priorities,
                          stages, swarm, wire, dialing, tasks>>
  <2>1. leaving' \subseteq Peers /\ todo' \in Seq(Call)
    BY <1>2, DisconnectPeerType, Zenon DEF TypeOK
  <2> QED
    BY <1>2, <2>1 DEF Fault, TypeOK
<1> QED
  BY <1>1, <1>2 DEF PeerBitfieldReceived

LEMMA PeerUnchokedType ==
  ASSUME TypeOK, NEW p \in Peers, PeerUnchoked(p)
  PROVE  TypeOK'
<1>1. [peer[p] EXCEPT !.peer_choking = FALSE] \in PeerState
  BY Zenon DEF TypeOK, PeerState
<1> QED
  BY <1>1, PeerMessageType, Zenon DEF PeerUnchoked

LEMMA PeerHavePieceType ==
  ASSUME TypeOK, NEW p \in Peers, NEW x \in HavePieces, PeerHavePiece(p, x)
  PROVE  TypeOK'
<1> DEFINE seen == IF peer[p].known THEN peer[p].has \cup {x} ELSE peer[p].has
<1>1. [peer[p] EXCEPT !.has = seen] \in PeerState
  <2>1. peer[p] \in PeerState
    BY DEF TypeOK
  <2>2. seen \subseteq Pieces
    BY <2>1, TorrentAssumption, PeerFields, Zenon
  <2> HIDE DEF seen
  <2> QED
    BY <2>1, <2>2 DEF PeerState
<1> QED
  BY <1>1, PeerMessageType DEF PeerHavePiece

LEMMA PeerChokedType ==
  ASSUME TypeOK, NEW p \in Peers, PeerChoked(p)
  PROVE  TypeOK'
<1> USE DEF config, loop, queues, done, stages, swarm, tasks, network
<1>1. peer' \in [Peers -> PeerState]
  BY ChokedType DEF PeerChoked, TypeOK
<1>2. wire' \in [Peers -> SUBSET Block] /\ faults' \in Nat
  BY DEF PeerChoked, Fault, TypeOK
<1>3. /\ need_queue' \subseteq Pieces
      /\ pending_queue' \in [Pieces -> SUBSET Peers]
      /\ legacy_buffers' \subseteq Block
  <2>1. {p} \subseteq Peers /\ release_pending_peer_or_requeue({p})
    BY DEF PeerChoked
  <2> QED
    BY <2>1, ReleaseType
<1> QED
  BY <1>1, <1>2, <1>3 DEF PeerChoked, TypeOK

LEMMA RequestLostType ==
  ASSUME TypeOK, NEW p \in Peers, NEW b \in Block, RequestLost(p, b)
  PROVE  TypeOK'
<1> USE DEF config, loop, queues, done, stages, swarm, tasks, network
<1>1. wire' \in [Peers -> SUBSET Block] /\ faults' \in Nat
  BY DEF RequestLost, Fault, TypeOK
<1> QED
  BY <1>1 DEF RequestLost, TypeOK

(* Data flow. *)
LEMMA DeliveredType ==
  ASSUME TypeOK, NEW p \in Peers, NEW b \in Block
  PROVE  Delivered(p, b) \in [Peers -> PeerState]
<1> DEFINE count == Monus(peer[p].inflight, 1)
           blocks == peer[p].active_blocks \ {b}
           q == [peer[p] EXCEPT !.inflight = count, !.active_blocks = blocks]
<1>1. peer[p] \in PeerState
  BY DEF TypeOK
<1>2. count \in Nat /\ blocks \subseteq Block
  BY <1>1, MonusType, PeerFields, Zenon
<1>3. Delivered(p, b) = [peer EXCEPT ![p] = q]
  BY Zenon DEF Delivered, TypeOK
<1> HIDE DEF count, blocks
<1>4. q \in PeerState
  BY <1>1, <1>2, Zenon DEF PeerState
<1> HIDE DEF q
<1> QED
  BY <1>3, <1>4, Zenon DEF TypeOK

LEMMA IncomingBlockType ==
  ASSUME TypeOK, NEW p \in Peers, NEW b \in Block, IncomingBlock(p, b)
  PROVE  TypeOK'
<1> USE DEF config, loop, queues, done, stages, swarm, tasks, network
<1> DEFINE x == b[1]
<1>0. x \in Pieces
  BY DEF Block
<1>1. wire' \in [Peers -> SUBSET Block]
  BY Zenon DEF IncomingBlock, TypeOK
<1>2. peer' \in [Peers -> PeerState]
  BY DeliveredType DEF IncomingBlock, TypeOK
<1>3. legacy_buffers' \subseteq Block
  BY DEF IncomingBlock, Buffered, TypeOK
<1>4. verifying_pieces' \subseteq Pieces /\ v2_pending_data' \subseteq Pieces
  BY <1>0 DEF IncomingBlock, TypeOK
<1>5. verify_tasks' \in [Peers \X Pieces -> Nat]
  <2>1. verify_tasks[<<p, x>>] + 1 \in Nat
    BY <1>0 DEF TypeOK
  <2>2. [verify_tasks EXCEPT ![<<p, x>>] = verify_tasks[<<p, x>>] + 1]
          \in [Peers \X Pieces -> Nat]
    BY <1>0, <2>1, Zenon DEF TypeOK
  <2>3. \/ verify_tasks' = verify_tasks
        \/ verify_tasks' = [verify_tasks EXCEPT ![<<p, x>>] = verify_tasks[<<p, x>>] + 1]
    BY DEF IncomingBlock
  <2> QED
    BY <2>2, <2>3, Zenon DEF TypeOK
<1>6. todo' \in Seq(Call)
  <2>1. <<>> \in Seq(Call) /\ <<Assign({p})>> \in Seq(Call)
    <3>1. Assign({p}) \in Call
      BY CallType
    <3> QED
      BY <3>1
  <2> QED
    BY <2>1, Zenon DEF IncomingBlock, TypeOK
<1> QED
  BY <1>1, <1>2, <1>3, <1>4, <1>5, <1>6 DEF IncomingBlock, NoFault, TypeOK

LEMMA MerkleProofReceivedType ==
  ASSUME TypeOK, NEW p \in Peers, NEW x \in Pieces, MerkleProofReceived(p, x)
  PROVE  TypeOK'
<1> USE DEF config, loop, queues, done, stages, swarm, tasks, network
<1>1. verify_tasks' \in [Peers \X Pieces -> Nat]
  <2>1. verify_tasks[<<p, x>>] + 1 \in Nat
    BY DEF TypeOK
  <2> QED
    BY <2>1 DEF MerkleProofReceived, TypeOK
<1> QED
  BY <1>1 DEF MerkleProofReceived, NoFault, TypeOK

LEMMA UnrequestType ==
  ASSUME TypeOK, NEW S, NEW x
  PROVE  Unrequest(S, x) \in [Peers -> PeerState]
<1>1. ASSUME NEW p \in Peers
      PROVE  [peer[p] EXCEPT !.pending_requests = @ \ {x}] \in PeerState
  BY Zenon DEF TypeOK, PeerState
<1> QED
  BY <1>1, Zenon DEF Unrequest, TypeOK

LEMMA OneLess == \A k \in Nat : k > 0 => k - 1 \in Nat
  OBVIOUS

LEMMA PieceVerifiedType ==
  ASSUME TypeOK, NEW p \in Peers, NEW x \in Pieces, NEW valid \in BOOLEAN,
         PieceVerified(p, x, valid)
  PROVE  TypeOK'
<1> USE DEF config, loop, queues, done, stages, swarm, tasks, network
<1>1. verify_tasks' \in [Peers \X Pieces -> Nat]
  <2>1. verify_tasks[<<p, x>>] \in Nat /\ verify_tasks[<<p, x>>] > 0
    BY DEF PieceVerified, TypeOK
  <2>2. verify_tasks[<<p, x>>] - 1 \in Nat
    BY <2>1, OneLess, Zenon
  <2> QED
    BY <2>2 DEF PieceVerified, TypeOK
<1>2. faults' \in Nat
  BY DEF PieceVerified, Fault, NoFault, TypeOK
<1>3. verifying_pieces' \subseteq Pieces /\ v2_pending_data' \subseteq Pieces
  BY DEF PieceVerified, TypeOK
<1>4. UNCHANGED <<config, loop, torrent_status, queues, done, piece_priorities,
                  peers, pending_disconnects, wire, dialing, validations, disk>>
  BY DEF PieceVerified
<1>5. CASE valid /\ Unneeded(x)
  <2>1. /\ peer' = Unrequest({p} \cap peers, x)
        /\ todo' = <<Assign({p})>>
        /\ UNCHANGED <<legacy_buffers, writing_pieces, write_tasks, leaving>>
    BY <1>5 DEF PieceVerified
  <2>2. todo' \in Seq(Call)
    BY <2>1, CallType
  <2>3. peer' \in [Peers -> PeerState]
    BY <2>1, UnrequestType, Zenon
  <2> QED
    BY <1>1, <1>2, <1>3, <1>4, <2>1, <2>2, <2>3, Zenon DEF TypeOK
<1>6. CASE valid /\ ~Unneeded(x)
  <2>1. /\ writing_pieces' = writing_pieces \cup {x}
        /\ write_tasks' = IF storage THEN write_tasks \cup {<<p, x>>} ELSE write_tasks
        /\ UNCHANGED <<legacy_buffers, peer, todo, leaving>>
    BY <1>6, Zenon DEF PieceVerified
  <2> QED
    BY <1>1, <1>2, <1>3, <1>4, <2>1 DEF TypeOK
<1>7. CASE ~valid
  <2>1. /\ legacy_buffers' \subseteq legacy_buffers
        /\ DisconnectPeer(leaving, {p} \cap peers)
        /\ UNCHANGED <<writing_pieces, peer, write_tasks>>
    BY <1>7 DEF PieceVerified
  <2>2. leaving' \subseteq Peers /\ todo' \in Seq(Call)
    BY <2>1, DisconnectPeerType, Zenon DEF TypeOK
  <2> QED
    BY <1>1, <1>2, <1>3, <1>4, <2>1, <2>2 DEF TypeOK
<1> QED
  BY <1>5, <1>6, <1>7

LEMMA PieceWrittenToDiskType ==
  ASSUME TypeOK, NEW p \in Peers, NEW x \in Pieces, PieceWrittenToDisk(p, x)
  PROVE  TypeOK'
<1> USE DEF config, loop, queues, done, stages, swarm, tasks, network
<1> DEFINE idle == torrent_status \in {"Validating", "AwaitingMetadata"}
           others == pending_queue[x] \ {p}
<1>1. disk' \subseteq Pieces /\ UNCHANGED faults
  BY DEF PieceWrittenToDisk, Written, NoFault, TypeOK
<1>2. UNCHANGED <<config, loop, torrent_status, piece_priorities, verifying_pieces,
                  v2_pending_data, peers, pending_disconnects, leaving, dialing,
                  verify_tasks, validations>>
  BY DEF PieceWrittenToDisk
<1>3. CASE idle
  <2>1. /\ write_tasks' = write_tasks \ {<<p, x>>}
        /\ UNCHANGED <<done, queues, legacy_buffers, writing_pieces, peer, wire, todo>>
    BY <1>3, Zenon DEF PieceWrittenToDisk
  <2> QED
    BY <1>1, <1>2, <2>1 DEF TypeOK
<1>4. CASE ~idle /\ x \in bitfield
  <2>1. /\ WriteOver(p, x)
        /\ peer' = Unrequest({p} \cap peers, x)
        /\ todo' = <<Assign({p})>>
        /\ UNCHANGED <<done, queues, legacy_buffers, wire>>
    BY <1>4, Zenon DEF PieceWrittenToDisk
  <2>2. todo' \in Seq(Call) /\ peer' \in [Peers -> PeerState]
    BY <2>1, CallType, UnrequestType
  <2> QED
    BY <1>1, <1>2, <2>1, <2>2, Zenon DEF WriteOver, TypeOK
<1>5. CASE ~idle /\ x \notin bitfield
  <2>1. /\ mark_as_complete({x})
        /\ need_queue' = need_queue \ {x}
        /\ pending_queue' = [pending_queue EXCEPT ![x] = {}]
        /\ legacy_buffers' = legacy_buffers \ BlocksOf({x})
        /\ WriteOver(p, x)
        /\ peer' = Unrequest(({p} \cup others) \cap peers, x)
        /\ wire' \in {wire, [q \in Peers |-> IF q \in others \cap peers
                                               THEN wire[q] \ BlocksOf({x})
                                               ELSE wire[q]]}
        /\ todo' = <<Assign({p})>> \o AssignEach(others) \o <<Check>>
                     \o AssignEach(peers)
    BY <1>5, Zenon DEF PieceWrittenToDisk
  <2>2. todo' \in Seq(Call)
    <3>1. others \subseteq Peers /\ peers \subseteq Peers
      BY Zenon DEF TypeOK
    <3>2. /\ AssignEach(others) \in Seq(Call) /\ AssignEach(peers) \in Seq(Call)
          /\ <<Assign({p})>> \in Seq(Call) /\ <<Check>> \in Seq(Call)
      <4>1. Assign({p}) \in Call /\ Check \in Call
        BY CallType, Zenon
      <4>2. <<Assign({p})>> \in Seq(Call) /\ <<Check>> \in Seq(Call)
        BY <4>1, SingleType, Zenon
      <4>3. AssignEach(others) \in Seq(Call) /\ AssignEach(peers) \in Seq(Call)
        BY <3>1, AssignEachType, Zenon
      <4> QED
        BY <4>2, <4>3, Zenon
    <3>3. <<Assign({p})>> \o AssignEach(others) \in Seq(Call)
      BY <3>2, ConcatType, Zenon
    <3>4. <<Assign({p})>> \o AssignEach(others) \o <<Check>> \in Seq(Call)
      BY <3>2, <3>3, ConcatType, Zenon
    <3>5. <<Assign({p})>> \o AssignEach(others) \o <<Check>> \o AssignEach(peers)
            \in Seq(Call)
      BY <3>2, <3>4, ConcatType, Zenon
    <3> QED
      BY <2>1, <3>5, ZenonT(30)
  <2>3. peer' \in [Peers -> PeerState]
    BY <2>1, UnrequestType
  <2>4. bitfield' \subseteq Pieces /\ pieces_remaining' \in Nat
    BY <2>1, MarkCompleteType
  <2>5. wire' \in [Peers -> SUBSET Block]
    BY <2>1, Zenon DEF TypeOK
  <2>6. pending_queue' \in [Pieces -> SUBSET Peers] /\ need_queue' \subseteq Pieces
    BY <2>1 DEF TypeOK
  <2>7. legacy_buffers' \subseteq Block
    BY <2>1, Zenon DEF TypeOK
  <2> QED
    BY <1>1, <1>2, <2>1, <2>2, <2>3, <2>4, <2>5, <2>6, <2>7, Zenon DEF WriteOver, TypeOK
<1> QED
  BY <1>3, <1>4, <1>5

LEMMA PieceWriteFailedType ==
  ASSUME TypeOK, NEW p \in Peers, NEW x \in Pieces, PieceWriteFailed(p, x)
  PROVE  TypeOK'
<1> USE DEF config, loop, queues, done, stages, swarm, tasks, network
<1>1. disk' \subseteq Pieces /\ faults' \in Nat
  BY DEF PieceWriteFailed, Fault, TypeOK
<1>2. bitfield' \subseteq Pieces /\ pieces_remaining' \in Nat
  BY DEF PieceWriteFailed, TypeOK
<1>3. /\ need_queue' \subseteq Pieces
      /\ pending_queue' \in [Pieces -> SUBSET Peers]
      /\ legacy_buffers' \subseteq Block
  BY RequeueType, Zenon DEF PieceWriteFailed
<1> QED
  BY <1>1, <1>2, <1>3 DEF PieceWriteFailed, TypeOK

(* Timers and user commands. *)
LEMMA TickType == TypeOK /\ Tick => TypeOK'
<1> SUFFICES ASSUME TypeOK, Tick PROVE TypeOK'
  OBVIOUS
<1> USE DEF config, loop, queues, done, stages, swarm, tasks, network
<1>1. todo' \in Seq(Call)
  BY AssignEachType DEF Tick, TypeOK
<1> QED
  BY <1>1 DEF Tick, NoFault, TypeOK

LEMMA CleanupType == TypeOK /\ Cleanup => TypeOK'
<1> SUFFICES ASSUME TypeOK, Cleanup PROVE TypeOK'
  OBVIOUS
<1> USE DEF config, loop, queues, done, stages, swarm, tasks, network
<1>1. peer' \in [Peers -> PeerState] /\ peers' \subseteq Peers
  BY NewPeerType DEF Cleanup, TypeOK
<1>2. /\ need_queue' \subseteq Pieces
      /\ pending_queue' \in [Pieces -> SUBSET Peers]
      /\ legacy_buffers' \subseteq Block
  <2>1. /\ pending_disconnects \cap peers \subseteq Peers
        /\ release_pending_peer_or_requeue(pending_disconnects \cap peers)
    BY Zenon DEF Cleanup, TypeOK
  <2> QED
    BY <2>1, ReleaseType, Zenon
<1>3. torrent_status' \in Status /\ v2_pending_data' \subseteq Pieces
  BY DEF Cleanup, Status, TypeOK
<1>4. leaving' \subseteq Peers /\ todo' \in Seq(Call)
  <2>1. PICK T \in SUBSET {p \in peers' : ~peer[p].am_interested} :
          DisconnectPeer(leaving \ pending_disconnects,
                         IF Seeding
                           THEN {p \in peers' : peer[p].known /\ peer[p].has = Pieces}
                                  \cup T
                           ELSE {})
    BY Zenon DEF Cleanup
  <2> DEFINE unwanted == IF Seeding
                 THEN {p \in peers' : peer[p].known /\ peer[p].has = Pieces} \cup T
                 ELSE {}
  <2>2. unwanted \in SUBSET Peers /\ leaving \ pending_disconnects \in SUBSET Peers
    BY <1>1 DEF TypeOK
  <2>3. DisconnectPeer(leaving \ pending_disconnects, unwanted)
    BY <2>1, Zenon
  <2> HIDE DEF unwanted
  <2> QED
    BY <2>2, <2>3, DisconnectPeerType
<1> QED
  BY <1>1, <1>2, <1>3, <1>4 DEF Cleanup, NoFault, TypeOK

LEMMA PauseTorrentType ==
  ASSUME TypeOK, PauseTorrent, faults' \in Nat, validations' \subseteq Validations
  PROVE  TypeOK'
<1> USE DEF config, loop, queues, done, stages, swarm, tasks, network
<1>1. peer' \in [Peers -> PeerState]
  BY NewPeerType, Zenon DEF PauseTorrent
<1>2. /\ need_queue' \subseteq Pieces
      /\ pending_queue' \in [Pieces -> SUBSET Peers]
      /\ legacy_buffers' \subseteq Block
  <2> DEFINE asked == (UNION {peer[p].pending_requests : p \in peers}) \ bitfield
  <2>1. DrainPending(asked) /\ legacy_buffers' = legacy_buffers \ BlocksOf(asked)
    BY Zenon DEF PauseTorrent
  <2>2. asked \subseteq Pieces
    BY PeerFields DEF TypeOK
  <2> HIDE DEF asked
  <2> QED
    BY <2>1, <2>2 DEF DrainPending, Pending, TypeOK
<1>3. dialing' \subseteq Peers
  BY Zenon DEF PauseTorrent
<1> QED
  BY <1>1, <1>2, <1>3 DEF PauseTorrent, TypeOK

LEMMA UserType == TypeOK /\ (Pause \/ Resume \/ Shutdown \/ Delete) => TypeOK'
<1> SUFFICES ASSUME TypeOK PROVE Pause \/ Resume \/ Shutdown \/ Delete => TypeOK'
  OBVIOUS
<1> USE DEF config, loop, queues, done, stages, swarm, tasks, network
<1>1. CASE Pause
  BY <1>1, PauseTorrentType DEF Pause, Fault, TypeOK
<1>2. CASE Resume
  BY <1>2, Zenon DEF Resume, NoFault, TypeOK
<1>3. CASE Shutdown
  <2>1. is_paused' \in BOOLEAN
    BY <1>3, Zenon DEF Shutdown, TypeOK
  <2>2. faults' \in Nat /\ running' = FALSE /\ write_tasks' = {}
    BY <1>3 DEF Shutdown, Fault, TypeOK
  <2>3. UNCHANGED <<config, started, torrent_status, queues, done, piece_priorities,
                    stages, swarm, todo, network, verify_tasks, validations, disk>>
    BY <1>3 DEF Shutdown
  <2> QED
    BY <2>1, <2>2, <2>3, Zenon DEF TypeOK
<1>4. CASE Delete
  <2>1. peer' \in [Peers -> PeerState]
    BY <1>4, NewPeerType DEF Delete
  <2>2. pieces_remaining' \in Nat
    BY <1>4, FiniteCounts DEF Delete
  <2>3. torrent_status' \in Status /\ pending_queue' \in [Pieces -> SUBSET Peers]
    BY <1>4 DEF Delete, Status
  <2>4. /\ faults' \in Nat /\ running' = FALSE /\ is_paused' = TRUE
        /\ need_queue' = {} /\ bitfield' = {} /\ piece_priorities' = {}
        /\ legacy_buffers' = {} /\ verifying_pieces' = {} /\ writing_pieces' = {}
        /\ v2_pending_data' = {} /\ peers' = {}
    BY <1>4 DEF Delete, Fault, TypeOK
  <2>5. UNCHANGED <<config, started, pending_disconnects, todo, network, tasks>>
    BY <1>4 DEF Delete
  <2> QED
    BY <2>1, <2>2, <2>3, <2>4, <2>5, Zenon DEF TypeOK
<1> QED
  BY <1>1, <1>2, <1>3, <1>4

LEMMA ValidationFailedType ==
  ASSUME TypeOK, NEW v, ValidationFailed(v)
  PROVE  TypeOK'
<1> USE DEF config, loop, queues, done, stages, swarm, tasks, network
<1>1. faults' \in Nat /\ validations' \subseteq Validations
  BY DEF ValidationFailed, Fault, TypeOK
<1>2. CASE PauseTorrent
  BY <1>1, <1>2, PauseTorrentType
<1>3. CASE UNCHANGED <<config, loop, torrent_status, queues, done, piece_priorities,
                       stages, swarm, todo, network, verify_tasks, write_tasks, disk>>
  BY <1>1, <1>3 DEF TypeOK
<1> QED
  BY <1>2, <1>3 DEF ValidationFailed

(* Every variable keeps its type, whatever the handlers and the tasks they *)
(* spawn do: in particular inflight and pieces_remaining, kept with        *)
(* saturating_sub, stay natural numbers.                                   *)
THEOREM TypeCorrect == Spec => []TypeOK
<1>1. ASSUME TypeOK, [Next]_vars PROVE TypeOK'
  <2>1. CASE UNCHANGED vars
    BY <1>1, <2>1 DEF vars, TypeOK, config, loop, queues, done, stages, swarm, tasks,
                      network
  <2>2. CASE Nested \/ MetadataReceived \/ Tick \/ Cleanup
    BY <1>1, <2>2, NestedType, MetadataReceivedType, TickType, CleanupType
  <2>3. CASE \E paused \in BOOLEAN : Start(paused)
    BY <1>1, <2>3, StartType
  <2>4. CASE \E v \in Validations : ValidationComplete(v) \/ ValidationFailed(v)
    BY <1>1, <2>4, ValidationCompleteType, ValidationFailedType
  <2>5. ASSUME NEW p \in Peers, PeerStep(p) PROVE TypeOK'
    <3>1. CASE RegisterPeer(p) \/ PeerDisconnected(p) \/ PeerUnchoked(p) \/ PeerChoked(p)
      BY <1>1, <3>1, RegisterPeerType, PeerDisconnectedType, PeerUnchokedType,
         PeerChokedType
    <3>2. CASE \E S \in Bitfields : PeerBitfieldReceived(p, S)
      BY <1>1, <3>2, PeerBitfieldReceivedType
    <3>3. CASE \E x \in HavePieces : PeerHavePiece(p, x)
      BY <1>1, <3>3, PeerHavePieceType
    <3>4. CASE \E b \in Block : IncomingBlock(p, b) \/ RequestLost(p, b)
      BY <1>1, <3>4, IncomingBlockType, RequestLostType
    <3>5. CASE \E x \in Pieces : MerkleProofReceived(p, x)
      BY <1>1, <3>5, MerkleProofReceivedType
    <3> QED
      BY <2>5, <3>1, <3>2, <3>3, <3>4, <3>5 DEF PeerStep
  <2>6. ASSUME NEW p \in Peers, NEW x \in Pieces, TaskStep(p, x) PROVE TypeOK'
    BY <1>1, <2>6, PieceVerifiedType, PieceWrittenToDiskType, PieceWriteFailedType
       DEF TaskStep
  <2>7. CASE UserStep
    BY <1>1, <2>7, SetUserTorrentConfigType, PeerPolicyUpdatedType, UserType
       DEF UserStep
  <2> QED
    BY <1>1, <2>1, <2>2, <2>3, <2>4, <2>5, <2>6, <2>7 DEF Next
<1> QED
  BY <1>1, InitType, PTL DEF Spec

-----------------------------------------------------------------------------
(* The safety properties of the queues and the writes.                     *)
(*                                                                         *)
(* QueueInv is the inductive invariant behind the queues.  PendingIsWorked *)
(* asks for one peer that works on a pending piece; what the handlers      *)
(* really keep is that every peer listed for it does, which is what lets   *)
(* any of them leave.  WriteInv is the one behind the writes: nothing is   *)
(* in flight before the first validation is over, and the tasks of         *)
(* different pieces do not meet.                                           *)

QueueInv ==
  /\ \A x \in need_queue : pending_queue[x] = {} /\ x \notin bitfield
  /\ \A x \in Pieces : pending_queue[x] # {} => x \notin bitfield
  /\ torrent /\ running => \A x \in Pieces \ (bitfield \cup piece_priorities) :
                              x \in need_queue \/ pending_queue[x] # {}
  /\ \A x \in Pieces \ writing_pieces : \A p \in pending_queue[x] :
        p \in peers /\ x \in peer[p].pending_requests

(* A step that leaves the queues alone, takes no request for an unfinished *)
(* piece away from a registered peer and ends no write, keeps QueueInv.    *)
LEMMA QueueFrame ==
  ASSUME QueueInv, TypeOK,
         UNCHANGED <<queues, bitfield, piece_priorities, peers, torrent>>,
         running' => running,
         writing_pieces \subseteq writing_pieces',
         \A p \in peers : \A x \in peer[p].pending_requests \ (bitfield \cup writing_pieces') :
            x \in peer'[p].pending_requests
  PROVE  QueueInv'
BY DEF QueueInv, queues, TypeOK

(* Peers of S stop working, and are released from their pieces.            *)
LEMMA QueueRelease ==
  ASSUME QueueInv, TypeOK, NEW S, S \subseteq Peers,
         release_pending_peer_or_requeue(S),
         UNCHANGED <<bitfield, piece_priorities, torrent, running, writing_pieces>>,
         \A p \in peers \ S :
            p \in peers' /\ peer'[p].pending_requests = peer[p].pending_requests
  PROVE  QueueInv'
<1> DEFINE asked(x) == {p \in S : x \in peer[p].pending_requests}
           released == {x \in Pieces \ bitfield : asked(x) # {}}
           left == [x \in Pieces |-> IF x \in released
                                       THEN pending_queue[x] \ asked(x)
                                       ELSE pending_queue[x]]
           requeued == {x \in released : left[x] = {}}
<1>1. pending_queue' = left /\ need_queue' = need_queue \cup (requeued \ piece_priorities)
  BY DEF release_pending_peer_or_requeue, Skip
<1>2. \A x \in Pieces : left[x] \subseteq pending_queue[x]
  OBVIOUS
<1>3. \A x \in Pieces : left[x] = {} => pending_queue[x] = {} \/ x \in requeued
  OBVIOUS
<1>4. requeued \subseteq Pieces \ bitfield /\ \A x \in requeued : left[x] = {}
  OBVIOUS
<1>5. \A x \in Pieces \ bitfield : left[x] \cap asked(x) = {}
  OBVIOUS
<1>6. \A x \in Pieces \ writing_pieces : \A p \in left[x] : p \notin S
  BY <1>2, <1>5 DEF QueueInv
<1> HIDE DEF left, requeued
<1>7. \A x \in need_queue' : pending_queue'[x] = {} /\ x \notin bitfield'
  BY <1>1, <1>2, <1>4 DEF QueueInv, TypeOK
<1>8. \A x \in Pieces : pending_queue'[x] # {} => x \notin bitfield'
  BY <1>1, <1>2 DEF QueueInv
<1>9. torrent' /\ running' => \A x \in Pieces \ (bitfield' \cup piece_priorities') :
                                 x \in need_queue' \/ pending_queue'[x] # {}
  BY <1>1, <1>3, Zenon DEF QueueInv
<1>10. \A x \in Pieces \ writing_pieces' : \A p \in pending_queue'[x] :
          p \in peers' /\ x \in peer'[p].pending_requests
  BY <1>1, <1>2, <1>6 DEF QueueInv
<1> QED
  BY <1>7, <1>8, <1>9, <1>10 DEF QueueInv

LEMMA QueueInit == Init => QueueInv
BY DEF Init, QueueInv

(* Completion clears what no piece needs any more.                         *)
LEMMA QueueCheckCompletion ==
  ASSUME QueueInv, TypeOK, CheckCompletion,
         UNCHANGED <<bitfield, piece_priorities, peers, torrent, running>>
  PROVE  QueueInv'
<1>1. CASE torrent_status \in {"Standard", "Endgame"} /\ IsComplete
  <2>1. /\ need_queue' = {} /\ pending_queue' = [x \in Pieces |-> {}]
        /\ Pieces \subseteq bitfield \cup piece_priorities
    BY <1>1 DEF CheckCompletion, IsComplete, Skip
  <2> QED
    BY <2>1 DEF QueueInv
<1>2. CASE ~(torrent_status \in {"Standard", "Endgame"} /\ IsComplete)
  BY <1>2, QueueFrame DEF CheckCompletion
<1> QED
  BY <1>1, <1>2

(* New requests move pieces from need to pending, under the peer's name.   *)
LEMMA QueueAssignWork ==
  ASSUME QueueInv, TypeOK, NEW p \in Peers, AssignWork(p),
         UNCHANGED <<bitfield, piece_priorities, peers, torrent, running>>
  PROVE  QueueInv'
<1>0. peer[p] \in PeerState /\ UNCHANGED stages
  BY DEF TypeOK, AssignWork
<1>1. CASE ~CanAssign(p)
  BY <1>0, <1>1, QueueFrame DEF AssignWork, stages
<1>2. CASE CanAssign(p) /\ ~CanRequest(p)
  <2>1. /\ peer' = [peer EXCEPT ![p].am_interested = ShouldBeInterested(p)]
        /\ UNCHANGED queues
    BY <1>2 DEF AssignWork
  <2>2. \A q \in Peers : peer'[q].pending_requests = peer[q].pending_requests
    BY <2>1, Zenon DEF TypeOK, PeerState
  <2> QED
    BY <1>0, <2>1, <2>2, QueueFrame DEF stages, TypeOK
<1>3. CASE CanAssign(p) /\ CanRequest(p)
  <2> DEFINE slots == PipelineDepth - peer[p].inflight
  <2>1. PICK B \in Batches(Requestable(p, peer[p].pending_requests \ Busy), slots) :
          \E C \in NewRequests(p, slots - Cardinality(B)) :
             Request(p, B \cup C, {b[1] : b \in C})
    BY <1>3, Zenon DEF AssignWork
  <2>2. PICK C \in NewRequests(p, slots - Cardinality(B)) :
             Request(p, B \cup C, {b[1] : b \in C})
    BY <2>1, Zenon
  <2> DEFINE new == {b[1] : b \in C}
             n == slots - Cardinality(B)
             cut(D) == {E \in Batches(Requestable(p, D), n) :
                          Cardinality({x \in D : Requestable(p, {x}) \cap E \notin
                                         {{}, Requestable(p, {x})}}) <= 1}
  <2>3. C \in UNION {cut(D) : D \in Batches(Candidates(p), n)}
    BY ZenonT(30) DEF NewRequests
  <2>4. \A D : cut(D) \subseteq SUBSET Requestable(p, D)
    BY DEF Batches
  <2> HIDE DEF cut, n
  <2>5. new \subseteq Pieces \ bitfield
    <3>1. PICK D \in Batches(Candidates(p), n) : C \in cut(D)
      BY <2>3, Zenon
    <3>2. D \subseteq Candidates(p) /\ C \subseteq Requestable(p, D)
      BY <2>4, <3>1, Zenon DEF Batches
    <3>3. D \subseteq Pieces
      BY <3>2, Zenon DEF Candidates, Pending, TypeOK
    <3>4. C \subseteq (D \ bitfield) \X Blocks
      BY <3>2 DEF Requestable, BlocksOf
    <3> QED
      BY <3>3, <3>4
  <2>6. p \in peers /\ mark_as_pending(p, new)
    BY <1>3, <2>2, ZenonT(30) DEF CanAssign, Request
  <2>7. \A q \in Peers : peer'[q].pending_requests =
           IF q = p THEN peer[q].pending_requests \cup new ELSE peer[q].pending_requests
    BY <2>2, Zenon DEF Request, TypeOK, PeerState
  <2> HIDE DEF new
  <2>8. /\ need_queue' = need_queue \ new
        /\ \A x \in Pieces : pending_queue'[x] = IF x \in new THEN pending_queue[x] \cup {p}
                                                              ELSE pending_queue[x]
    BY <2>6 DEF mark_as_pending
  <2>9. \A x \in need_queue' : pending_queue'[x] = {} /\ x \notin bitfield'
    BY <2>8, Zenon DEF QueueInv, TypeOK
  <2>10. \A x \in Pieces : pending_queue'[x] # {} => x \notin bitfield'
    BY <2>5, <2>8, Zenon DEF QueueInv
  <2>11. torrent' /\ running' => \A x \in Pieces \ (bitfield' \cup piece_priorities') :
                                   x \in need_queue' \/ pending_queue'[x] # {}
    BY <2>8, Zenon DEF QueueInv
  <2>12. ASSUME NEW x \in Pieces \ writing_pieces', NEW q \in pending_queue'[x]
         PROVE  q \in peers' /\ x \in peer'[q].pending_requests
    <3>1. x \in Pieces \ writing_pieces
      BY <1>0 DEF stages
    <3>2. CASE q \in pending_queue[x]
      <4>1. q \in Peers /\ q \in peers /\ x \in peer[q].pending_requests
        BY <3>1, <3>2 DEF QueueInv, TypeOK
      <4> QED
        BY <2>7, <4>1, Zenon
    <3>3. CASE q \notin pending_queue[x]
      <4>1. q = p /\ x \in new
        BY <2>8, <3>3, Zenon
      <4> QED
        BY <2>6, <2>7, <4>1, Zenon
    <3> QED
      BY <3>2, <3>3, Zenon
  <2> QED
    BY <2>9, <2>10, <2>11, <2>12 DEF QueueInv
<1> QED
  BY <1>1, <1>2, <1>3

LEMMA QueueRemovePeers ==
  ASSUME QueueInv, TypeOK, NEW S, S \subseteq Peers, RemovePeers(S),
         UNCHANGED <<bitfield, piece_priorities, torrent, running, writing_pieces>>
  PROVE  QueueInv'
<1>1. release_pending_peer_or_requeue(S \cap peers) /\ S \cap peers \subseteq Peers
  BY Zenon DEF RemovePeers
<1>2. \A p \in peers \ (S \cap peers) :
         p \in peers' /\ peer'[p].pending_requests = peer[p].pending_requests
  BY DEF RemovePeers, TypeOK
<1> QED
  BY <1>1, <1>2, QueueRelease, Zenon

LEMMA QueueNested == QueueInv /\ TypeOK /\ Nested => QueueInv'
<1> SUFFICES ASSUME QueueInv, TypeOK, Nested PROVE QueueInv'
  OBVIOUS
<1> DEFINE c == Head(todo)
<1>1. c.to \subseteq Peers
  <2>1. todo \in Seq(Call) /\ todo # <<>>
    BY Zenon DEF Nested, TypeOK
  <2>2. c \in Call
    BY <2>1
  <2> QED
    BY <2>2, Zenon DEF Call
<1>2. UNCHANGED <<bitfield, piece_priorities, torrent, running>>
  BY Zenon DEF Nested, config, loop, done
<1>3. CASE CheckCompletion /\ UNCHANGED peers
  BY <1>2, <1>3, QueueCheckCompletion, Zenon
<1>4. CASE (\E p \in c.to : AssignWork(p)) /\ UNCHANGED peers
  BY <1>1, <1>2, <1>4, QueueAssignWork, Zenon
<1>5. CASE RemovePeers(pending_disconnects \cup c.to) /\ UNCHANGED writing_pieces
  <2>1. pending_disconnects \cup c.to \subseteq Peers
    BY <1>1 DEF TypeOK
  <2> QED
    BY <1>2, <1>5, <2>1, QueueRemovePeers, Zenon
<1> QED
  BY <1>3, <1>4, <1>5, Zenon DEF Nested

(* Metadata, configuration and validation.                                 *)
LEMMA QueueMetadataReceived == QueueInv /\ TypeOK /\ MetadataReceived => QueueInv'
BY DEF QueueInv, MetadataReceived

LEMMA QueueSetUserTorrentConfig ==
  ASSUME QueueInv, TypeOK, NEW S \in SkipSets, SetUserTorrentConfig(S)
  PROVE  QueueInv'
<1> USE DEF loop, done, stages, swarm
<1>1. UNCHANGED <<bitfield, peers, peer, pending_queue, writing_pieces, torrent, running>>
  BY Zenon DEF SetUserTorrentConfig
<1>2. CASE torrent
  <2>1. need_queue' = apply_priorities(S) /\ piece_priorities' = S
    BY <1>2, Zenon DEF SetUserTorrentConfig
  <2>2. \A x \in apply_priorities(S) : pending_queue[x] = {} /\ x \notin bitfield
    BY Zenon DEF apply_priorities, QueueInv
  <2>3. \A x \in Pieces \ (bitfield \cup S) : running =>
           x \in apply_priorities(S) \/ pending_queue[x] # {}
    <3> SUFFICES ASSUME NEW x \in Pieces \ (bitfield \cup S), running,
                        pending_queue[x] = {}
                 PROVE  x \in apply_priorities(S)
      OBVIOUS
    <3>1. CASE x \in piece_priorities
      BY <3>1, Zenon DEF apply_priorities, Skip
    <3>2. CASE x \notin piece_priorities
      BY <1>2, <3>2, Zenon DEF apply_priorities, Skip, QueueInv
    <3> QED
      BY <3>1, <3>2, Zenon
  <2> QED
    BY <1>1, <2>1, <2>2, <2>3, Zenon DEF QueueInv
<1>3. CASE ~torrent
  BY <1>1, <1>3 DEF SetUserTorrentConfig, QueueInv
<1> QED
  BY <1>2, <1>3, Zenon

LEMMA QueueValidationComplete ==
  ASSUME QueueInv, TypeOK, NEW v, ValidationComplete(v)
  PROVE  QueueInv'
<1> USE DEF config, loop, queues, done
<1>1. CASE torrent_status = "Validating"
  <2>1. /\ pending_queue' = [x \in Pieces |-> {}]
        /\ need_queue' = (Pieces \ bitfield') \ piece_priorities
        /\ UNCHANGED piece_priorities
    BY <1>1 DEF ValidationComplete, Skip
  <2> QED
    BY <2>1, Zenon DEF QueueInv
<1>2. CASE torrent_status # "Validating"
  BY <1>2, QueueFrame, Zenon DEF ValidationComplete
<1> QED
  BY <1>1, <1>2, Zenon

(* Peers.                                                                  *)
LEMMA QueueRegisterPeer ==
  ASSUME QueueInv, TypeOK, NEW p \in Peers, RegisterPeer(p)
  PROVE  QueueInv'
<1> USE DEF config, loop, done
<1>1. PICK gone \in {{}, pending_disconnects} :
        /\ p \in pending_disconnects => p \in gone
        /\ release_pending_peer_or_requeue(gone \cap peers)
        /\ peers' = (peers \ gone) \cup {p}
        /\ peer' = [q \in Peers |-> IF q \in gone \cup {p} THEN NewPeer ELSE peer[q]]
  BY Zenon DEF RegisterPeer
<1>2. gone \cap peers \subseteq Peers
  BY Zenon DEF TypeOK
<1>3. p \notin peers \ gone
  BY <1>1, Zenon DEF RegisterPeer
<1>4. \A q \in peers \ (gone \cap peers) :
         q \in peers' /\ peer'[q].pending_requests = peer[q].pending_requests
  BY <1>1, <1>3, Zenon DEF TypeOK
<1> QED
  BY <1>1, <1>2, <1>4, QueueRelease, Zenon DEF RegisterPeer

LEMMA QueuePeerDisconnected ==
  ASSUME QueueInv, TypeOK, NEW p \in Peers, PeerDisconnected(p)
  PROVE  QueueInv'
<1> USE DEF config, loop, done
<1> DEFINE batch == pending_disconnects \cup {p}
<1>1. batch \subseteq Peers
  BY Zenon DEF TypeOK
<1>2. UNCHANGED <<bitfield, piece_priorities, torrent, running, writing_pieces>>
  BY Zenon DEF PeerDisconnected
<1>3. CASE RemovePeers(batch)
  BY <1>1, <1>2, <1>3, QueueRemovePeers, Zenon
<1>4. CASE UNCHANGED <<queues, legacy_buffers, peers, peer, leaving>>
  BY <1>2, <1>4, QueueFrame, Zenon
<1> QED
  BY <1>3, <1>4, Zenon DEF PeerDisconnected

LEMMA QueuePeerMessage ==
  ASSUME QueueInv, TypeOK, NEW p \in Peers, NEW record, PeerMessage(p, record),
         record.pending_requests = peer[p].pending_requests
  PROVE  QueueInv'
<1>1. UNCHANGED <<queues, bitfield, piece_priorities, peers, torrent, running,
                  writing_pieces>>
  BY Zenon DEF PeerMessage, config, loop, done, stages
<1>2. \A q \in Peers : peer'[q].pending_requests = peer[q].pending_requests
  BY DEF PeerMessage, TypeOK
<1> QED
  BY <1>1, <1>2, QueueFrame DEF TypeOK

LEMMA QueuePeerBitfieldReceived ==
  ASSUME QueueInv, TypeOK, NEW p \in Peers, NEW S \in Bitfields, PeerBitfieldReceived(p, S)
  PROVE  QueueInv'
<1> DEFINE record == [peer[p] EXCEPT !.known = TRUE, !.has = S]
<1>1. CASE PeerMessage(p, record)
  <2>1. record.pending_requests = peer[p].pending_requests
    BY Zenon DEF TypeOK, PeerState
  <2> HIDE DEF record
  <2> QED
    BY <1>1, <2>1, QueuePeerMessage, Zenon
<1>2. CASE UNCHANGED <<config, loop, torrent_status, queues, done, piece_priorities,
                       stages, swarm, wire, dialing, tasks>>
  BY <1>2, QueueFrame DEF config, loop, done, stages, swarm
<1> QED
  BY <1>1, <1>2, Zenon DEF PeerBitfieldReceived

LEMMA QueuePeerUnchoked ==
  ASSUME QueueInv, TypeOK, NEW p \in Peers, PeerUnchoked(p)
  PROVE  QueueInv'
<1>1. [peer[p] EXCEPT !.peer_choking = FALSE].pending_requests = peer[p].pending_requests
  BY DEF TypeOK, PeerState
<1> QED
  BY <1>1, QueuePeerMessage, Zenon DEF PeerUnchoked

LEMMA QueuePeerHavePiece ==
  ASSUME QueueInv, TypeOK, NEW p \in Peers, NEW x \in HavePieces, PeerHavePiece(p, x)
  PROVE  QueueInv'
<1>1. [peer[p] EXCEPT !.has = IF peer[p].known THEN @ \cup {x} ELSE @].pending_requests
        = peer[p].pending_requests
  BY Zenon DEF TypeOK, PeerState
<1> QED
  BY <1>1, QueuePeerMessage, Zenon DEF PeerHavePiece

LEMMA QueuePeerChoked ==
  ASSUME QueueInv, TypeOK, NEW p \in Peers, PeerChoked(p)
  PROVE  QueueInv'
<1>1. release_pending_peer_or_requeue({p}) /\ {p} \subseteq Peers
  BY Zenon DEF PeerChoked
<1>2. \A q \in peers \ {p} :
         q \in peers' /\ peer'[q].pending_requests = peer[q].pending_requests
  BY Zenon DEF PeerChoked, TypeOK
<1> QED
  BY <1>1, <1>2, QueueRelease, Zenon DEF PeerChoked, config, loop, done

(* Data flow.                                                              *)
LEMMA QueueIncomingBlock ==
  ASSUME QueueInv, TypeOK, NEW p \in Peers, NEW b \in Block, IncomingBlock(p, b)
  PROVE  QueueInv'
<1>1. UNCHANGED <<queues, bitfield, piece_priorities, peers, torrent, running,
                  writing_pieces>>
  BY DEF IncomingBlock, config, loop, done
<1>2. \A q \in Peers : peer'[q].pending_requests = peer[q].pending_requests
  BY DEF IncomingBlock, Delivered, TypeOK, PeerState
<1> QED
  BY <1>1, <1>2, QueueFrame DEF TypeOK

LEMMA UnrequestOnly ==
  ASSUME TypeOK, NEW S, NEW x, peer' = Unrequest(S, x), NEW p \in Peers
  PROVE  \A y \in peer[p].pending_requests \ {x} : y \in peer'[p].pending_requests
BY DEF Unrequest, TypeOK, PeerState

LEMMA QueuePieceVerified ==
  ASSUME QueueInv, TypeOK, NEW p \in Peers, NEW x \in Pieces, NEW valid \in BOOLEAN,
         PieceVerified(p, x, valid)
  PROVE  QueueInv'
<1>1. UNCHANGED <<queues, bitfield, piece_priorities, peers, torrent, running>>
  BY Zenon DEF PieceVerified, config, loop, done
<1>2. CASE valid /\ Unneeded(x)
  <2>1. peer' = Unrequest({p} \cap peers, x) /\ UNCHANGED writing_pieces
    BY <1>2, Zenon DEF PieceVerified
  <2>2. x \in bitfield \cup writing_pieces'
    BY <1>2, <2>1 DEF Unneeded
  <2>3. \A q \in peers : \A y \in peer[q].pending_requests \ (bitfield \cup writing_pieces') :
           y \in peer'[q].pending_requests
    BY <2>1, <2>2, UnrequestOnly, Zenon DEF TypeOK
  <2> QED
    BY <1>1, <2>1, <2>3, QueueFrame
<1>3. CASE ~(valid /\ Unneeded(x))
  <2>1. UNCHANGED peer /\ writing_pieces \subseteq writing_pieces'
    BY <1>3, Zenon DEF PieceVerified
  <2> QED
    BY <1>1, <2>1, QueueFrame
<1> QED
  BY <1>2, <1>3

LEMMA QueuePieceWrittenToDisk ==
  ASSUME QueueInv, TypeOK, NEW p \in Peers, NEW x \in Pieces, PieceWrittenToDisk(p, x)
  PROVE  QueueInv'
<1> USE DEF config, loop, queues, done
<1>1. UNCHANGED <<piece_priorities, peers, torrent, running>>
  BY Zenon DEF PieceWrittenToDisk
<1>2. CASE torrent_status \in {"Validating", "AwaitingMetadata"}
  <2>1. UNCHANGED <<queues, bitfield, writing_pieces, peer>>
    BY <1>2, Zenon DEF PieceWrittenToDisk
  <2> QED
    BY <1>1, <2>1, QueueFrame
<1>3. CASE torrent_status \notin {"Validating", "AwaitingMetadata"} /\ x \in bitfield
  <2>1. /\ writing_pieces' = writing_pieces \ {x}
        /\ peer' = Unrequest({p} \cap peers, x)
        /\ UNCHANGED <<queues, bitfield>>
    BY <1>3, Zenon DEF PieceWrittenToDisk, WriteOver
  <2>2. pending_queue[x] = {}
    BY <1>3 DEF QueueInv
  <2>3. \A y \in Pieces \ writing_pieces' : \A q \in pending_queue'[y] :
           q \in peers' /\ y \in peer'[q].pending_requests
    BY <1>1, <2>1, <2>2, UnrequestOnly, ZenonT(30) DEF QueueInv, TypeOK
  <2> QED
    BY <1>1, <2>1, <2>3, Zenon DEF QueueInv
<1>4. CASE torrent_status \notin {"Validating", "AwaitingMetadata"} /\ x \notin bitfield
  <2>1. /\ writing_pieces' = writing_pieces \ {x}
        /\ \E S : peer' = Unrequest(S, x)
        /\ need_queue' = need_queue \ {x}
        /\ pending_queue' = [pending_queue EXCEPT ![x] = {}]
        /\ bitfield' = bitfield \cup {x}
    BY <1>4 DEF PieceWrittenToDisk, WriteOver, mark_as_complete
  <2>2. \A y \in Pieces \ {x} : pending_queue'[y] = pending_queue[y]
    BY <2>1 DEF TypeOK
  <2>3. pending_queue'[x] = {}
    BY <2>1, Zenon DEF TypeOK
  <2>4. \A y \in Pieces \ writing_pieces' : \A q \in pending_queue'[y] :
           q \in peers' /\ y \in peer'[q].pending_requests
    <3> SUFFICES ASSUME NEW y \in Pieces \ writing_pieces', NEW q \in pending_queue'[y]
                 PROVE  q \in peers' /\ y \in peer'[q].pending_requests
      OBVIOUS
    <3>1. y # x /\ y \notin writing_pieces /\ q \in pending_queue[y]
      BY <2>1, <2>2, <2>3, Zenon
    <3>2. q \in peers /\ q \in Peers /\ y \in peer[q].pending_requests \ {x}
      BY <3>1 DEF QueueInv, TypeOK
    <3>3. PICK S : peer' = Unrequest(S, x)
      BY <2>1, Zenon
    <3> QED
      BY <1>1, <3>2, <3>3, UnrequestOnly, Zenon
  <2>5. \A y \in need_queue' : pending_queue'[y] = {} /\ y \notin bitfield'
    BY <2>1, <2>2, Zenon DEF QueueInv, TypeOK
  <2>6. \A y \in Pieces : pending_queue'[y] # {} => y \notin bitfield'
    BY <2>1, <2>2, <2>3, Zenon DEF QueueInv
  <2>7. torrent' /\ running' => \A y \in Pieces \ (bitfield' \cup piece_priorities') :
                                   y \in need_queue' \/ pending_queue'[y] # {}
    BY <1>1, <2>1, <2>2, Zenon DEF QueueInv
  <2> QED
    BY <2>4, <2>5, <2>6, <2>7, Zenon DEF QueueInv
<1> QED
  BY <1>2, <1>3, <1>4

LEMMA QueuePieceWriteFailed ==
  ASSUME QueueInv, TypeOK, NEW p \in Peers, NEW x \in Pieces, PieceWriteFailed(p, x)
  PROVE  QueueInv'
<1> USE DEF config, loop, swarm
<1>1. /\ UNCHANGED <<piece_priorities, peers, peer, torrent, running>>
      /\ need_queue' = need_queue \cup ({x} \ piece_priorities)
      /\ pending_queue' = [y \in Pieces |-> IF y \in {x} THEN {} ELSE pending_queue[y]]
      /\ bitfield' = bitfield \ {x}
      /\ writing_pieces' = writing_pieces \ {x}
  BY Zenon DEF PieceWriteFailed, requeue_pending_to_need, Skip
<1>2. \A y \in Pieces \ {x} : pending_queue'[y] = pending_queue[y]
  BY <1>1, Zenon
<1>3. pending_queue'[x] = {}
  BY <1>1, Zenon
<1>4. \A y \in need_queue' : pending_queue'[y] = {} /\ y \notin bitfield'
  BY <1>1, <1>2, <1>3, Zenon DEF QueueInv, TypeOK
<1>5. \A y \in Pieces : pending_queue'[y] # {} => y \notin bitfield'
  BY <1>1, <1>2, <1>3, Zenon DEF QueueInv
<1>6. torrent' /\ running' => \A y \in Pieces \ (bitfield' \cup piece_priorities') :
                                 y \in need_queue' \/ pending_queue'[y] # {}
  BY <1>1, <1>2, Zenon DEF QueueInv
<1>7. \A y \in Pieces \ writing_pieces' : \A q \in pending_queue'[y] :
         q \in peers' /\ y \in peer'[q].pending_requests
  BY <1>1, <1>2, <1>3, Zenon DEF QueueInv
<1> QED
  BY <1>4, <1>5, <1>6, <1>7, Zenon DEF QueueInv

(* Timers and user commands.                                               *)
LEMMA QueueCleanup == QueueInv /\ TypeOK /\ Cleanup => QueueInv'
<1> SUFFICES ASSUME QueueInv, TypeOK, Cleanup PROVE QueueInv'
  OBVIOUS
<1> DEFINE S == pending_disconnects \cap peers
<1>1. release_pending_peer_or_requeue(S) /\ S \subseteq Peers
  BY Zenon DEF Cleanup, TypeOK
<1>2. \A p \in peers \ S :
         p \in peers' /\ peer'[p].pending_requests = peer[p].pending_requests
  BY Zenon DEF Cleanup, TypeOK
<1>3. UNCHANGED <<bitfield, piece_priorities, torrent, running, writing_pieces>>
  BY ZenonT(30) DEF Cleanup, config, loop, done
<1> HIDE DEF S
<1> QED
  BY <1>1, <1>2, <1>3, QueueRelease, Zenon

LEMMA QueuePauseTorrent == QueueInv /\ TypeOK /\ PauseTorrent => QueueInv'
<1> SUFFICES ASSUME QueueInv, TypeOK, PauseTorrent PROVE QueueInv'
  OBVIOUS
<1>1. PICK asked \in SUBSET Pieces : asked \cap bitfield = {} /\ DrainPending(asked)
  <2> DEFINE a == (UNION {peer[p].pending_requests : p \in peers}) \ bitfield
  <2>1. DrainPending(a)
    BY Zenon DEF PauseTorrent
  <2>2. a \subseteq Pieces
    BY PeerFields DEF TypeOK
  <2>3. ASSUME NEW x \in a PROVE x \notin bitfield
    OBVIOUS
  <2> HIDE DEF a
  <2> QED
    BY <2>1, <2>2, <2>3
<1>2. UNCHANGED <<bitfield, piece_priorities, torrent, running, writing_pieces>>
  BY Zenon DEF PauseTorrent, config, done
<1> QED
  BY <1>1, <1>2, Zenon DEF DrainPending, Pending, QueueInv, TypeOK

(* QueueInv is inductive.                                                  *)
LEMMA QueueNext == QueueInv /\ TypeOK /\ [Next]_vars => QueueInv'
<1> SUFFICES ASSUME QueueInv, TypeOK, [Next]_vars PROVE QueueInv'
  OBVIOUS
<1> USE DEF config, loop, done, stages, swarm
<1>1. CASE UNCHANGED vars
  BY <1>1, QueueFrame, Zenon DEF vars
<1>2. CASE Nested \/ MetadataReceived \/ Cleanup
  BY <1>2, QueueNested, QueueMetadataReceived, QueueCleanup, Zenon
<1>3. CASE Tick
  BY <1>3, QueueFrame, Zenon DEF Tick
<1>4. CASE \E paused \in BOOLEAN : Start(paused)
  BY <1>4, QueueFrame DEF Start
<1>5. ASSUME NEW v \in Validations, ValidationComplete(v) \/ ValidationFailed(v)
      PROVE  QueueInv'
  <2>1. CASE ValidationComplete(v)
    BY <2>1, QueueValidationComplete
  <2>2. CASE ValidationFailed(v) /\ PauseTorrent
    BY <2>2, QueuePauseTorrent, Zenon
  <2>3. CASE ValidationFailed(v) /\ ~PauseTorrent
    BY <2>3, QueueFrame DEF ValidationFailed
  <2> QED
    BY <1>5, <2>1, <2>2, <2>3
<1>6. ASSUME NEW p \in Peers, PeerStep(p) PROVE QueueInv'
  <2>1. CASE RegisterPeer(p) \/ PeerDisconnected(p) \/ PeerUnchoked(p) \/ PeerChoked(p)
    BY <2>1, QueueRegisterPeer, QueuePeerDisconnected, QueuePeerUnchoked, QueuePeerChoked
  <2>2. CASE \E S \in Bitfields : PeerBitfieldReceived(p, S)
    BY <2>2, QueuePeerBitfieldReceived, Zenon
  <2>3. CASE \E x \in HavePieces : PeerHavePiece(p, x)
    BY <2>3, QueuePeerHavePiece
  <2>4. CASE \E b \in Block : IncomingBlock(p, b)
    BY <2>4, QueueIncomingBlock, Zenon
  <2>5. CASE \E b \in Block : RequestLost(p, b)
    BY <2>5, QueueFrame, Zenon DEF RequestLost
  <2>6. CASE \E x \in Pieces : MerkleProofReceived(p, x)
    BY <2>6, QueueFrame DEF MerkleProofReceived
  <2> QED
    BY <1>6, <2>1, <2>2, <2>3, <2>4, <2>5, <2>6, Zenon DEF PeerStep
<1>7. ASSUME NEW p \in Peers, NEW x \in Pieces, TaskStep(p, x) PROVE QueueInv'
  BY <1>7, QueuePieceVerified, QueuePieceWrittenToDisk, QueuePieceWriteFailed, Zenon
     DEF TaskStep
<1>8. CASE \E S \in SkipSets : SetUserTorrentConfig(S)
  BY <1>8, QueueSetUserTorrentConfig, Zenon
<1>9. CASE \E S \in SUBSET Peers : PeerPolicyUpdated(S)
  BY <1>9, QueueFrame DEF PeerPolicyUpdated
<1>10. CASE Pause
  BY <1>10, QueuePauseTorrent, Zenon DEF Pause
<1>11. CASE Resume \/ Shutdown
  <2>1. UNCHANGED <<queues, bitfield, piece_priorities, peers, peer, torrent,
                    writing_pieces>>
    BY <1>11, Zenon DEF Resume, Shutdown
  <2>2. running' = running \/ running' = FALSE
    BY <1>11, Zenon DEF Resume, Shutdown
  <2> QED
    BY <2>1, <2>2, QueueFrame
<1>12. CASE Delete
  BY <1>12 DEF Delete, QueueInv
<1> QED
  BY <1>1, <1>2, <1>3, <1>4, <1>5, <1>6, <1>7, <1>8, <1>9, <1>10, <1>11, <1>12, Zenon
     DEF Next, UserStep

LEMMA QueueInvariant == Spec => []QueueInv
BY QueueInit, QueueNext, TypeCorrect, PTL DEF Spec

(* No wanted piece is ever forgotten by the piece manager's two queues,    *)
(* however the handlers of TorrentState::update are interleaved.           *)
THEOREM PieceTrackedAlways == Spec => []PieceTracked
<1>1. QueueInv => PieceTracked
  BY Zenon DEF QueueInv, PieceTracked, Pending, Skip
<1> QED
  BY <1>1, QueueInvariant, PTL

(* need_queue and pending_queue never share a piece.                       *)
THEOREM NeedPendingDisjointAlways == Spec => []NeedPendingDisjoint
<1>1. QueueInv => NeedPendingDisjoint
  BY Zenon DEF QueueInv, NeedPendingDisjoint, Pending
<1> QED
  BY <1>1, QueueInvariant, PTL

(* Every pending piece that is not being written has a registered peer     *)
(* working on it: removals, chokes, corrupt data and pauses never leave    *)
(* one that nobody fetches.                                                *)
THEOREM PendingIsWorkedAlways == Spec => []PendingIsWorked
<1>1. QueueInv => PendingIsWorked
  BY Zenon DEF QueueInv, PendingIsWorked, Pending
<1> QED
  BY <1>1, QueueInvariant, PTL

---------------------------------------------------------------------------
(* Writes.                                                                 *)

Early == torrent_status \in {"AwaitingMetadata", "Validating"}

WriteInv == running =>
  /\ storage <=> torrent /\ data_path
  /\ torrent_status = "AwaitingMetadata" <=> ~storage
  /\ started /\ Validated => storage
  /\ ~storage /\ ~Validated => bitfield = {}
  /\ Early => /\ \A p \in Peers : wire[p] = {}
              /\ \A t \in Peers \X Pieces : verify_tasks[t] = 0
              /\ v2_pending_data = {} /\ write_tasks = {}
  /\ writing_pieces = {t[2] : t \in write_tasks}
  /\ \A t, u \in write_tasks : t[2] = u[2] => t = u
  /\ \A t \in write_tasks : t[2] \notin bitfield

(* A step that touches neither Done pieces nor writes, and before the      *)
(* first validation is over starts nothing.                                *)
LEMMA WriteFrame ==
  ASSUME WriteInv, TypeOK,
         UNCHANGED <<torrent, storage, data_path, started, bitfield, write_tasks,
                     writing_pieces>>,
         running' => running,
         torrent_status' = torrent_status \/ (~Early /\ ~Early'),
         Early => /\ \A p \in Peers : wire'[p] \subseteq wire[p]
                  /\ UNCHANGED verify_tasks
                  /\ v2_pending_data' \subseteq v2_pending_data
  PROVE  WriteInv'
BY Zenon DEF WriteInv, Early

LEMMA WriteInit == Init => WriteInv
BY DEF Init, WriteInv, Early

LEMMA WriteNested == WriteInv /\ TypeOK /\ Nested => WriteInv'
<1> SUFFICES ASSUME WriteInv, TypeOK, Nested PROVE WriteInv'
  OBVIOUS
<1> DEFINE c == Head(todo)
<1>1. UNCHANGED <<torrent, storage, data_path, started, running, bitfield, write_tasks,
                  verify_tasks>>
  BY Zenon DEF Nested, config, loop, done, tasks
<1>2. CASE CheckCompletion
  <2>1. UNCHANGED <<writing_pieces, v2_pending_data, wire>>
    BY <1>2, Zenon DEF CheckCompletion
  <2>2. torrent_status' = torrent_status \/ (~Early /\ ~Early')
    BY <1>2, Zenon DEF CheckCompletion, Early
  <2> QED
    BY <1>1, <2>1, <2>2, WriteFrame, Zenon
<1>3. ASSUME NEW p \in c.to, AssignWork(p) PROVE WriteInv'
  <2>1. UNCHANGED <<writing_pieces, v2_pending_data>>
    BY <1>3, Zenon DEF AssignWork, stages
  <2>2. CASE ~CanAssign(p) \/ ~CanRequest(p)
    <3>1. UNCHANGED <<torrent_status, wire>>
      BY <1>3, <2>2, Zenon DEF AssignWork
    <3> QED
      BY <1>1, <2>1, <3>1, WriteFrame
  <2>3. CASE CanAssign(p) /\ CanRequest(p)
    <3>1. ~Early
      BY <2>3, Zenon DEF CanAssign, WriteInv, Early, Nested
    <3>2. torrent_status' \in {"Endgame", torrent_status}
      BY <1>3, <2>3, Zenon DEF AssignWork, Request
    <3> QED
      BY <1>1, <2>1, <3>1, <3>2, WriteFrame, Zenon DEF Early
  <2> QED
    BY <2>2, <2>3
<1>4. CASE UNCHANGED <<torrent_status, verifying_pieces, writing_pieces, v2_pending_data,
                       wire>>
  BY <1>1, <1>4, WriteFrame, Zenon
<1> QED
  BY <1>2, <1>3, <1>4, Zenon DEF Nested

LEMMA WriteMetadataReceived == WriteInv /\ TypeOK /\ MetadataReceived => WriteInv'
<1> SUFFICES ASSUME WriteInv, TypeOK, MetadataReceived PROVE WriteInv'
  OBVIOUS
<1> USE DEF loop, network
<1>1. running /\ ~storage /\ Early
  BY DEF MetadataReceived, Idle, WriteInv, Early
<1>2. /\ torrent' = TRUE /\ storage' = data_path /\ writing_pieces' = {}
      /\ bitfield' = IF Validated THEN Pieces ELSE {}
      /\ UNCHANGED <<data_path, started, running, v2_pending_data, wire, verify_tasks,
                     write_tasks>>
  BY DEF MetadataReceived
<1>3. torrent_status' = IF data_path THEN "Validating" ELSE torrent_status
  BY Zenon DEF MetadataReceived, StartValidation
<1>4. write_tasks = {}
  BY <1>1, Zenon DEF WriteInv
<1>5. ~started \/ ~Validated
  BY <1>1, Zenon DEF WriteInv
<1> QED
  BY <1>1, <1>2, <1>3, <1>4, <1>5, Zenon DEF WriteInv, Early

LEMMA WriteSetUserTorrentConfig ==
  ASSUME WriteInv, TypeOK, NEW S \in SkipSets, SetUserTorrentConfig(S)
  PROVE  WriteInv'
<1> USE DEF loop, network, done, stages
<1>1. running
  BY Zenon DEF SetUserTorrentConfig, Idle
<1>2. /\ data_path' = TRUE /\ storage' = torrent
      /\ UNCHANGED <<torrent, started, running, bitfield, v2_pending_data, wire,
                     verify_tasks, write_tasks, writing_pieces>>
      /\ torrent_status' = IF torrent /\ ~storage THEN "Validating" ELSE torrent_status
  BY Zenon DEF SetUserTorrentConfig, StartValidation
<1>3. storage => torrent
  BY <1>1, Zenon DEF WriteInv
<1> QED
  BY <1>1, <1>2, <1>3, Zenon DEF WriteInv, Early, TypeOK

LEMMA WriteStart ==
  ASSUME WriteInv, TypeOK, NEW paused \in BOOLEAN, Start(paused)
  PROVE  WriteInv'
<1>1. /\ UNCHANGED <<torrent, storage, data_path, running, bitfield, write_tasks,
                     verify_tasks, writing_pieces, v2_pending_data, wire, torrent_status>>
      /\ started' = TRUE /\ (Validated => storage)
  BY Zenon DEF Start, config, done, stages, network
<1> QED
  BY <1>1, Zenon DEF WriteInv, Early

LEMMA WriteValidationComplete ==
  ASSUME WriteInv, TypeOK, NEW v, ValidationComplete(v)
  PROVE  WriteInv'
<1> USE DEF config, loop, network, done
<1>1. UNCHANGED <<torrent, storage, data_path, started, running, v2_pending_data, wire,
                  verify_tasks, write_tasks>>
  BY Zenon DEF ValidationComplete
<1>2. CASE torrent_status = "Validating"
  <2>1. torrent_status' = "Standard" /\ writing_pieces' = {}
    BY <1>2, Zenon DEF ValidationComplete
  <2>2. running => storage /\ write_tasks = {}
    BY <1>2, Zenon DEF WriteInv, Early
  <2> QED
    BY <1>1, <2>1, <2>2 DEF WriteInv, Early
<1>3. CASE torrent_status # "Validating"
  <2>1. UNCHANGED <<torrent_status, bitfield, writing_pieces>>
    BY <1>3, Zenon DEF ValidationComplete
  <2> QED
    BY <1>1, <2>1, WriteFrame, Zenon
<1> QED
  BY <1>2, <1>3

(* Peer events: what is outstanding at a session only shrinks.             *)
LEMMA WriteIncomingBlock ==
  ASSUME WriteInv, TypeOK, NEW p \in Peers, NEW b \in Block, IncomingBlock(p, b)
  PROVE  WriteInv'
<1>1. ~Early
  BY Zenon DEF IncomingBlock, Looping, Idle, WriteInv
<1> QED
  BY <1>1, WriteFrame, Zenon DEF IncomingBlock, config, loop, done

LEMMA WritePeerStep ==
  ASSUME WriteInv, TypeOK, NEW p \in Peers, PeerStep(p)
  PROVE  WriteInv'
<1> USE DEF config, loop, done, stages, network, tasks, swarm
<1>1. CASE RegisterPeer(p)
  BY <1>1, WriteFrame, Zenon DEF RegisterPeer
<1>2. CASE PeerDisconnected(p)
  <2>1. \A q \in Peers : wire'[q] \subseteq wire[q]
    BY <1>2 DEF PeerDisconnected, TypeOK
  <2> QED
    BY <1>2, <2>1, WriteFrame, Zenon DEF PeerDisconnected
<1>3. ASSUME NEW S \in Bitfields, PeerBitfieldReceived(p, S) PROVE WriteInv'
  BY <1>3, WriteFrame DEF PeerBitfieldReceived, PeerMessage
<1>4. CASE PeerUnchoked(p)
  BY <1>4, WriteFrame, Zenon DEF PeerUnchoked, PeerMessage
<1>5. CASE PeerChoked(p)
  <2>1. \A q \in Peers : wire'[q] \subseteq wire[q]
    BY <1>5 DEF PeerChoked, TypeOK
  <2> QED
    BY <1>5, <2>1, WriteFrame, Zenon DEF PeerChoked
<1>6. ASSUME NEW x \in HavePieces, PeerHavePiece(p, x) PROVE WriteInv'
  BY <1>6, WriteFrame, Zenon DEF PeerHavePiece, PeerMessage
<1>7. ASSUME NEW b \in Block, RequestLost(p, b) PROVE WriteInv'
  <2>1. \A q \in Peers : wire'[q] \subseteq wire[q]
    BY <1>7, Zenon DEF RequestLost, TypeOK
  <2> QED
    BY <1>7, <2>1, WriteFrame, Zenon DEF RequestLost
<1>8. ASSUME NEW x \in Pieces, MerkleProofReceived(p, x) PROVE WriteInv'
  <2>1. ~Early
    BY <1>8, Zenon DEF MerkleProofReceived, FromPeer, Looping, Idle, WriteInv
  <2> QED
    BY <1>8, <2>1, WriteFrame, Zenon DEF MerkleProofReceived
<1> QED
  BY <1>1, <1>2, <1>3, <1>4, <1>5, <1>6, <1>7, <1>8, WriteIncomingBlock, Zenon DEF PeerStep

LEMMA WritePieceVerified ==
  ASSUME WriteInv, TypeOK, NEW p \in Peers, NEW x \in Pieces, NEW valid \in BOOLEAN,
         PieceVerified(p, x, valid)
  PROVE  WriteInv'
<1> USE DEF config, loop, done
<1>1. running /\ ~Early /\ storage
  <2>1. running /\ verify_tasks[<<p, x>>] # 0 /\ <<p, x>> \in Peers \X Pieces
    BY DEF PieceVerified, Looping, Idle, TypeOK
  <2>2. ~Early
    BY <2>1, Zenon DEF WriteInv
  <2> QED
    BY <2>1, <2>2, Zenon DEF WriteInv, Early
<1>2. UNCHANGED <<torrent, storage, data_path, started, running, torrent_status, bitfield>>
  BY Zenon DEF PieceVerified
<1>3. CASE valid /\ ~Unneeded(x)
  <2>1. /\ writing_pieces' = writing_pieces \cup {x}
        /\ write_tasks' = write_tasks \cup {<<p, x>>}
    BY <1>1, <1>3, Zenon DEF PieceVerified
  <2>2. x \notin bitfield /\ x \notin writing_pieces
    BY <1>3, Zenon DEF Unneeded
  <2>3. \A t \in write_tasks : t[2] # x
    BY <1>1, <2>2, Zenon DEF WriteInv
  <2>4. writing_pieces' = {t[2] : t \in write_tasks'}
    <3>1. writing_pieces = {t[2] : t \in write_tasks}
      BY <1>1, Zenon DEF WriteInv
    <3>2. \A t \in write_tasks' : t \in write_tasks \/ t[2] = x
      BY <2>1
    <3>3. \E t \in write_tasks' : t[2] = x
      <4>1. <<p, x>> \in write_tasks'
        BY <2>1
      <4>2. <<p, x>>[2] = x
        OBVIOUS
      <4> QED
        BY <4>1, <4>2, Zenon
    <3>4. write_tasks \subseteq write_tasks'
      BY <2>1, Zenon
    <3> QED
      BY <2>1, <3>1, <3>2, <3>3, <3>4, Zenon
  <2>5. \A t, u \in write_tasks' : t[2] = u[2] => t = u
    BY <1>1, <2>1, <2>3 DEF WriteInv
  <2>6. \A t \in write_tasks' : t[2] \notin bitfield'
    BY <1>1, <1>2, <2>1, <2>2 DEF WriteInv
  <2> QED
    BY <1>1, <1>2, <2>4, <2>5, <2>6, Zenon DEF WriteInv, Early
<1>4. CASE ~(valid /\ ~Unneeded(x))
  <2>1. UNCHANGED <<writing_pieces, write_tasks>>
    BY <1>4, Zenon DEF PieceVerified
  <2> QED
    BY <1>1, <1>2, <2>1, WriteFrame, Zenon
<1> QED
  BY <1>3, <1>4, Zenon

(* The end of a write, successful or not, frees exactly its own piece.     *)
LEMMA WriteEnds ==
  ASSUME WriteInv, running, NEW p \in Peers, NEW x \in Pieces, <<p, x>> \in write_tasks,
         write_tasks' = write_tasks \ {<<p, x>>}, writing_pieces' = writing_pieces \ {x}
  PROVE  /\ writing_pieces' = {t[2] : t \in write_tasks'}
         /\ \A t, u \in write_tasks' : t[2] = u[2] => t = u
         /\ \A t \in write_tasks' : t[2] # x /\ t[2] \notin bitfield
         /\ ~Early /\ storage /\ x \notin bitfield
<1>1. ~Early /\ storage /\ x \notin bitfield
  BY Zenon DEF WriteInv, Early
<1>2. \A t \in write_tasks' : t \in write_tasks /\ t[2] # x
  BY Zenon DEF WriteInv
<1>3. \A t \in write_tasks : t[2] = x \/ t \in write_tasks'
  BY DEF WriteInv
<1>4. writing_pieces' = {t[2] : t \in write_tasks'}
  BY <1>2, <1>3, Zenon DEF WriteInv
<1> QED
  BY <1>1, <1>2, <1>4, Zenon DEF WriteInv

LEMMA WritePieceWrittenToDisk ==
  ASSUME WriteInv, TypeOK, NEW p \in Peers, NEW x \in Pieces, PieceWrittenToDisk(p, x)
  PROVE  WriteInv' /\ bitfield' = bitfield \cup {x}
<1>1. running /\ <<p, x>> \in write_tasks
  BY Zenon DEF PieceWrittenToDisk, Looping, Idle
<1>2. ~Early /\ x \notin bitfield /\ storage
  BY <1>1 DEF WriteInv, Early
<1>3. /\ write_tasks' = write_tasks \ {<<p, x>>} /\ writing_pieces' = writing_pieces \ {x}
      /\ bitfield' = bitfield \cup {x}
  BY <1>2 DEF PieceWrittenToDisk, WriteOver, mark_as_complete, Early
<1>4. UNCHANGED <<torrent, storage, data_path, started, running, torrent_status>>
  BY Zenon DEF PieceWrittenToDisk, config, loop
<1>5. \A t \in write_tasks' : t[2] \notin bitfield'
  BY <1>1, <1>3, WriteEnds, Zenon
<1> QED
  BY <1>1, <1>2, <1>3, <1>4, <1>5, WriteEnds, Zenon DEF WriteInv, Early

LEMMA WritePieceWriteFailed ==
  ASSUME WriteInv, TypeOK, NEW p \in Peers, NEW x \in Pieces, PieceWriteFailed(p, x)
  PROVE  WriteInv' /\ bitfield' = bitfield
<1>1. running /\ <<p, x>> \in write_tasks
  BY DEF PieceWriteFailed, Looping, Idle
<1>2. ~Early /\ x \notin bitfield /\ storage
  BY <1>1 DEF WriteInv, Early
<1>3. /\ write_tasks' = write_tasks \ {<<p, x>>} /\ writing_pieces' = writing_pieces \ {x}
      /\ bitfield' = bitfield
  BY <1>2, Zenon DEF PieceWriteFailed
<1>4. UNCHANGED <<torrent, storage, data_path, started, running, torrent_status>>
  BY Zenon DEF PieceWriteFailed, config, loop
<1> QED
  BY <1>1, <1>2, <1>3, <1>4, WriteEnds DEF WriteInv, Early

(* Cleanup may declare Done on its own, but only with storage in place.    *)
LEMMA WriteCleanup == WriteInv /\ TypeOK /\ Cleanup => WriteInv'
<1> SUFFICES ASSUME WriteInv, TypeOK, Cleanup PROVE WriteInv'
  OBVIOUS
<1>1. /\ UNCHANGED <<torrent, storage, data_path, started, running, bitfield, write_tasks,
                     verify_tasks, writing_pieces, wire>>
      /\ v2_pending_data' \subseteq v2_pending_data
      /\ torrent_status' = IF Seeding THEN "Done" ELSE torrent_status
  BY Zenon DEF Cleanup, config, loop, done, tasks
<1>2. running /\ started
  BY Zenon DEF Cleanup, Looping, Idle
<1>3. Seeding => storage
  BY <1>2, TorrentAssumption DEF Seeding, WriteInv, TypeOK
<1> QED
  BY <1>1, <1>2, <1>3 DEF WriteInv, Early

(* WriteInv is inductive.                                                  *)
LEMMA WriteNext == WriteInv /\ TypeOK /\ [Next]_vars => WriteInv'
<1> SUFFICES ASSUME WriteInv, TypeOK, [Next]_vars PROVE WriteInv'
  OBVIOUS
<1> USE DEF config, loop, done, stages, swarm, network, tasks
<1>1. CASE UNCHANGED vars
  BY <1>1, WriteFrame, Zenon DEF vars
<1>2. CASE Nested \/ MetadataReceived \/ Cleanup
  BY <1>2, WriteNested, WriteMetadataReceived, WriteCleanup
<1>3. CASE Tick
  BY <1>3, WriteFrame DEF Tick
<1>4. CASE \E paused \in BOOLEAN : Start(paused)
  BY <1>4, WriteStart, Zenon
<1>5. CASE PauseTorrent
  BY <1>5, WriteFrame, Zenon DEF PauseTorrent
<1>6. ASSUME NEW v \in Validations, ValidationComplete(v) \/ ValidationFailed(v)
      PROVE  WriteInv'
  <2>1. CASE ValidationComplete(v)
    BY <2>1, WriteValidationComplete
  <2>2. CASE ValidationFailed(v) /\ ~PauseTorrent
    BY <2>2, WriteFrame DEF ValidationFailed
  <2> QED
    BY <1>5, <1>6, <2>1, <2>2
<1>7. CASE \E p \in Peers : PeerStep(p)
  BY <1>7, WritePeerStep
<1>8. ASSUME NEW p \in Peers, NEW x \in Pieces, TaskStep(p, x) PROVE WriteInv'
  BY <1>8, WritePieceVerified, WritePieceWrittenToDisk, WritePieceWriteFailed
     DEF TaskStep
<1>9. CASE \E S \in SkipSets : SetUserTorrentConfig(S)
  BY <1>9, WriteSetUserTorrentConfig
<1>10. CASE \E S \in SUBSET Peers : PeerPolicyUpdated(S)
  BY <1>10, WriteFrame DEF PeerPolicyUpdated
<1>11. CASE Resume
  BY <1>11, WriteFrame DEF Resume
<1>12. CASE Shutdown \/ Delete
  <2>1. running' = FALSE
    BY <1>12, Zenon DEF Shutdown, Delete
  <2> QED
    BY <2>1 DEF WriteInv
<1> QED
  BY <1>1, <1>2, <1>3, <1>4, <1>5, <1>6, <1>7, <1>8, <1>9, <1>10, <1>11, <1>12
     DEF Next, UserStep, Pause

LEMMA WriteInvariant == Spec => []WriteInv
BY WriteInit, WriteNext, TypeCorrect, PTL DEF Spec

(* While the manager runs, writing_pieces names exactly the pieces that a  *)
(* spawned write is storing, and no piece is written twice at a time.      *)
THEOREM WritesTrackedAlways == Spec => []WritesTracked
<1>1. WriteInv => WritesTracked
  BY DEF WriteInv, WritesTracked
<1> QED
  BY <1>1, WriteInvariant, PTL

---------------------------------------------------------------------------
(* Done pieces.                                                            *)

(* The steps that change what is Done: metadata arrives, a validation      *)
(* reports, a write reports, the torrent is deleted.                       *)
DoneStep ==
  \/ UNCHANGED <<torrent, bitfield, pieces_remaining>> /\ disk \subseteq disk'
  \/ /\ ~torrent /\ bitfield' = IF Validated THEN Pieces ELSE {}
     /\ pieces_remaining' = Cardinality(Pieces \ bitfield')
     /\ UNCHANGED disk
  \/ mark_as_complete(ValidationResult) /\ UNCHANGED <<torrent, disk>>
  \/ \E x \in Pieces : /\ mark_as_complete({x}) /\ disk' = disk \cup {x}
                       /\ UNCHANGED torrent
  \/ /\ running' = FALSE /\ bitfield' = {}
     /\ pieces_remaining' = IF torrent THEN Cardinality(Pieces) ELSE 0
     /\ UNCHANGED <<torrent, disk>>

LEMMA NextIsDoneStep == TypeOK /\ WriteInv /\ [Next]_vars => DoneStep
<1> SUFFICES ASSUME TypeOK, WriteInv, [Next]_vars PROVE DoneStep
  OBVIOUS
<1> USE DEF config, done, tasks
<1>1. CASE UNCHANGED vars
  BY <1>1 DEF vars, DoneStep
<1>2. CASE MetadataReceived
  BY <1>2, Zenon DEF MetadataReceived, DoneStep
<1>3. CASE Nested \/ Tick \/ Cleanup
  BY <1>3, Zenon DEF Nested, Tick, Cleanup, DoneStep
<1>4. CASE \E paused \in BOOLEAN : Start(paused)
  BY <1>4, Zenon DEF Start, DoneStep
<1>5. CASE PauseTorrent
  BY <1>5 DEF PauseTorrent, DoneStep
<1>6. ASSUME NEW v \in Validations, ValidationComplete(v) \/ ValidationFailed(v)
      PROVE  DoneStep
  <2>1. CASE ValidationComplete(v) /\ torrent_status = "Validating"
    BY <2>1 DEF ValidationComplete, DoneStep
  <2>2. CASE ValidationComplete(v) /\ torrent_status # "Validating"
    BY <2>2 DEF ValidationComplete, DoneStep
  <2>3. CASE ValidationFailed(v) /\ ~PauseTorrent
    BY <2>3 DEF ValidationFailed, DoneStep
  <2> QED
    BY <1>5, <1>6, <2>1, <2>2, <2>3
<1>7. ASSUME NEW p \in Peers, PeerStep(p) PROVE DoneStep
  <2>1. UNCHANGED <<torrent, bitfield, pieces_remaining, disk>>
    BY <1>7, Zenon DEF PeerStep, RegisterPeer, PeerDisconnected, PeerBitfieldReceived, PeerMessage,
       PeerUnchoked, PeerChoked, PeerHavePiece, IncomingBlock, RequestLost,
       MerkleProofReceived
  <2> QED
    BY <2>1 DEF DoneStep
<1>8. ASSUME NEW p \in Peers, NEW x \in Pieces, TaskStep(p, x) PROVE DoneStep
  <2>1. CASE \E valid \in BOOLEAN : PieceVerified(p, x, valid)
    BY <2>1 DEF PieceVerified, DoneStep
  <2>2. CASE PieceWrittenToDisk(p, x)
    <3>1. running /\ <<p, x>> \in write_tasks
      BY <2>2, Zenon DEF PieceWrittenToDisk, Looping, Idle
    <3>2. ~Early /\ x \notin bitfield
      BY <3>1 DEF WriteInv
    <3>3. mark_as_complete({x}) /\ disk' = disk \cup {x} /\ UNCHANGED torrent
      BY <2>2, <3>2 DEF PieceWrittenToDisk, Written, Early
    <3> QED
      BY <3>3, Zenon DEF DoneStep
  <2>3. CASE PieceWriteFailed(p, x)
    <3>1. running /\ <<p, x>> \in write_tasks
      BY <2>3 DEF PieceWriteFailed, Looping, Idle
    <3>2. x \notin bitfield
      BY <3>1 DEF WriteInv
    <3>3. UNCHANGED <<torrent, bitfield, pieces_remaining>> /\ disk \subseteq disk'
      BY <2>3, <3>2 DEF PieceWriteFailed
    <3> QED
      BY <3>3, Zenon DEF DoneStep
  <2> QED
    BY <1>8, <2>1, <2>2, <2>3 DEF TaskStep
<1>9. CASE \E S \in SkipSets : SetUserTorrentConfig(S)
  BY <1>9, Zenon DEF SetUserTorrentConfig, DoneStep
<1>10. CASE \E S \in SUBSET Peers : PeerPolicyUpdated(S)
  BY <1>10 DEF PeerPolicyUpdated, DoneStep
<1>11. CASE Resume \/ Shutdown
  BY <1>11, Zenon DEF Resume, Shutdown, DoneStep
<1>12. CASE Delete
  BY <1>12 DEF Delete, DoneStep
<1> QED
  BY <1>1, <1>2, <1>3, <1>4, <1>5, <1>6, <1>7, <1>8, <1>9, <1>10, <1>11, <1>12
     DEF Next, UserStep, Pause

(* Done is never taken back while the manager runs: PieceWriteFailed would *)
(* reset the piece of a failed write, and that piece is never Done.        *)
THEOREM DoneIsStableAlways == Spec => DoneIsStable
<1>1. TypeOK /\ WriteInv /\ [Next]_vars =>
        [torrent /\ running' => bitfield \subseteq bitfield']_vars
  BY NextIsDoneStep, Zenon DEF DoneStep, mark_as_complete
<1> QED
  BY <1>1, TypeCorrect, WriteInvariant, PTL DEF Spec, DoneIsStable

(* The counter that mark_as_complete decrements piece by piece, and that   *)
(* PieceWriteFailed increments, is the number of missing pieces.           *)
THEOREM RemainingExactAlways == Spec => []RemainingExact
<1>1. Init => RemainingExact
  BY DEF Init, RemainingExact
<1>2. ASSUME TypeOK, RemainingExact, torrent,
             NEW R, R \subseteq Pieces, mark_as_complete(R)
      PROVE  pieces_remaining' = Cardinality(Pieces \ bitfield')
  <2> DEFINE missing == Pieces \ bitfield
  <2>1. missing \subseteq Pieces /\ R \ bitfield = missing \cap R
    BY <1>2
  <2>2. IsFiniteSet(missing) /\ Cardinality(missing) \in Nat
    BY <2>1, FiniteCounts
  <2>3. missing \ R = Pieces \ bitfield'
    BY <1>2 DEF mark_as_complete
  <2>4. Cardinality(missing \ R) = Cardinality(missing) - Cardinality(missing \cap R)
    BY <2>2, FS_Difference, Zenon
  <2>5. Cardinality(missing \cap R) \in Nat /\ Cardinality(missing \ R) \in Nat
    BY <2>1, FiniteCounts
  <2>6. pieces_remaining' = Monus(Cardinality(missing), Cardinality(missing \cap R))
    BY <1>2, <2>1 DEF mark_as_complete, RemainingExact
  <2> HIDE DEF missing
  <2> QED
    BY <2>2, <2>3, <2>4, <2>5, <2>6 DEF Monus
<1>3. ASSUME TypeOK, WriteInv, RemainingExact, [Next]_vars PROVE RemainingExact'
  <2>1. ValidationResult \subseteq Pieces
    BY TorrentAssumption DEF ValidationResult
  <2>2. DoneStep
    BY <1>3, NextIsDoneStep
  <2>3. CASE mark_as_complete(ValidationResult) /\ UNCHANGED <<torrent, disk>>
    BY <1>2, <1>3, <2>1, <2>3 DEF RemainingExact
  <2>4. ASSUME NEW x \in Pieces, mark_as_complete({x}), UNCHANGED torrent
        PROVE  RemainingExact'
    BY <1>2, <1>3, <2>4 DEF RemainingExact
  <2>5. CASE /\ running' = FALSE /\ bitfield' = {} /\ UNCHANGED torrent
             /\ pieces_remaining' = IF torrent THEN Cardinality(Pieces) ELSE 0
    <3>1. Pieces \ bitfield' = Pieces
      BY <2>5
    <3> QED
      BY <2>5, <3>1 DEF RemainingExact
  <2> QED
    BY <1>3, <2>2, <2>3, <2>4, <2>5, Zenon DEF DoneStep, RemainingExact
<1> QED
  BY <1>1, <1>3, TypeCorrect, WriteInvariant, PTL DEF Spec

(* If the files are complete whenever a restored torrent claims to be      *)
(* validated, then every Done piece is on disk, whatever is written, fails *)
(* or is validated again later.                                            *)
THEOREM DoneOnDiskAlways ==
  ASSUME Validated => OnDisk = Pieces
  PROVE  Spec => []DoneOnDisk
<1> DEFINE DiskInv == OnDisk \subseteq disk /\ bitfield \subseteq disk
<1>1. Init => DiskInv
  BY DEF Init
<1>2. ASSUME TypeOK, WriteInv, DiskInv, [Next]_vars PROVE DiskInv'
  <2>1. ValidationResult \subseteq OnDisk
    BY TorrentAssumption DEF ValidationResult
  <2> QED
    BY <1>2, <2>1, NextIsDoneStep, Zenon DEF DoneStep, mark_as_complete
<1>3. DiskInv => DoneOnDisk
  BY DEF DoneOnDisk
<1> QED
  BY <1>1, <1>2, <1>3, TypeCorrect, WriteInvariant, PTL DEF Spec

---------------------------------------------------------------------------
(* Requests.                                                               *)

(* A record that asks for pieces of a peer that has them, does not choke   *)
(* us and was told of our interest.                                        *)
Disciplined(q) == q.pending_requests # {} =>
  q.pending_requests \subseteq q.has /\ ~q.peer_choking /\ q.am_interested

(* A step that leaves every registered peer disciplined if it was, and     *)
(* registers only disciplined ones.                                        *)
LEMMA DisciplineFrame ==
  ASSUME RequestDiscipline,
         \A p \in peers' : \/ Disciplined(peer'[p])
                           \/ p \in peers /\ (Disciplined(peer[p]) => Disciplined(peer'[p]))
  PROVE  RequestDiscipline'
BY Zenon DEF RequestDiscipline, Disciplined

LEMMA DisciplinedNew == Disciplined(NewPeer) /\ \A q \in PeerState :
  Disciplined(Retired(q)) /\ Disciplined(Choked(q))
BY DEF Disciplined, NewPeer, Retired, Choked, PeerState

LEMMA DisciplineAssignWork ==
  ASSUME RequestDiscipline, TypeOK, NEW p \in Peers, AssignWork(p), UNCHANGED peers
  PROVE  RequestDiscipline'
<1>0. peer[p] \in PeerState
  BY DEF TypeOK
<1>1. CASE ~CanAssign(p)
  BY <1>1, DisciplineFrame DEF AssignWork
<1>2. CASE CanAssign(p) /\ ~CanRequest(p)
  <2>1. peer' = [peer EXCEPT ![p].am_interested = ShouldBeInterested(p)]
    BY <1>2 DEF AssignWork
  <2>2. \A q \in Peers \ {p} : peer'[q] = peer[q]
    BY <2>1 DEF TypeOK
  <2>3. peer'[p] = [peer[p] EXCEPT !.am_interested = ShouldBeInterested(p)]
    BY <2>1 DEF TypeOK
  <2>4. peer[p].pending_requests # {} => ShouldBeInterested(p)
    BY DEF ShouldBeInterested
  <2>5. Disciplined(peer[p]) => Disciplined(peer'[p])
    BY <1>0, <2>3, <2>4 DEF Disciplined, PeerState
  <2> QED
    BY <2>2, <2>5, DisciplineFrame, Zenon DEF TypeOK
<1>3. CASE CanAssign(p) /\ CanRequest(p)
  <2> DEFINE slots == PipelineDepth - peer[p].inflight
  <2>1. PICK B \in Batches(Requestable(p, peer[p].pending_requests \ Busy), slots) :
          \E C \in NewRequests(p, slots - Cardinality(B)) :
             Request(p, B \cup C, {b[1] : b \in C})
    BY <1>3, Zenon DEF AssignWork
  <2>2. PICK C \in NewRequests(p, slots - Cardinality(B)) :
             Request(p, B \cup C, {b[1] : b \in C})
    BY <2>1, Zenon
  <2> DEFINE new == {b[1] : b \in C}
             n == slots - Cardinality(B)
             cut(D) == {E \in Batches(Requestable(p, D), n) :
                          Cardinality({x \in D : Requestable(p, {x}) \cap E \notin
                                         {{}, Requestable(p, {x})}}) <= 1}
  <2>3. C \in UNION {cut(D) : D \in Batches(Candidates(p), n)}
    BY Zenon DEF NewRequests
  <2>4. \A D : cut(D) \subseteq SUBSET Requestable(p, D)
    BY Zenon DEF Batches
  <2> HIDE DEF cut, n
  <2>5. new \subseteq (need_queue \cup Pending) \cap peer[p].has
    <3>1. PICK D \in Batches(Candidates(p), n) : C \in cut(D)
      BY <2>3, Zenon
    <3>2. D \subseteq Candidates(p) /\ C \subseteq Requestable(p, D)
      BY <2>4, <3>1, Zenon DEF Batches
    <3>3. D \subseteq (need_queue \cup Pending) \cap peer[p].has
      BY <3>2, Zenon DEF Candidates
    <3>4. C \subseteq (D \ bitfield) \X Blocks
      BY <3>2, Zenon DEF Requestable, BlocksOf
    <3> QED
      BY <3>3, <3>4
  <2> HIDE DEF new
  <2>6. new # {} \/ peer[p].pending_requests # {} => ShouldBeInterested(p)
    BY <1>3, <2>5 DEF ShouldBeInterested, CanRequest
  <2> DEFINE i == ShouldBeInterested(p)
             r == peer[p].pending_requests \cup new
             a == peer[p].active_blocks \cup (B \cup C)
             k == peer[p].inflight + Cardinality(B \cup C)
             q0 == [peer[p] EXCEPT !.am_interested = i, !.pending_requests = r,
                                   !.active_blocks = a, !.inflight = k]
  <2>7. peer' = [peer EXCEPT ![p] = q0]
    BY <1>0, <2>2, ZenonT(30) DEF Request, TypeOK, PeerState, new
  <2>8. Disciplined(peer[p]) => Disciplined(q0)
    <3>1. q0.pending_requests = r /\ q0.has = peer[p].has /\ q0.am_interested = i
             /\ q0.peer_choking = peer[p].peer_choking
      BY <1>0 DEF PeerState
    <3> HIDE DEF q0
    <3> QED
      BY <1>3, <2>5, <2>6, <3>1, Zenon DEF Disciplined, CanRequest
  <2> HIDE DEF q0
  <2> QED
    BY <2>7, <2>8, DisciplineFrame, Zenon DEF TypeOK
<1> QED
  BY <1>1, <1>2, <1>3

(* A bitfield, an unchoke or a have only adds to what a peer may be asked. *)
LEMMA DisciplineMessage ==
  ASSUME RequestDiscipline, TypeOK, NEW p \in Peers, p \in peers, NEW record,
         PeerMessage(p, record), Disciplined(peer[p]) => Disciplined(record)
  PROVE  RequestDiscipline'
BY DisciplineFrame DEF PeerMessage, TypeOK

LEMMA DisciplineUnrequest ==
  ASSUME RequestDiscipline, TypeOK, NEW S, NEW x, peer' = Unrequest(S, x), UNCHANGED peers
  PROVE  RequestDiscipline'
<1>1. \A q \in PeerState : Disciplined(q) =>
         Disciplined([q EXCEPT !.pending_requests = @ \ {x}])
  BY Zenon DEF Disciplined, PeerState
<1> QED
  BY <1>1, DisciplineFrame DEF Unrequest, TypeOK

LEMMA DisciplinePeerStep ==
  ASSUME RequestDiscipline, TypeOK, NEW p \in Peers, PeerStep(p)
  PROVE  RequestDiscipline'
<1> USE DEF swarm
<1>0. peer[p] \in PeerState
  BY DEF TypeOK
<1>1. CASE RegisterPeer(p)
  BY <1>1, DisciplinedNew, DisciplineFrame DEF RegisterPeer, TypeOK
<1>2. CASE PeerDisconnected(p)
  <2>1. UNCHANGED <<peers, peer>> \/ \E S : RemovePeers(S)
    BY <1>2, Zenon DEF PeerDisconnected
  <2> QED
    BY <2>1, DisciplineFrame, Zenon DEF RemovePeers, TypeOK
<1>3. ASSUME NEW S \in Bitfields, PeerBitfieldReceived(p, S) PROVE RequestDiscipline'
  <2>1. CASE peer[p].has = {}
    <3> DEFINE record == [peer[p] EXCEPT !.known = TRUE, !.has = S]
    <3>1. p \in peers /\ PeerMessage(p, record)
      BY <1>3, <2>1 DEF PeerBitfieldReceived, FromPeer
    <3>2. Disciplined(peer[p]) => Disciplined(record)
      BY <1>0, <2>1 DEF Disciplined, PeerState
    <3> HIDE DEF record
    <3> QED
      BY <3>1, <3>2, DisciplineMessage
  <2>2. CASE peer[p].has # {}
    BY <1>3, <2>2, DisciplineFrame DEF PeerBitfieldReceived
  <2> QED
    BY <2>1, <2>2
<1>4. CASE PeerUnchoked(p)
  <2> DEFINE record == [peer[p] EXCEPT !.peer_choking = FALSE]
  <2>1. p \in peers /\ PeerMessage(p, record)
    BY <1>4 DEF PeerUnchoked, FromPeer
  <2>2. Disciplined(peer[p]) => Disciplined(record)
    BY <1>0, Zenon DEF Disciplined, PeerState
  <2> HIDE DEF record
  <2> QED
    BY <2>1, <2>2, DisciplineMessage
<1>5. CASE PeerChoked(p)
  BY <1>0, <1>5, DisciplinedNew, DisciplineFrame DEF PeerChoked, TypeOK
<1>6. ASSUME NEW x \in HavePieces, PeerHavePiece(p, x) PROVE RequestDiscipline'
  <2> DEFINE h == IF peer[p].known THEN peer[p].has \cup {x} ELSE peer[p].has
             record == [peer[p] EXCEPT !.has = h]
  <2>1. p \in peers /\ PeerMessage(p, record)
    BY <1>6 DEF PeerHavePiece, FromPeer
  <2>2. Disciplined(peer[p]) => Disciplined(record)
    BY <1>0 DEF Disciplined, PeerState
  <2> HIDE DEF record
  <2> QED
    BY <2>1, <2>2, DisciplineMessage
<1>7. ASSUME NEW b \in Block, IncomingBlock(p, b) PROVE RequestDiscipline'
  <2>1. \A q \in Peers : Disciplined(peer[q]) => Disciplined(peer'[q])
    BY <1>7 DEF IncomingBlock, Delivered, Disciplined, TypeOK, PeerState
  <2> QED
    BY <1>7, <2>1, DisciplineFrame DEF IncomingBlock, TypeOK
<1>8. ASSUME NEW b \in Block, RequestLost(p, b) PROVE RequestDiscipline'
  BY <1>8, DisciplineFrame DEF RequestLost
<1>9. ASSUME NEW x \in Pieces, MerkleProofReceived(p, x) PROVE RequestDiscipline'
  BY <1>9, DisciplineFrame DEF MerkleProofReceived
<1> QED
  BY <1>1, <1>2, <1>3, <1>4, <1>5, <1>6, <1>7, <1>8, <1>9 DEF PeerStep

LEMMA DisciplineTaskStep ==
  ASSUME RequestDiscipline, TypeOK, NEW p \in Peers, NEW x \in Pieces, TaskStep(p, x)
  PROVE  RequestDiscipline'
<1>1. ASSUME NEW valid \in BOOLEAN, PieceVerified(p, x, valid) PROVE RequestDiscipline'
  <2>1. UNCHANGED peer \/ \E S : peer' = Unrequest(S, x)
    BY <1>1, Zenon DEF PieceVerified
  <2> QED
    BY <1>1, <2>1, DisciplineFrame, DisciplineUnrequest DEF PieceVerified
<1>2. CASE PieceWrittenToDisk(p, x)
  <2>1. UNCHANGED peer \/ \E S : peer' = Unrequest(S, x)
    BY <1>2, ZenonT(30) DEF PieceWrittenToDisk
  <2> QED
    BY <1>2, <2>1, DisciplineFrame, DisciplineUnrequest DEF PieceWrittenToDisk
<1>3. CASE PieceWriteFailed(p, x)
  BY <1>3, DisciplineFrame DEF PieceWriteFailed, swarm
<1> QED
  BY <1>1, <1>2, <1>3 DEF TaskStep

LEMMA DisciplineNext == RequestDiscipline /\ TypeOK /\ [Next]_vars => RequestDiscipline'
<1> SUFFICES ASSUME RequestDiscipline, TypeOK, [Next]_vars PROVE RequestDiscipline'
  OBVIOUS
<1> USE DEF swarm
<1>1. CASE UNCHANGED vars
  BY <1>1, DisciplineFrame DEF vars
<1>2. CASE Nested
  <2> DEFINE c == Head(todo)
  <2>1. c \in Call
    BY <1>2 DEF Nested, TypeOK
  <2>2. c.to \subseteq Peers
    BY <2>1 DEF Call
  <2>3. CASE CheckCompletion /\ UNCHANGED peers
    BY <2>3, DisciplinedNew, DisciplineFrame DEF CheckCompletion, TypeOK
  <2>4. CASE \E p \in c.to : AssignWork(p) /\ UNCHANGED peers
    BY <2>2, <2>4, DisciplineAssignWork
  <2>5. CASE \E S : RemovePeers(S)
    BY <2>5, DisciplineFrame DEF RemovePeers, TypeOK
  <2> QED
    BY <1>2, <2>3, <2>4, <2>5, Zenon DEF Nested
<1>3. CASE MetadataReceived
  <2>1. \A q \in PeerState : \A k : Disciplined(q) => Disciplined([q EXCEPT !.known = k])
    BY Zenon DEF Disciplined, PeerState
  <2> QED
    BY <1>3, <2>1, DisciplineFrame, ZenonT(30) DEF MetadataReceived, TypeOK
<1>4. CASE Tick
  BY <1>4, DisciplineFrame DEF Tick
<1>5. CASE Cleanup
  BY <1>5, DisciplineFrame, Zenon DEF Cleanup, TypeOK
<1>6. CASE \E paused \in BOOLEAN : Start(paused)
  BY <1>6, DisciplineFrame DEF Start
<1>7. CASE PauseTorrent \/ Delete
  BY <1>7, DisciplineFrame DEF PauseTorrent, Delete
<1>8. ASSUME NEW v \in Validations, ValidationComplete(v) \/ ValidationFailed(v)
      PROVE  RequestDiscipline'
  <2>1. CASE ValidationComplete(v)
    <3>1. \A q \in PeerState : Disciplined([q EXCEPT !.pending_requests = {}])
      BY DEF Disciplined, PeerState
    <3> QED
      BY <2>1, <3>1, DisciplineFrame DEF ValidationComplete, TypeOK
  <2>2. CASE ValidationFailed(v) /\ ~PauseTorrent
    BY <2>2, DisciplineFrame DEF ValidationFailed
  <2> QED
    BY <1>7, <1>8, <2>1, <2>2
<1>9. CASE \E p \in Peers : PeerStep(p)
  BY <1>9, DisciplinePeerStep
<1>10. CASE \E p \in Peers, x \in Pieces : TaskStep(p, x)
  BY <1>10, DisciplineTaskStep
<1>11. CASE \E S \in SkipSets : SetUserTorrentConfig(S)
  BY <1>11, DisciplineFrame DEF SetUserTorrentConfig
<1>12. CASE \E S \in SUBSET Peers : PeerPolicyUpdated(S)
  BY <1>12, DisciplineFrame DEF PeerPolicyUpdated
<1>13. CASE Resume \/ Shutdown
  BY <1>13, DisciplineFrame, Zenon DEF Resume, Shutdown
<1> QED
  BY <1>1, <1>2, <1>3, <1>4, <1>5, <1>6, <1>7, <1>8, <1>9, <1>10, <1>11, <1>12, <1>13
     DEF Next, UserStep, Pause

(* Nothing is ever asked of a peer that lacks it, chokes us or was not     *)
(* told of our interest: what AssignWork checks still holds when the       *)
(* peer's messages, completion and removals have been handled.             *)
THEOREM RequestDisciplineAlways == Spec => []RequestDiscipline
<1>1. Init => RequestDiscipline
  BY DEF Init, RequestDiscipline
<1> QED
  BY <1>1, DisciplineNext, TypeCorrect, PTL DEF Spec
=============================================================================
