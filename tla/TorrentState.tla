---------------------------- MODULE TorrentState ----------------------------
(***************************************************************************)
(* The download core of one torrent: TorrentState::update in               *)
(* src/torrent_manager/state.rs with the queues of piece_manager.rs and    *)
(* the block buffers of block_manager.rs, driven by the run loop and the   *)
(* effects of manager.rs.                                                  *)
(*                                                                         *)
(* A handler of the code runs to completion before the next command is     *)
(* taken, and calls update() again for its trailing AssignWork and         *)
(* CheckCompletion.  Here the body of a handler is one step; the nested    *)
(* calls it still has to make are the list todo, and no other handler      *)
(* starts before todo is empty.                                            *)
(*                                                                         *)
(* Sessions, disks and hash tasks are asynchronous: the blocks a session   *)
(* may still deliver are wire[p], the tasks in flight are verify_tasks,    *)
(* write_tasks and validations, and disk is what the files really hold.    *)
(* leaving are the sessions told to end, dialing the outbound connection   *)
(* attempts under way when the torrent was paused.                         *)
(***************************************************************************)
EXTENDS Naturals, Sequences, FiniteSets

CONSTANTS
  Peers,               \* peer ids ("ip:port")
  Pieces, Blocks,      \* piece indices; block offsets within a piece
  V2Pieces,            \* pieces verified against a proof asked for separately
  PipelineDepth,       \* MAX_PIPELINE_DEPTH
  DisconnectBatch,     \* deferred disconnects are flushed at this many
  MaxPendingItems,     \* MAX_PENDING_ITEMS of Cleanup
  SkipSets,            \* the file selections a user may ask for, in pieces
  Validated,           \* torrent_validation_status, as persisted
  OnDisk,              \* the pieces already on disk when the torrent is added
  Bitfields,           \* the bitfields a peer may announce
  HavePieces,          \* the pieces a peer may announce one by one
  FaultKinds,          \* which of the events below occur
  MaxFaults            \* bound: how many of them

ASSUME TorrentAssumption ==
  /\ IsFiniteSet(Peers) /\ IsFiniteSet(Pieces) /\ IsFiniteSet(Blocks)
  /\ Pieces # {} /\ Blocks # {}
  /\ V2Pieces \subseteq Pieces
  /\ PipelineDepth \in Nat \ {0}
  /\ DisconnectBatch \in Nat \ {0}
  /\ MaxPendingItems \in Nat
  /\ SkipSets \subseteq SUBSET Pieces
  /\ Validated \in BOOLEAN
  /\ OnDisk \subseteq Pieces
  /\ Bitfields \subseteq SUBSET Pieces
  /\ HavePieces \subseteq Pieces
  /\ MaxFaults \in Nat

VARIABLES
  started, is_paused, running,      \* the run loop
  torrent, storage,                 \* torrent and multi_file_info are Some
  data_path, file_priorities,       \* the user's configuration
  torrent_status,
  bitfield,                         \* the Done pieces
  need_queue, pending_queue, pieces_remaining, piece_priorities,
  legacy_buffers,                   \* the blocks held in assemblers
  verifying_pieces, writing_pieces, v2_pending_data,
  peers, peer, pending_disconnects, \* registered ids, their PeerState
  todo,                             \* calls the current handler still makes
  wire, leaving, dialing, verify_tasks, write_tasks, validations, disk,
  faults

config == <<torrent, storage, data_path, file_priorities>>
loop == <<started, is_paused, running>>
queues == <<need_queue, pending_queue>>
done == <<bitfield, pieces_remaining>>
stages == <<legacy_buffers, verifying_pieces, writing_pieces, v2_pending_data>>
swarm == <<peers, peer, pending_disconnects>>
tasks == <<verify_tasks, write_tasks, validations, disk>>
network == <<wire, leaving, dialing>>
vars == <<config, loop, torrent_status, queues, done, piece_priorities, stages,
          swarm, todo, network, tasks, faults>>

Block == Pieces \X Blocks
BlocksOf(S) == S \X Blocks

PeerState ==
  [known : BOOLEAN,              \* the bitfield vector is not empty
   has : SUBSET Pieces, peer_choking : BOOLEAN, am_interested : BOOLEAN,
   pending_requests : SUBSET Pieces, active_blocks : SUBSET Block,
   inflight : Nat]

NewPeer ==
  [known |-> FALSE, has |-> {}, peer_choking |-> TRUE, am_interested |-> FALSE,
   pending_requests |-> {}, active_blocks |-> {}, inflight |-> 0]

(* piece_priorities is the set of Skip pieces: High and Normal differ only *)
(* in the order AssignWork looks at candidates, which is left open.        *)
Skip == piece_priorities
Pending == {x \in Pieces : pending_queue[x] # {}}
Status == {"AwaitingMetadata", "Validating", "Standard", "Endgame", "Done"}

Assign(S) == [call |-> "AssignWork", to |-> S]
Check == [call |-> "CheckCompletion", to |-> {}]
ForceRemove(S) == [call |-> "PeerDisconnected", to |-> S]
Call == [call : {"AssignWork", "CheckCompletion", "PeerDisconnected"},
         to : SUBSET Peers]

Init ==
  /\ started = FALSE /\ is_paused = FALSE /\ running = TRUE
  /\ torrent = FALSE /\ storage = FALSE
  /\ data_path = FALSE /\ file_priorities = {}
  /\ torrent_status = "AwaitingMetadata"
  /\ bitfield = {} /\ pieces_remaining = 0
  /\ need_queue = {} /\ pending_queue = [x \in Pieces |-> {}]
  /\ piece_priorities = {}
  /\ legacy_buffers = {} /\ verifying_pieces = {} /\ writing_pieces = {}
  /\ v2_pending_data = {}
  /\ peers = {} /\ peer = [p \in Peers |-> NewPeer]
  /\ pending_disconnects = {}
  /\ todo = <<>>
  /\ wire = [p \in Peers |-> {}] /\ leaving = {} /\ dialing = {}
  /\ verify_tasks = [t \in Peers \X Pieces |-> 0]
  /\ write_tasks = {} /\ validations = {}
  /\ disk = OnDisk
  /\ faults = 0

(* Every handler starts between two others.  Failures, chokes, removals and *)
(* user commands are events of a kind, and use up a budget.                 *)
Idle == running /\ todo = <<>>
Looping == Idle /\ started
Fault(kind) ==
  kind \in FaultKinds /\ faults < MaxFaults /\ faults' = faults + 1
NoFault == UNCHANGED faults

Min(a, b) == IF a < b THEN a ELSE b

(* saturating_sub *)
Monus_Wrapping(a, b) == a - b
Monus(a, b) == IF a < b THEN 0 ELSE a - b

---------------------------------------------------------------------------
(* Piece manager.                                                          *)

(* requeue_pending_to_need, for every piece of R (none of them Done).      *)
requeue_pending_to_need_Dropped(R) ==
  /\ UNCHANGED need_queue
  /\ pending_queue' = [x \in Pieces |-> IF x \in R THEN {} ELSE pending_queue[x]]
  /\ legacy_buffers' = legacy_buffers \ BlocksOf(R)
requeue_pending_to_need(R) ==
  /\ need_queue' = need_queue \cup (R \ Skip)
  /\ pending_queue' = [x \in Pieces |-> IF x \in R THEN {} ELSE pending_queue[x]]
  /\ legacy_buffers' = legacy_buffers \ BlocksOf(R)

(* release_pending_peer_or_requeue, for every unfinished piece that a peer *)
(* of S has requested: a piece nobody else works on goes back to need.     *)
release_pending_peer_or_requeue_Forgotten(S) ==
  UNCHANGED <<queues, legacy_buffers>>
release_pending_peer_or_requeue(S) ==
  LET asked(x) == {p \in S : x \in peer[p].pending_requests}
      released == {x \in Pieces \ bitfield : asked(x) # {}}
      left == [x \in Pieces |-> IF x \in released
                                  THEN pending_queue[x] \ asked(x)
                                  ELSE pending_queue[x]]
      requeued == {x \in released : left[x] = {}}
  IN /\ pending_queue' = left
     /\ need_queue' = need_queue \cup (requeued \ Skip)
     /\ legacy_buffers' = legacy_buffers \ BlocksOf(requeued)

(* mark_as_complete, for every piece of R.                                 *)
mark_as_complete_Uncounted(R) ==
  bitfield' = bitfield \cup R /\ UNCHANGED pieces_remaining
mark_as_complete(R) ==
  /\ bitfield' = bitfield \cup R
  /\ pieces_remaining' = Monus(pieces_remaining, Cardinality(R \ bitfield))

(* The need queue after apply_priorities: pieces that become Skip leave    *)
(* it, and pieces that stop being Skip join it unless they are pending.    *)
apply_priorities_NoReturn(S) == need_queue \ ((S \ Skip) \ bitfield)
apply_priorities_IgnoresPending(S) ==
  (need_queue \ ((S \ Skip) \ bitfield)) \cup ((Skip \ S) \ bitfield)
apply_priorities(S) ==
  (need_queue \ ((S \ Skip) \ bitfield))
    \cup {x \in (Skip \ S) \ bitfield : pending_queue[x] = {}}

(* mark_as_pending, for every piece of new. *)
mark_as_pending_Keeps(p, new) ==
  /\ UNCHANGED need_queue
  /\ pending_queue' = [x \in Pieces |-> IF x \in new THEN pending_queue[x] \cup {p}
                                                     ELSE pending_queue[x]]
mark_as_pending(p, new) ==
  /\ need_queue' = need_queue \ new
  /\ pending_queue' = [x \in Pieces |-> IF x \in new THEN pending_queue[x] \cup {p}
                                                     ELSE pending_queue[x]]

---------------------------------------------------------------------------
(* Nested calls: the steps that finish a handler.                          *)

(* The peer's record after CheckCompletion has declared the torrent Done.  *)
Retired(q) == [q EXCEPT !.pending_requests = {}, !.active_blocks = {},
                        !.inflight = 0, !.am_interested = FALSE]

IsComplete == torrent /\ Pieces \subseteq bitfield \cup Skip

CheckCompletion ==
  /\ IF torrent_status \in {"Standard", "Endgame"} /\ IsComplete
       THEN /\ torrent_status' = "Done"
            /\ need_queue' = {}
            /\ pending_queue' = [x \in Pieces |-> {}]
            /\ legacy_buffers' = {}
            /\ peer' = [p \in Peers |-> Retired(peer[p])]
       ELSE UNCHANGED <<torrent_status, queues, legacy_buffers, peer>>
  /\ UNCHANGED <<verifying_pieces, writing_pieces, v2_pending_data, wire>>

(* requestable_block_addresses_for_piece, less what p was asked already.   *)
Requestable(p, R) ==
  {b \in BlocksOf(R \ bitfield) : b \notin legacy_buffers \cup peer[p].active_blocks}

Busy == verifying_pieces \cup writing_pieces

(* The pieces AssignWork may newly give to p.                              *)
Candidates_AnyPiece(p) ==
  (need_queue \cup (IF torrent_status = "Endgame" THEN Pending ELSE {}))
    \ (Busy \cup Skip \cup peer[p].pending_requests)
Candidates(p) ==
  ((need_queue \cup (IF torrent_status = "Endgame" THEN Pending ELSE {}))
     \cap peer[p].has) \ (Busy \cup Skip \cup peer[p].pending_requests)

(* A batch of at most n blocks of R that fills n as far as R reaches.      *)
Batches(R, n) == {B \in SUBSET R : Cardinality(B) = Min(Cardinality(R), n)}

(* The new requests: at most n candidates are looked at, in an order left  *)
(* open (priority, rarity, shuffle), and at most the last is cut short.    *)
NewRequests(p, n) ==
  UNION {{B \in Batches(Requestable(p, D), n) :
            Cardinality({x \in D : Requestable(p, {x}) \cap B \notin
                                     {{}, Requestable(p, {x})}}) <= 1} :
         D \in Batches(Candidates(p), n)}

ShouldBeInterested(p) ==
  \/ peer[p].known /\ (need_queue \cup Pending) \cap peer[p].has # {}
  \/ peer[p].pending_requests # {}

CanAssign(p) ==
  /\ torrent_status # "Validating"
  /\ torrent /\ data_path
  /\ need_queue # {} \/ Pending # {}
  /\ p \in peers

CanRequest(p) ==
  /\ ~peer[p].peer_choking
  /\ peer[p].known
  /\ peer[p].inflight < PipelineDepth

(* Commands to a session that is over are dropped by its closed channel.   *)
Connected(p) == p \notin pending_disconnects \cup leaving

(* p is asked for the blocks of batch, and new are the pieces among them   *)
(* it was not working on yet (mark_as_pending).                            *)
Request(p, batch, new) ==
  /\ mark_as_pending(p, new)
  /\ peer' = [peer EXCEPT ![p].am_interested = ShouldBeInterested(p),
                          ![p].pending_requests = @ \cup new,
                          ![p].active_blocks = @ \cup batch,
                          ![p].inflight = @ + Cardinality(batch)]
  /\ wire' = [wire EXCEPT ![p] = IF Connected(p) THEN @ \cup batch ELSE @]
  /\ torrent_status' = IF new # {} /\ need_queue' = {} THEN "Endgame"
                                                       ELSE torrent_status

AssignWork(p) ==
  /\ IF ~CanAssign(p)
       THEN UNCHANGED <<torrent_status, queues, peer, wire>>
     ELSE IF ~CanRequest(p)
       THEN /\ peer' = [peer EXCEPT ![p].am_interested = ShouldBeInterested(p)]
            /\ UNCHANGED <<torrent_status, queues, wire>>
     ELSE LET slots == PipelineDepth - peer[p].inflight
          IN \E B \in Batches(Requestable(p, peer[p].pending_requests \ Busy), slots) :
               \E C \in NewRequests(p, slots - Cardinality(B)) :
                 Request(p, B \cup C, {b[1] : b \in C})
  /\ UNCHANGED stages

(* AssignWork(p) would change something.                                   *)
GivesWork(p) ==
  /\ CanAssign(p)
  /\ \/ peer[p].am_interested # ShouldBeInterested(p)
     \/ CanRequest(p) /\ Requestable(p, (peer[p].pending_requests \ Busy)
                                           \cup Candidates(p)) # {}

(* The flush in PeerDisconnected: every peer of S that is registered goes, *)
(* and what only it was fetching is needed again.                          *)
RemovePeers(S) ==
  /\ release_pending_peer_or_requeue(S \cap peers)
  /\ peers' = peers \ S
  /\ peer' = [p \in Peers |-> IF p \in S THEN NewPeer ELSE peer[p]]
  /\ pending_disconnects' = {}
  /\ leaving' = leaving \ S

(* One nested call; the peers of an AssignWork loop are taken in any order.*)
Nested ==
  /\ running /\ todo # <<>>
  /\ LET c == Head(todo) IN
     \/ /\ c.call = "CheckCompletion"
        /\ CheckCompletion
        /\ todo' = Tail(todo)
        /\ UNCHANGED <<peers, pending_disconnects, leaving>>
     \/ /\ c.call = "AssignWork"
        /\ \E p \in c.to :
             /\ AssignWork(p)
             /\ todo' = IF c.to = {p} THEN Tail(todo)
                                      ELSE <<Assign(c.to \ {p})>> \o Tail(todo)
        /\ UNCHANGED <<peers, pending_disconnects, leaving>>
     \/ /\ c.call = "PeerDisconnected"
        /\ RemovePeers(pending_disconnects \cup c.to)
        /\ todo' = Tail(todo)
        /\ UNCHANGED <<torrent_status, verifying_pieces, writing_pieces,
                       v2_pending_data, wire>>
  /\ UNCHANGED <<config, loop, done, piece_priorities, dialing, tasks, faults>>

AssignEach(S) == IF S = {} THEN <<>> ELSE <<Assign(S)>>

---------------------------------------------------------------------------
(* Metadata, configuration and validation.                                 *)

(* The validation tasks under way: the one this effect spawns, and the one *)
(* that validate_local_file spawns at startup.                             *)
Validations == {"StartValidation", "validate_local_file"}

StartValidation ==
  /\ torrent_status' = "Validating"
  /\ validations' = validations \cup {"StartValidation"}

(* The metadata was parsed from a file, or a peer has supplied it.  Peers' *)
(* bitfields are resized, so none of them counts as empty any more.        *)
MetadataReceived ==
  /\ Idle /\ ~torrent /\ NoFault
  /\ torrent' = TRUE
  /\ bitfield' = IF Validated THEN Pieces ELSE {}
  /\ pieces_remaining' = Cardinality(Pieces \ bitfield')
  /\ need_queue' = (Pieces \ bitfield') \ file_priorities
  /\ pending_queue' = [x \in Pieces |-> {}]
  /\ piece_priorities' = file_priorities
  /\ legacy_buffers' = {} /\ verifying_pieces' = {} /\ writing_pieces' = {}
  /\ peer' = [p \in Peers |-> [peer[p] EXCEPT !.known = @ \/ p \in peers]]
  /\ storage' = data_path
  /\ IF data_path THEN StartValidation
                  ELSE UNCHANGED <<torrent_status, validations>>
  /\ UNCHANGED <<data_path, file_priorities, loop, v2_pending_data, peers,
                 pending_disconnects, todo, network, verify_tasks, write_tasks, disk>>

(* The first configuration comes with the torrent, later ones from the user. *)
SetUserTorrentConfig(S) ==
  /\ Idle /\ IF data_path THEN Fault("select") ELSE NoFault
  /\ data_path' = TRUE /\ file_priorities' = S
  /\ IF torrent THEN /\ need_queue' = apply_priorities(S)
                     /\ piece_priorities' = S
                ELSE UNCHANGED <<need_queue, piece_priorities>>
  /\ storage' = torrent
  /\ IF torrent /\ ~storage THEN StartValidation
                            ELSE UNCHANGED <<torrent_status, validations>>
  /\ todo' = <<Check>>
  /\ UNCHANGED <<torrent, loop, pending_queue, done, stages, swarm, network,
                 verify_tasks, write_tasks, disk>>

(* TorrentManager::run up to its loop; paused is the persisted state.  A   *)
(* torrent validated earlier is restored with its metadata and data path.  *)
Start(paused) ==
  /\ Idle /\ ~started
  /\ Validated => storage
  /\ IF paused THEN Fault("pause") ELSE NoFault
  /\ started' = TRUE /\ is_paused' = paused
  /\ validations' = IF storage THEN validations \cup {"validate_local_file"}
                                ELSE validations
  /\ UNCHANGED <<config, running, torrent_status, queues, done, piece_priorities,
                 stages, swarm, todo, network, verify_tasks, write_tasks, disk>>

(* What perform_validation reports: with a persisted validation status it  *)
(* only looks whether every file is there with its length.                 *)
ValidationResult_Trusting == Pieces
ValidationResult == IF Validated THEN IF OnDisk = Pieces THEN Pieces ELSE {}
                                 ELSE OnDisk

ValidationComplete(v) ==
  /\ Looping /\ v \in validations /\ NoFault
  /\ validations' = validations \ {v}
  /\ IF torrent_status = "Validating"
       THEN /\ mark_as_complete(ValidationResult)
            /\ torrent_status' = "Standard"
            /\ pending_queue' = [x \in Pieces |-> {}]
            /\ verifying_pieces' = {} /\ writing_pieces' = {}
            /\ legacy_buffers' = {}
            /\ peer' = [p \in Peers |-> [peer[p] EXCEPT !.pending_requests = {}]]
            /\ need_queue' = (Pieces \ bitfield') \ Skip
            /\ todo' = <<Check>> \o AssignEach(peers)
       ELSE UNCHANGED <<done, torrent_status, queues, verifying_pieces,
                        writing_pieces, legacy_buffers, peer, todo>>
  /\ UNCHANGED <<config, loop, piece_priorities, v2_pending_data, peers,
                 pending_disconnects, network, verify_tasks, write_tasks, disk>>

---------------------------------------------------------------------------
(* Peers.                                                                  *)

(* An outbound attempt checks is_paused when it begins, not when it ends:  *)
(* a registration may still arrive after a Pause.  The deferred removals   *)
(* are flushed first when one of them has p's id, or its address (gone).   *)
RegisterPeer(p) ==
  /\ Looping /\ NoFault
  /\ is_paused => p \in dialing
  /\ dialing' = dialing \ {p}
  /\ p \notin peers \/ p \in pending_disconnects
  /\ \E gone \in {{}, pending_disconnects} :
        /\ p \in pending_disconnects => p \in gone
        /\ release_pending_peer_or_requeue(gone \cap peers)
        /\ peers' = (peers \ gone) \cup {p}
        /\ peer' = [q \in Peers |-> IF q \in gone \cup {p} THEN NewPeer ELSE peer[q]]
        /\ pending_disconnects' = pending_disconnects \ gone
        /\ leaving' = leaving \ (gone \cup {p})
  /\ UNCHANGED <<config, loop, torrent_status, done, piece_priorities, todo,
                 verifying_pieces, writing_pieces, v2_pending_data, wire, tasks>>

(* A session is over and says so.  Its blocks came before, so none is      *)
(* outstanding any more.                                                   *)
PeerDisconnected(p) ==
  /\ Looping /\ p \in peers \ pending_disconnects
  /\ IF p \in leaving THEN NoFault ELSE Fault("disconnect")
  /\ LET batch == pending_disconnects \cup {p} IN
       IF Cardinality(batch) < DisconnectBatch
         THEN /\ pending_disconnects' = batch
              /\ UNCHANGED <<queues, legacy_buffers, peers, peer, leaving>>
         ELSE RemovePeers(batch)
  /\ wire' = [wire EXCEPT ![p] = {}]
  /\ UNCHANGED <<config, loop, torrent_status, done, piece_priorities, todo,
                 verifying_pieces, writing_pieces, v2_pending_data, dialing, tasks>>

(* PeerPolicyUpdated: the peers of S are blocked and removed one by one.   *)
PeerPolicyUpdated(S) ==
  /\ Looping /\ S # {} /\ S \subseteq peers /\ Fault("block")
  /\ todo' = <<ForceRemove(S)>>
  /\ UNCHANGED <<config, loop, torrent_status, queues, done, piece_priorities,
                 stages, swarm, network, tasks>>

(* A session that was told to end may have messages on their way.          *)
FromPeer(p) == Looping /\ p \in peers \ pending_disconnects

(* A message of p changes only p's record, then work is assigned to p.     *)
PeerMessage(p, record) ==
  /\ peer' = [peer EXCEPT ![p] = record]
  /\ todo' = <<Assign({p})>>
  /\ UNCHANGED <<config, loop, torrent_status, queues, done, piece_priorities,
                 stages, peers, pending_disconnects, network, tasks>>

(* DisconnectPeer: the session is told to end, or, when its channel is     *)
(* full or closed, the peer is removed at once.  told are the sessions     *)
(* that are already ending.                                                *)
DisconnectPeer(told, S) ==
  \/ leaving' = told \cup S /\ todo' = <<>>
  \/ S # {} /\ leaving' = told /\ todo' = <<ForceRemove(S)>>

(* A second bitfield ends the session.                                     *)
PeerBitfieldReceived(p, S) ==
  /\ FromPeer(p)
  /\ \/ /\ peer[p].has = {} /\ NoFault
        /\ PeerMessage(p, [peer[p] EXCEPT !.known = TRUE, !.has = S])
     \/ /\ peer[p].has # {} /\ Fault("bitfield")
        /\ DisconnectPeer(leaving, {p})
        /\ UNCHANGED <<config, loop, torrent_status, queues, done, piece_priorities,
                       stages, swarm, wire, dialing, tasks>>

(* A second Unchoke in a row matters only for the work it assigns.         *)
PeerUnchoked(p) ==
  /\ FromPeer(p) /\ NoFault
  /\ peer[p].peer_choking \/ GivesWork(p)
  /\ PeerMessage(p, [peer[p] EXCEPT !.peer_choking = FALSE])

PeerHavePiece(p, x) ==
  /\ FromPeer(p) /\ x \notin peer[p].has /\ NoFault
  /\ PeerMessage(p, [peer[p] EXCEPT !.has = IF peer[p].known THEN @ \cup {x} ELSE @])

Choked(q) == [q EXCEPT !.inflight = 0, !.active_blocks = {},
                       !.peer_choking = TRUE, !.pending_requests = {}]

(* The session empties its tracker before it reports the choke, but the    *)
(* requests still on their way to it, or held by its tasks, are tracked    *)
(* afterwards and may be answered.                                         *)
PeerChoked(p) ==
  /\ FromPeer(p) /\ ~peer[p].peer_choking /\ Fault("choke")
  /\ release_pending_peer_or_requeue({p})
  /\ peer' = [peer EXCEPT ![p] = Choked(@)]
  /\ \E kept \in SUBSET wire[p] : wire' = [wire EXCEPT ![p] = kept]
  /\ UNCHANGED <<config, loop, torrent_status, done, piece_priorities,
                 verifying_pieces, writing_pieces, v2_pending_data, peers,
                 pending_disconnects, todo, leaving, dialing, tasks>>

(* A request is lost: a full channel drops the BulkRequest, or the session *)
(* gives up waiting for a send permit.                                     *)
RequestLost(p, b) ==
  /\ running /\ todo = <<>> /\ b \in wire[p] /\ Fault("lost")
  /\ wire' = [wire EXCEPT ![p] = @ \ {b}]
  /\ UNCHANGED <<config, loop, torrent_status, queues, done, piece_priorities,
                 stages, swarm, todo, leaving, dialing, tasks>>

---------------------------------------------------------------------------
(* Data flow.                                                              *)

Delivered_StillInflight(p, b) == [peer EXCEPT ![p].active_blocks = @ \ {b}]
Delivered(p, b) ==
  [peer EXCEPT ![p].inflight = Monus(@, 1),
               ![p].active_blocks = @ \ {b}]

LowWater(p, b) == Delivered(p, b)[p].inflight <= PipelineDepth \div 2

(* handle_block: the piece's assembler takes the block, and gives up the   *)
(* whole piece to verification when it holds every block.                  *)
Buffered(b) == legacy_buffers \cup {b}
Assembled(b) == BlocksOf({b[1]}) \subseteq Buffered(b)

(* is_piece_unneeded: Done, or a verified copy is being written.           *)
Unneeded_DoneOnly(x) == x \in bitfield
Unneeded(x) == x \in bitfield \cup writing_pieces

(* The session forwards only blocks it was asked for; the sender may have  *)
(* been removed in the meantime, and the block is used all the same.       *)
IncomingBlock(p, b) ==
  LET x == b[1]
      taken == ~Unneeded(x) /\ torrent_status # "Validating"
  IN /\ Looping /\ b \in wire[p] /\ NoFault
     /\ wire' = [wire EXCEPT ![p] = @ \ {b}]
     /\ peer' = IF p \in peers THEN Delivered(p, b) ELSE peer
     /\ IF taken
          THEN /\ legacy_buffers' = IF Assembled(b) THEN Buffered(b) \ BlocksOf({x})
                                                    ELSE Buffered(b)
               /\ verifying_pieces' = IF Assembled(b) THEN verifying_pieces \cup {x}
                                                      ELSE verifying_pieces
               /\ v2_pending_data' = IF Assembled(b) /\ x \in V2Pieces
                                       THEN v2_pending_data \cup {x}
                                       ELSE v2_pending_data
               /\ verify_tasks' = IF Assembled(b) /\ x \notin V2Pieces
                                    THEN [verify_tasks EXCEPT ![<<p, x>>] = @ + 1]
                                    ELSE verify_tasks
               /\ todo' = IF p \in peers /\ LowWater(p, b) THEN <<Assign({p})>>
                                                           ELSE <<>>
          ELSE UNCHANGED <<legacy_buffers, verifying_pieces, v2_pending_data,
                           verify_tasks, todo>>
     /\ UNCHANGED <<config, loop, torrent_status, queues, done, piece_priorities,
                    writing_pieces, peers, pending_disconnects, leaving, dialing,
                    write_tasks, validations, disk>>

MerkleProofReceived(p, x) ==
  /\ FromPeer(p) /\ x \in v2_pending_data \ bitfield /\ NoFault
  /\ v2_pending_data' = v2_pending_data \ {x}
  /\ verify_tasks' = [verify_tasks EXCEPT ![<<p, x>>] = @ + 1]
  /\ UNCHANGED <<config, loop, torrent_status, queues, done, piece_priorities,
                 legacy_buffers, verifying_pieces, writing_pieces, swarm, todo,
                 network, write_tasks, validations, disk>>

Unrequest(S, x) ==
  [p \in Peers |-> IF p \in S THEN [peer[p] EXCEPT !.pending_requests = @ \ {x}]
                              ELSE peer[p]]

PieceVerified(p, x, valid) ==
  /\ Looping /\ verify_tasks[<<p, x>>] > 0
  /\ IF valid THEN NoFault ELSE Fault("corrupt")
  /\ verify_tasks' = [verify_tasks EXCEPT ![<<p, x>>] = @ - 1]
  /\ verifying_pieces' = verifying_pieces \ {x}
  /\ v2_pending_data' = v2_pending_data \ {x}
  /\ CASE valid /\ Unneeded(x) ->
            /\ peer' = Unrequest({p} \cap peers, x)
            /\ todo' = <<Assign({p})>>
            /\ UNCHANGED <<legacy_buffers, writing_pieces, write_tasks, leaving>>
       [] valid /\ ~Unneeded(x) ->
            /\ writing_pieces' = writing_pieces \cup {x}
            /\ write_tasks' = IF storage THEN write_tasks \cup {<<p, x>>} ELSE write_tasks
            /\ UNCHANGED <<legacy_buffers, peer, todo, leaving>>
       [] ~valid ->
            /\ legacy_buffers' = IF x \in writing_pieces THEN legacy_buffers
                                   ELSE legacy_buffers \ BlocksOf({x})
            /\ DisconnectPeer(leaving, {p} \cap peers)
            /\ UNCHANGED <<writing_pieces, peer, write_tasks>>
  /\ UNCHANGED <<config, loop, torrent_status, queues, done, piece_priorities,
                 peers, pending_disconnects, wire, dialing, validations, disk>>

(* What a write that reports success has left on disk. *)
Written_IgnoringErrors(x) == {disk, disk \cup {x}}
Written(x) == {disk \cup {x}}

(* The write of x by p is over: its task and its mark go together.         *)
WriteOver_Left(p, x) == UNCHANGED <<write_tasks, writing_pieces>>
WriteOver(p, x) ==
  /\ write_tasks' = write_tasks \ {<<p, x>>}
  /\ writing_pieces' = writing_pieces \ {x}

(* A write has reached the files and reports it.  The other peers asked    *)
(* for the piece get a BulkCancel; what their sessions have already handed *)
(* on still arrives.                                                       *)
PieceWrittenToDisk(p, x) ==
  /\ Looping /\ <<p, x>> \in write_tasks /\ NoFault
  /\ disk' \in Written(x)
  /\ CASE torrent_status \in {"Validating", "AwaitingMetadata"} ->
            /\ write_tasks' = write_tasks \ {<<p, x>>}
            /\ UNCHANGED <<done, queues, legacy_buffers, writing_pieces, peer, wire, todo>>
       [] torrent_status \notin {"Validating", "AwaitingMetadata"} /\ x \in bitfield ->
            /\ WriteOver(p, x)
            /\ peer' = Unrequest({p} \cap peers, x)
            /\ todo' = <<Assign({p})>>
            /\ UNCHANGED <<done, queues, legacy_buffers, wire>>
       [] torrent_status \notin {"Validating", "AwaitingMetadata"} /\ x \notin bitfield ->
            LET others == pending_queue[x] \ {p} IN
            /\ mark_as_complete({x})
            /\ need_queue' = need_queue \ {x}
            /\ pending_queue' = [pending_queue EXCEPT ![x] = {}]
            /\ legacy_buffers' = legacy_buffers \ BlocksOf({x})
            /\ WriteOver(p, x)
            /\ peer' = Unrequest(({p} \cup others) \cap peers, x)
            /\ wire' \in {wire, [q \in Peers |-> IF q \in others \cap peers
                                                   THEN wire[q] \ BlocksOf({x})
                                                   ELSE wire[q]]}
            /\ todo' = <<Assign({p})>> \o AssignEach(others) \o <<Check>>
                         \o AssignEach(peers)
  /\ UNCHANGED <<config, loop, torrent_status, piece_priorities, verifying_pieces,
                 v2_pending_data, peers, pending_disconnects, leaving, dialing,
                 verify_tasks, validations>>

(* A write failed, or timed out after it may have reached the files.       *)
PieceWriteFailed(p, x) ==
  /\ Looping /\ <<p, x>> \in write_tasks /\ Fault("write")
  /\ write_tasks' = write_tasks \ {<<p, x>>}
  /\ disk' \in {disk, disk \cup {x}}
  /\ writing_pieces' = writing_pieces \ {x}
  /\ requeue_pending_to_need({x})
  /\ bitfield' = bitfield \ {x}
  /\ pieces_remaining' = IF x \in bitfield THEN pieces_remaining + 1
                                           ELSE pieces_remaining
  /\ UNCHANGED <<config, loop, torrent_status, piece_priorities, verifying_pieces,
                 v2_pending_data, swarm, todo, network, verify_tasks, validations>>

---------------------------------------------------------------------------
(* Timers and user commands.                                               *)

(* The tick of the run loop: in Endgame, peers with nothing to do get work;*)
(* a tick that changes nothing is a stutter.                               *)
Tick ==
  /\ Looping /\ ~is_paused /\ NoFault
  /\ torrent_status = "Endgame"
  /\ LET idle == {p \in peers : peer[p].pending_requests = {}}
     IN /\ \E p \in idle : GivesWork(p)
        /\ todo' = AssignEach(idle)
  /\ UNCHANGED <<config, loop, torrent_status, queues, done, piece_priorities,
                 stages, swarm, network, tasks>>

Seeding == torrent /\ bitfield = Pieces

(* Cleanup: bound the unproven v2 data, flush the deferred disconnects,    *)
(* and, when seeding, let go of seeds and of peers neither side wants.     *)
Cleanup ==
  /\ Looping /\ ~is_paused /\ NoFault
  /\ v2_pending_data' = IF Cardinality(v2_pending_data) > MaxPendingItems
                          THEN {} ELSE v2_pending_data
  /\ release_pending_peer_or_requeue(pending_disconnects \cap peers)
  /\ peers' = peers \ pending_disconnects
  /\ peer' = [p \in Peers |-> IF p \in pending_disconnects THEN NewPeer ELSE peer[p]]
  /\ pending_disconnects' = {}
  /\ torrent_status' = IF Seeding THEN "Done" ELSE torrent_status
  /\ \E T \in SUBSET {p \in peers' : ~peer[p].am_interested} :
       LET full == {p \in peers' : peer[p].known /\ peer[p].has = Pieces}
           unwanted == IF Seeding THEN full \cup T ELSE {}
       IN /\ DisconnectPeer(leaving \ pending_disconnects, unwanted)
          /\ Seeding \/ T = {}
  /\ UNCHANGED <<config, loop, done, piece_priorities, verifying_pieces,
                 writing_pieces, wire, dialing, tasks>>

(* Pause drains pending into need; asked is what the peers were fetching.  *)
DrainPending_Skipped(asked) == UNCHANGED queues
DrainPending(asked) ==
  /\ need_queue' = need_queue \cup Pending \cup (asked \ Skip)
  /\ pending_queue' = [x \in Pieces |-> {}]

(* Pause: pending pieces go back to need, peers go away.                   *)
PauseTorrent ==
  /\ is_paused' = TRUE
  /\ LET asked == (UNION {peer[p].pending_requests : p \in peers}) \ bitfield
     IN /\ DrainPending(asked)
        /\ legacy_buffers' = legacy_buffers \ BlocksOf(asked)
  /\ peers' = {}
  /\ peer' = [p \in Peers |-> NewPeer]
  /\ leaving' = {}
  /\ dialing' \in SUBSET (IF "late_register" \in FaultKinds THEN Peers ELSE {})
  /\ UNCHANGED <<config, started, running, torrent_status, done, piece_priorities,
                 verifying_pieces, writing_pieces, v2_pending_data,
                 pending_disconnects, todo, wire, verify_tasks, write_tasks, disk>>

Pause == Looping /\ Fault("pause") /\ PauseTorrent /\ UNCHANGED validations

(* A validation fails.  The startup task reports it as FatalStorageError,  *)
(* which pauses; the task of StartValidation keeps it to itself.           *)
ValidationFailed(v) ==
  /\ Looping /\ v \in validations /\ Fault("validation")
  /\ validations' = validations \ {v}
  /\ \/ v = "validate_local_file" /\ PauseTorrent
     \/ /\ v = "StartValidation"
        /\ UNCHANGED <<config, loop, torrent_status, queues, done, piece_priorities,
                       stages, swarm, todo, network, verify_tasks, write_tasks, disk>>

Resume ==
  /\ Looping /\ is_paused /\ NoFault
  /\ is_paused' = FALSE /\ dialing' = {}
  /\ UNCHANGED <<config, started, running, torrent_status, queues, done,
                 piece_priorities, stages, swarm, todo, wire, leaving, tasks>>

(* Shutdown ends the run loop and aborts the writes under way; so does     *)
(* Ctrl+C, which does not go through the state.                            *)
Shutdown ==
  /\ Looping /\ Fault("stop")
  /\ running' = FALSE /\ is_paused' \in {is_paused, TRUE}
  /\ write_tasks' = {}
  /\ UNCHANGED <<config, started, torrent_status, queues, done, piece_priorities,
                 stages, swarm, todo, network, verify_tasks, validations, disk>>

(* Delete resets the torrent and ends the run loop; the files go later.    *)
Delete ==
  /\ Looping /\ Fault("stop")
  /\ running' = FALSE /\ is_paused' = TRUE
  /\ torrent_status' = IF torrent THEN "Validating" ELSE "AwaitingMetadata"
  /\ need_queue' = {} /\ pending_queue' = [x \in Pieces |-> {}]
  /\ bitfield' = {} /\ piece_priorities' = {}
  /\ pieces_remaining' = IF torrent THEN Cardinality(Pieces) ELSE 0
  /\ legacy_buffers' = {} /\ verifying_pieces' = {} /\ writing_pieces' = {}
  /\ v2_pending_data' = {}
  /\ peers' = {} /\ peer' = [p \in Peers |-> NewPeer]
  /\ UNCHANGED <<config, started, pending_disconnects, todo, network, tasks>>

---------------------------------------------------------------------------
PeerStep(p) ==
  \/ RegisterPeer(p) \/ PeerDisconnected(p)
  \/ \E S \in Bitfields : PeerBitfieldReceived(p, S)
  \/ PeerUnchoked(p) \/ PeerChoked(p)
  \/ \E x \in HavePieces : PeerHavePiece(p, x)
  \/ \E b \in Block : IncomingBlock(p, b) \/ RequestLost(p, b)
  \/ \E x \in Pieces : MerkleProofReceived(p, x)
TaskStep(p, x) ==
  \/ \E valid \in BOOLEAN : PieceVerified(p, x, valid)
  \/ PieceWrittenToDisk(p, x) \/ PieceWriteFailed(p, x)
UserStep ==
  \/ \E S \in SkipSets : SetUserTorrentConfig(S)
  \/ \E S \in SUBSET Peers : PeerPolicyUpdated(S)
  \/ Pause \/ Resume \/ Shutdown \/ Delete

Next ==
  \/ Nested
  \/ MetadataReceived \/ \E paused \in BOOLEAN : Start(paused)
  \/ \E v \in Validations : ValidationComplete(v) \/ ValidationFailed(v)
  \/ \E p \in Peers : PeerStep(p)
  \/ \E p \in Peers, x \in Pieces : TaskStep(p, x)
  \/ Tick \/ Cleanup
  \/ UserStep

Spec == Init /\ [][Next]_vars

(* What the program and well-behaved peers keep doing: queued messages are *)
(* handled, tasks end, timers fire, peers reconnect, unchoke and answer.   *)
Progress ==
  \/ Nested \/ MetadataReceived \/ Start(FALSE)
  \/ ~data_path /\ \E S \in SkipSets : SetUserTorrentConfig(S)
  \/ \E v \in Validations : ValidationComplete(v)
  \/ Tick \/ Cleanup \/ Resume
  \/ \E p \in Peers, x \in Pieces :
       PieceVerified(p, x, TRUE) \/ PieceWrittenToDisk(p, x)
  \/ \E p \in Peers :
       \/ RegisterPeer(p)
       \/ p \in leaving /\ PeerDisconnected(p)
       \/ peer[p].has = {} /\ \E S \in Bitfields : PeerBitfieldReceived(p, S)
       \/ peer[p].peer_choking /\ PeerUnchoked(p)
       \/ \E b \in Block : IncomingBlock(p, b)
       \/ \E x \in Pieces : MerkleProofReceived(p, x)

LiveSpec == Spec /\ WF_vars(Progress)

---------------------------------------------------------------------------
TypeOK ==
  /\ started \in BOOLEAN /\ is_paused \in BOOLEAN /\ running \in BOOLEAN
  /\ torrent \in BOOLEAN /\ storage \in BOOLEAN /\ data_path \in BOOLEAN
  /\ file_priorities \subseteq Pieces /\ piece_priorities \subseteq Pieces
  /\ torrent_status \in Status
  /\ bitfield \subseteq Pieces /\ pieces_remaining \in Nat
  /\ need_queue \subseteq Pieces
  /\ pending_queue \in [Pieces -> SUBSET Peers]
  /\ legacy_buffers \subseteq Block
  /\ verifying_pieces \subseteq Pieces /\ writing_pieces \subseteq Pieces
  /\ v2_pending_data \subseteq Pieces
  /\ peers \subseteq Peers /\ peer \in [Peers -> PeerState]
  /\ pending_disconnects \subseteq Peers
  /\ todo \in Seq(Call)
  /\ wire \in [Peers -> SUBSET Block]
  /\ leaving \subseteq Peers /\ dialing \subseteq Peers
  /\ verify_tasks \in [Peers \X Pieces -> Nat]
  /\ write_tasks \subseteq Peers \X Pieces
  /\ validations \subseteq Validations /\ disk \subseteq Pieces
  /\ faults \in Nat

(* No wanted piece is ever forgotten: whatever mixture of chokes, removals, *)
(* failed writes, pauses and changed selections happens, a piece that is   *)
(* neither Done nor skipped is in the need queue or pending.               *)
PieceTracked ==
  torrent /\ running =>
    Pieces \ (bitfield \cup Skip) \subseteq need_queue \cup Pending

(* A piece is never both needed and pending.  need_queue is a Vec that     *)
(* Pause and apply_priorities push to: were the two not disjoint, it would *)
(* come to hold a piece twice.                                             *)
NeedPendingDisjoint == need_queue \cap Pending = {}

(* A pending piece is being written, or a registered peer listed for it    *)
(* is working on it: otherwise the download would stall (the assertion of  *)
(* check_invariants, except for a write in flight).                        *)
PendingIsWorked ==
  \A x \in Pending \ writing_pieces : \E p \in peers \cap pending_queue[x] :
      x \in peer[p].pending_requests

(* pieces_remaining, kept by increments, is the number of missing pieces.  *)
RemainingExact == torrent => pieces_remaining = Cardinality(Pieces \ bitfield)

(* A piece marked Done, and so announced and served, is on disk.           *)
DoneOnDisk == bitfield \subseteq disk

(* writing_pieces follows the write tasks, and two verified copies of one  *)
(* piece (endgame) are never written at the same time.                     *)
WritesTracked == running =>
  /\ writing_pieces = {t[2] : t \in write_tasks}
  /\ \A t, u \in write_tasks : t[2] = u[2] => t = u

(* What AssignWork has asked of a peer is asked of one that has it, does   *)
(* not choke us and knows that we are interested.                          *)
RequestDiscipline ==
  \A p \in peers : peer[p].pending_requests # {} =>
    /\ peer[p].pending_requests \subseteq peer[p].has
    /\ ~peer[p].peer_choking
    /\ peer[p].am_interested

(* A Done piece stays Done: a failed write, which resets a piece, never    *)
(* hits one that is complete.                                              *)
DoneIsStable == [][torrent /\ running' => bitfield \subseteq bitfield']_vars

(* With peers that come back, unchoke and answer, every piece the user     *)
(* wants arrives, whatever chokes, disconnects, removals, corrupt pieces   *)
(* and pauses interrupt the download.                                      *)
WantedArrives ==
  \A x \in Pieces : (torrent /\ x \notin Skip) ~>
                      (x \in bitfield \/ x \in Skip \/ ~running)

---------------------------------------------------------------------------
(* Statements of the repository that the code does not keep.               *)

(* state.rs, check_invariants: "it is NEVER okay to be in the Need queue   *)
(* while a peer thinks they are downloading it".                           *)
RequestedNotNeeded ==
  \A p \in peers : peer[p].pending_requests \cap need_queue = {}

(* manager.rs, test of perform_validation: "Missing payload must not be    *)
(* treated as fully validated when skip_hashing=true".                     *)
DoneMeansOnDisk == torrent_status = "Done" => bitfield \subseteq disk

(* CHANGELOG: after a pause "downloads do not keep talking to connected    *)
(* peers".                                                                 *)
PausedRequestsNothing ==
  is_paused => \A p \in peers : peer[p].pending_requests = {}

(* state.rs, IncomingBlock: "Always decrement inflight requests [...] If   *)
(* we don't, the pipeline counts never decrease".  With nothing left for   *)
(* the session to deliver, nothing is counted as in flight.                *)
PipelineDrains ==
  \A p \in peers : Connected(p) /\ wire[p] = {} => peer[p].inflight = 0
===========================================================================
