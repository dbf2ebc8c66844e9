----------------------------- MODULE PeerSession -----------------------------
(***************************************************************************)
(* One connected peer: PeerSession::run of src/networking/session.rs, with *)
(* the reader and writer tasks of protocol.rs, the tasks it spawns for     *)
(* BulkRequest and BulkCancel, and, at its two ends, the peer and the      *)
(* torrent manager's view of it.                                           *)
(*                                                                         *)
(* The subject is the request window.  A block may be requested only with  *)
(* a permit of block_request_limit_semaphore; the permit is forgotten when *)
(* the request has been queued for the writer, and a new one is added when *)
(* the block arrives or is cancelled.  Between, block_tracker says which   *)
(* blocks are expected.  Several tasks and the session share both.         *)
(***************************************************************************)
EXTENDS Naturals, Sequences, FiniteSets

CONSTANTS
  Blocks,          \* BlockInfo
  Tasks,           \* identities of the tasks spawned for BulkRequests
  InFlightLimit,   \* PEER_BLOCK_IN_FLIGHT_LIMIT (8)
  MaxWindow,       \* MAX_WINDOW
  Saturated,       \* at most this many free permits is saturation (2)
  SessionCap, ManagerCap, WriterCap, InboxCap,    \* channel capacities
  StallTicks,      \* ticks without a block: 20 s
  IdleTicks,       \* ticks without activity: 120 s
  MaxChokes,       \* bound: how often the peer chokes us
  Chatter          \* bound: both ends send other messages as well

ASSUME SessionAssumption ==
  /\ IsFiniteSet(Blocks) /\ IsFiniteSet(Tasks)
  /\ InFlightLimit \in Nat \ {0}
  /\ MaxWindow \in Nat /\ InFlightLimit <= MaxWindow
  /\ Saturated \in Nat
  /\ \A c \in {SessionCap, ManagerCap, WriterCap, InboxCap} : c \in Nat \ {0}
  /\ StallTicks \in Nat /\ IdleTicks \in Nat /\ MaxChokes \in Nat
  /\ Chatter \in BOOLEAN

VARIABLES
  phase,                     \* handshake, running, closed
  permits, waiters,          \* the semaphore: free permits, FIFO of tasks
  tracker,                   \* block_tracker
  window, shrink,            \* current_window_size, pending_window_shrink
  task,                      \* the BulkRequest tasks
  cancelling,                \* BulkCancel tasks that have not run yet
  forwarding,                \* the block waiting for room in to_manager
  got, warm,                 \* blocks_received_interval > 0, prev_speed > 0
  quiet, idle,               \* ticks since the last block, the last activity
  plan,                      \* adjust_window_size is about to shrink
  to_session, to_manager,    \* torrent_manager_rx, torrent_manager_tx
  writer, inbox,             \* writer_tx, peer_msg_rx
  reader,                    \* the reader task is alive
  owed, choking, chokes,     \* the peer
  asked, finished, unchoked  \* the manager: active_blocks, blocks of written
                             \* pieces, ~peer_choking

semaphore == <<permits, waiters>>
requests == <<semaphore, tracker, window, shrink, task, cancelling>>
timers == <<got, warm, quiet, idle, plan>>
peerSide == <<inbox, reader, owed, choking, chokes>>
managerSide == <<asked, finished, unchoked>>
vars == <<phase, requests, forwarding, timers, to_session, to_manager, writer,
          peerSide, managerSide>>

Free == [at |-> "free"]
NextOf(S) == [at |-> "next", todo |-> S]
With(at, b, S) == [at |-> at, block |-> b, todo |-> S]
Task == {Free} \cup [at : {"next"}, todo : SUBSET Blocks]
          \cup [at : {"queued", "permit", "tracked"}, block : Blocks,
                todo : SUBSET Blocks]

BlockMsg(b) == [msg |-> "Block", block |-> b]
Msg(m) == [msg |-> m]
Bulk(m, S) == [msg |-> m, blocks |-> S]
Other == [msg |-> "Other"]
Message == {BlockMsg(b) : b \in Blocks}
             \cup {Msg(m) : m \in {"Choke", "Unchoke", "Disconnect", "Other"}}
Order == [msg : {"BulkRequest", "BulkCancel"}, blocks : SUBSET Blocks] \cup {Other}

Min(a, b) == IF a < b THEN a ELSE b
Monus(a, b) == IF a < b THEN 0 ELSE a - b

Init ==
  /\ phase = "handshake"
  /\ permits = InFlightLimit /\ waiters = <<>>
  /\ tracker = {} /\ window = InFlightLimit /\ shrink = 0
  /\ task = [t \in Tasks |-> Free]
  /\ cancelling = {} /\ forwarding = {}
  /\ got = FALSE /\ warm = FALSE /\ quiet = 0 /\ idle = 0 /\ plan = "none"
  /\ to_session = <<>> /\ to_manager = <<>> /\ writer = <<>> /\ inbox = <<>>
  /\ reader = TRUE
  /\ owed = [b \in Blocks |-> 0] /\ choking = TRUE /\ chokes = 0
  /\ asked = {} /\ finished = {} /\ unchoked = FALSE

Running == phase = "running"

(* The outer select! of the session: not while a block waits to be sent on, *)
(* nor in the middle of adjust_window_size.                                *)
Selecting == Running /\ forwarding = {} /\ plan = "none"

(* try_send: dropped when the channel is full.                             *)
TrySend(q, cap, m) == IF Len(q) < cap THEN Append(q, m) ELSE q

Without(s, i) == [j \in 1 .. Len(s) - 1 |-> IF j < i THEN s[j] ELSE s[j + 1]]

(* add_permits: waiting tasks are served first, in order.                  *)
AddPermits(n) ==
  LET k == Min(n, Len(waiters))
      served == {waiters[i] : i \in 1..k}
  IN /\ permits' = permits + (n - k)
     /\ waiters' = SubSeq(waiters, k + 1, Len(waiters))
     /\ task' = [t \in Tasks |-> IF t \in served THEN [task[t] EXCEPT !.at = "permit"]
                                                 ELSE task[t]]

---------------------------------------------------------------------------
(* The session task.                                                       *)

(* The session returns: its channels, its reader and its writer go, and    *)
(* with the writer every spawned task fails at its next send.  The         *)
(* DisconnectGuard tells the manager, if the channel has room.             *)
End ==
  /\ phase' = "closed"
  /\ permits' = InFlightLimit /\ waiters' = <<>>
  /\ tracker' = {} /\ window' = InFlightLimit /\ shrink' = 0
  /\ task' = [t \in Tasks |-> Free]
  /\ cancelling' = {} /\ forwarding' = {}
  /\ got' = FALSE /\ warm' = FALSE /\ quiet' = 0 /\ idle' = 0 /\ plan' = "none"
  /\ to_session' = <<>> /\ writer' = <<>> /\ inbox' = <<>>
  /\ reader' = FALSE /\ owed' = [b \in Blocks |-> 0] /\ choking' = TRUE
  /\ to_manager' = TrySend(to_manager, ManagerCap, Msg("Disconnect"))
  /\ UNCHANGED <<chokes, managerSide>>

(* Handshake and info-hash check; when they fail, Close ends the session.  *)
Handshake ==
  /\ phase = "handshake"
  /\ phase' = "running"
  /\ UNCHANGED <<requests, forwarding, timers, to_session, to_manager, writer,
                 peerSide, managerSide>>

FromPeer(m) == Selecting /\ inbox # <<>> /\ Head(inbox).msg = m

(* Message::Piece, with the window shrink realised by keeping the permit.  *)
ReturnPermit ==
  \/ /\ shrink > 0
     /\ shrink' = shrink - 1
     /\ UNCHANGED <<semaphore, task>>
  \/ /\ shrink = 0
     /\ AddPermits(1)
     /\ UNCHANGED shrink

(* Only an expected block is sent on to the manager.                       *)
ToForward_All(b) == {b}
ToForward(b) == tracker \cap {b}

Piece ==
  /\ FromPeer("Block")
  /\ inbox' = Tail(inbox)
  /\ idle' = 0
  /\ LET b == Head(inbox).block IN
       /\ forwarding' = ToForward(b)
       /\ tracker' = tracker \ {b}
       /\ \/ /\ b \in tracker
             /\ ReturnPermit
             /\ got' = TRUE /\ quiet' = 0
          \/ /\ b \notin tracker
             /\ UNCHANGED <<semaphore, task, shrink, got, quiet>>
  /\ UNCHANGED <<phase, window, cancelling, warm, plan, to_session, to_manager,
                 writer, reader, owed, choking, chokes, managerSide>>

(* manager_tx.reserve() succeeds.                                          *)
Forward ==
  /\ Running
  /\ Len(to_manager) < ManagerCap
  /\ \E b \in forwarding : to_manager' = Append(to_manager, BlockMsg(b))
  /\ forwarding' = {}
  /\ UNCHANGED <<phase, requests, timers, to_session, writer, peerSide, managerSide>>

Choke ==
  /\ FromPeer("Choke")
  /\ inbox' = Tail(inbox)
  /\ idle' = 0
  /\ tracker' = {} /\ shrink' = 0 /\ window' = InFlightLimit
  /\ AddPermits(Monus(InFlightLimit, permits))
  /\ to_manager' = TrySend(to_manager, ManagerCap, Msg("Choke"))
  /\ UNCHANGED <<phase, cancelling, forwarding, got, warm, quiet, plan, to_session, writer,
                 reader, owed, choking, chokes, managerSide>>

Unchoke ==
  /\ FromPeer("Unchoke")
  /\ inbox' = Tail(inbox)
  /\ idle' = 0
  /\ to_manager' = TrySend(to_manager, ManagerCap, Msg("Unchoke"))
  /\ UNCHANGED <<phase, requests, forwarding, got, warm, quiet, plan, to_session, writer,
                 reader, owed, choking, chokes, managerSide>>

(* Every other message counts as activity; most are offered to the manager. *)
OtherMessage ==
  /\ FromPeer("Other")
  /\ inbox' = Tail(inbox)
  /\ idle' = 0
  /\ to_manager' \in {to_manager, TrySend(to_manager, ManagerCap, Other)}
  /\ UNCHANGED <<phase, requests, forwarding, got, warm, quiet, plan, to_session, writer,
                 reader, owed, choking, chokes, managerSide>>

(* process_manager_command: also while a block waits to be sent on.  Tasks *)
(* bounds how many BulkRequest tasks are alive at once.                    *)
Command(m) == Running /\ plan = "none" /\ to_session # <<>> /\ Head(to_session).msg = m

BulkRequest ==
  /\ Command("BulkRequest")
  /\ \E t \in Tasks :
       /\ task[t] = Free
       /\ task' = [task EXCEPT ![t] = NextOf(Head(to_session).blocks)]
  /\ to_session' = Tail(to_session) /\ idle' = 0
  /\ UNCHANGED <<phase, semaphore, tracker, window, shrink, cancelling, forwarding,
                 got, warm, quiet, plan, to_manager, writer, peerSide, managerSide>>

BulkCancel ==
  /\ Command("BulkCancel")
  /\ cancelling' = cancelling \cup {Head(to_session).blocks}
  /\ to_session' = Tail(to_session) /\ idle' = 0
  /\ UNCHANGED <<phase, semaphore, tracker, window, shrink, task, forwarding,
                 got, warm, quiet, plan, to_manager, writer, peerSide, managerSide>>

(* Haves, chokes, uploads, hashes: messages for the peer.  Most count as   *)
(* activity; peer exchange and commands the session ignores do not.        *)
OtherCommand ==
  /\ Command("Other")
  /\ to_session' = Tail(to_session) /\ idle' \in {0, idle}
  /\ UNCHANGED <<phase, requests, forwarding, got, warm, quiet, plan, to_manager,
                 writer, peerSide, managerSide>>

(* adjust_window_size, once a second.  Of the speeds only their signs are  *)
(* kept, so between two intervals with blocks any comparison may come out. *)
(* The free permits are read first: other threads may take them before     *)
(* shrink_window tries to.                                                 *)
InFlight == Monus(window, permits)

TimedOut == idle > IdleTicks
Stalled_Never == FALSE
Stalled == InFlight > 0 /\ quiet > StallTicks

Faster == got
Slower == warm
Steady == got = warm

Same == UNCHANGED <<window, semaphore, task, plan>>
Grow ==
  IF window < MaxWindow THEN window' = window + 1 /\ AddPermits(1) /\ UNCHANGED plan
                        ELSE Same
Shrink_Below ==
  /\ plan' = "shrink"
  /\ UNCHANGED <<window, semaphore, task>>
Shrink ==
  /\ plan' = IF window > InFlightLimit THEN "shrink" ELSE "none"
  /\ UNCHANGED <<window, semaphore, task>>

adjust_window_size ==
  \/ permits <= Saturated /\ Faster /\ Grow
  \/ permits <= Saturated /\ Slower /\ Shrink
  \/ permits <= Saturated /\ Steady /\ Same
  \/ permits > Saturated /\ permits > window \div 2 /\ Shrink
  \/ permits > Saturated /\ permits <= window \div 2 /\ Same

Tick ==
  /\ Selecting
  /\ ~TimedOut /\ ~Stalled
  /\ adjust_window_size
  /\ got' = FALSE /\ warm' = (warm \/ got)
  /\ quiet' = Min(quiet + 1, StallTicks + 1)
  /\ idle' = Min(idle + 1, IdleTicks + 1)
  /\ UNCHANGED <<phase, tracker, shrink, cancelling, forwarding, to_session,
                 to_manager, writer, peerSide, managerSide>>

TickEnds == Selecting /\ (TimedOut \/ Stalled) /\ End

shrink_window ==
  /\ Running /\ plan = "shrink"
  /\ plan' = "none"
  /\ window' = window - 1
  /\ \/ permits > 0 /\ permits' = permits - 1 /\ UNCHANGED shrink
     \/ permits = 0 /\ shrink' = shrink + 1 /\ UNCHANGED permits
  /\ UNCHANGED <<phase, waiters, tracker, task, cancelling, forwarding, got, warm,
                 quiet, idle, to_session, to_manager, writer, peerSide, managerSide>>

(* Disconnect, session_cancel, shutdown, a failed handshake, a writer      *)
(* error, a flood.                                                         *)
Close == phase # "closed" /\ plan = "none" /\ End

---------------------------------------------------------------------------
(* The spawned tasks.                                                      *)

(* The loop of a BulkRequest task asks for a permit for its next block.    *)
TaskNext(t) ==
  /\ Running /\ task[t].at = "next"
  /\ \/ /\ task[t].todo = {}
        /\ task' = [task EXCEPT ![t] = Free]
        /\ UNCHANGED semaphore
     \/ \E b \in task[t].todo :
          LET rest == task[t].todo \ {b} IN
          \/ /\ permits > 0
             /\ permits' = permits - 1
             /\ task' = [task EXCEPT ![t] = With("permit", b, rest)]
             /\ UNCHANGED waiters
          \/ /\ permits = 0
             /\ waiters' = Append(waiters, t)
             /\ task' = [task EXCEPT ![t] = With("queued", b, rest)]
             /\ UNCHANGED permits
  /\ UNCHANGED <<phase, tracker, window, shrink, cancelling, forwarding, timers,
                 to_session, to_manager, writer, peerSide, managerSide>>

(* Ten seconds without a permit: the block is given up.                    *)
TaskTimeout(t) ==
  /\ Running /\ task[t].at = "queued"
  /\ \E i \in DOMAIN waiters : waiters[i] = t /\ waiters' = Without(waiters, i)
  /\ task' = [task EXCEPT ![t] = NextOf(task[t].todo)]
  /\ UNCHANGED <<phase, permits, tracker, window, shrink, cancelling, forwarding,
                 timers, to_session, to_manager, writer, peerSide, managerSide>>

(* The block is expected before its request can be answered.               *)
TaskTrack(t) ==
  /\ Running /\ task[t].at = "permit"
  /\ tracker' = tracker \cup {task[t].block}
  /\ task' = [task EXCEPT ![t].at = "tracked"]
  /\ UNCHANGED <<phase, semaphore, window, shrink, cancelling, forwarding, timers,
                 to_session, to_manager, writer, peerSide, managerSide>>

(* The request is queued for the writer, and the permit forgotten.         *)
TaskSend(t) ==
  /\ Running /\ task[t].at = "tracked"
  /\ Len(writer) < WriterCap
  /\ writer' = Append(writer, task[t].block)
  /\ task' = [task EXCEPT ![t] = NextOf(task[t].todo)]
  /\ UNCHANGED <<phase, semaphore, tracker, window, shrink, cancelling, forwarding,
                 timers, to_session, to_manager, peerSide, managerSide>>

(* A BulkCancel task: the blocks it takes out of the tracker, and a permit *)
(* for each of those only; some may have arrived or never been requested.  *)
Cancelled_All(S) == tracker
Cancelled(S) == S \cap tracker
Refund_All(S) == Cardinality(S)
Refund(S) == Cardinality(Cancelled(S))

CancelTask(S) ==
  /\ Running /\ S \in cancelling
  /\ cancelling' = cancelling \ {S}
  /\ tracker' = tracker \ Cancelled(S)
  /\ AddPermits(Refund(S))
  /\ UNCHANGED <<phase, window, shrink, forwarding, timers, to_session, to_manager,
                 writer, peerSide, managerSide>>

---------------------------------------------------------------------------
(* The peer.  It may ignore a request, and drops the ones it holds, and    *)
(* those that reach it, while it chokes us.  A cancel that comes too late, *)
(* or is lost, makes no difference to it.                                  *)

PeerGetsRequest ==
  /\ Running /\ writer # <<>>
  /\ writer' = Tail(writer)
  /\ owed' = IF choking THEN owed ELSE [owed EXCEPT ![Head(writer)] = @ + 1]
  /\ UNCHANGED <<phase, requests, forwarding, timers, to_session, to_manager,
                 inbox, reader, choking, chokes, managerSide>>

Reads == Running /\ reader /\ Len(inbox) < InboxCap

PeerAnswers(b) ==
  /\ Reads /\ owed[b] > 0
  /\ owed' = [owed EXCEPT ![b] = @ - 1]
  /\ inbox' = Append(inbox, BlockMsg(b))
  /\ UNCHANGED <<phase, requests, forwarding, timers, to_session, to_manager,
                 writer, reader, choking, chokes, managerSide>>

PeerChokes ==
  /\ Reads /\ ~choking /\ chokes < MaxChokes
  /\ choking' = TRUE /\ chokes' = chokes + 1
  /\ owed' = [b \in Blocks |-> 0]
  /\ inbox' = Append(inbox, Msg("Choke"))
  /\ UNCHANGED <<phase, requests, forwarding, timers, to_session, to_manager,
                 writer, reader, managerSide>>

PeerUnchokes ==
  /\ Reads /\ choking
  /\ choking' = FALSE
  /\ inbox' = Append(inbox, Msg("Unchoke"))
  /\ UNCHANGED <<phase, requests, forwarding, timers, to_session, to_manager,
                 writer, reader, owed, chokes, managerSide>>

PeerSendsOther ==
  /\ Chatter /\ Reads
  /\ inbox' = Append(inbox, Other)
  /\ UNCHANGED <<phase, requests, forwarding, timers, to_session, to_manager,
                 writer, reader, owed, choking, chokes, managerSide>>

(* End of stream, a socket error, or a message that does not parse.        *)
ReaderEnds ==
  /\ Running /\ reader
  /\ reader' = FALSE
  /\ UNCHANGED <<phase, requests, forwarding, timers, to_session, to_manager,
                 writer, inbox, owed, choking, chokes, managerSide>>

---------------------------------------------------------------------------
(* The torrent manager, as far as it talks to this session.                *)

(* A command for a session that has ended is dropped, as for a full one.   *)
Send(m) ==
  to_session' = IF phase = "closed" THEN to_session
                                    ELSE TrySend(to_session, SessionCap, m)

(* AssignWork: blocks not asked of this peer already.                      *)
ManagerRequests(S) ==
  /\ unchoked
  /\ S # {} /\ S \cap (asked \cup finished) = {}
  /\ asked' = asked \cup S
  /\ Send(Bulk("BulkRequest", S))
  /\ UNCHANGED <<phase, requests, forwarding, timers, to_manager, writer, peerSide,
                 finished, unchoked>>

(* PieceWrittenToDisk: the blocks of S came from another peer.             *)
ManagerCancels(S) ==
  /\ S # {} /\ S \cap finished = {}
  /\ finished' = finished \cup S
  /\ Send(Bulk("BulkCancel", S))
  /\ UNCHANGED <<phase, requests, forwarding, timers, to_manager, writer, peerSide,
                 asked, unchoked>>

ManagerSendsOther ==
  /\ Chatter
  /\ Send(Other)
  /\ UNCHANGED <<phase, requests, forwarding, timers, to_manager, writer, peerSide,
                 managerSide>>

ManagerReceives ==
  /\ to_manager # <<>>
  /\ to_manager' = Tail(to_manager)
  /\ LET m == Head(to_manager) IN
       \/ /\ m.msg \in {"Choke", "Disconnect"}
          /\ asked' = {} /\ unchoked' = FALSE
       \/ /\ m.msg = "Unchoke"
          /\ unchoked' = TRUE /\ UNCHANGED asked
       \/ /\ m.msg = "Other"
          /\ UNCHANGED <<asked, unchoked>>
       \/ /\ m.msg = "Block"
          /\ asked' = asked \ {m.block} /\ UNCHANGED unchoked
  /\ UNCHANGED <<phase, requests, forwarding, timers, to_session, writer, peerSide,
                 finished>>

---------------------------------------------------------------------------
Session ==
  \/ Handshake \/ Piece \/ Forward \/ Choke \/ Unchoke \/ OtherMessage
  \/ BulkRequest \/ BulkCancel \/ OtherCommand
  \/ Tick \/ TickEnds \/ shrink_window \/ Close
Spawned ==
  \/ \E t \in Tasks : TaskNext(t) \/ TaskTimeout(t) \/ TaskTrack(t) \/ TaskSend(t)
  \/ \E S \in cancelling : CancelTask(S)
Peer ==
  \/ PeerGetsRequest \/ PeerChokes \/ PeerUnchokes \/ PeerSendsOther \/ ReaderEnds
  \/ \E b \in Blocks : PeerAnswers(b)
Manager ==
  \/ \E S \in SUBSET Blocks : ManagerRequests(S) \/ ManagerCancels(S)
  \/ ManagerSendsOther \/ ManagerReceives

Next == Session \/ Spawned \/ Peer \/ Manager

Spec == Init /\ [][Next]_vars

(* Ready tasks run, timers fire, the writer and the manager drain their    *)
(* channels.  Nothing is asked of the peer.                                *)
Fairness ==
  /\ WF_vars(Piece \/ Choke \/ Unchoke \/ OtherMessage) /\ WF_vars(Forward)
  /\ WF_vars(BulkRequest \/ BulkCancel \/ OtherCommand)
  /\ WF_vars(Tick \/ TickEnds) /\ WF_vars(shrink_window)
  /\ WF_vars(PeerGetsRequest) /\ WF_vars(ManagerReceives)
  /\ \A t \in Tasks : WF_vars(TaskNext(t) \/ TaskTimeout(t) \/ TaskTrack(t) \/ TaskSend(t))

FairSpec == Spec /\ Fairness

---------------------------------------------------------------------------
(* Properties.                                                             *)

TypeOK ==
  /\ phase \in {"handshake", "running", "closed"}
  /\ permits \in Nat /\ waiters \in Seq(Tasks)
  /\ tracker \subseteq Blocks
  /\ window \in InFlightLimit..MaxWindow /\ shrink \in Nat
  /\ task \in [Tasks -> Task]
  /\ cancelling \subseteq SUBSET Blocks
  /\ forwarding \subseteq Blocks
  /\ got \in BOOLEAN /\ warm \in BOOLEAN /\ plan \in {"none", "shrink"}
  /\ quiet \in 0..StallTicks + 1 /\ idle \in 0..IdleTicks + 1
  /\ to_session \in Seq(Order) /\ to_manager \in Seq(Message)
  /\ writer \in Seq(Blocks) /\ inbox \in Seq(Message)
  /\ reader \in BOOLEAN /\ owed \in [Blocks -> Nat]
  /\ choking \in BOOLEAN /\ chokes \in Nat
  /\ asked \subseteq Blocks /\ finished \subseteq Blocks /\ unchoked \in BOOLEAN

(* Every unit of the window is a free permit, a permit in the hand of a    *)
(* task, or an expected block: none is lost or minted by answers, timeouts,*)
(* cancellations and window changes in any order.  A choke starts over     *)
(* with a fresh window and is left out.                                    *)
Held == {t \in Tasks : task[t].at = "permit"}
Budget == permits + Cardinality(Held) + Cardinality(tracker)

WindowConserved == chokes = 0 => Budget = window + shrink

(* An answer to a request that was neither cancelled nor choked away finds *)
(* its block expected, however early it arrives.                           *)
Asked(b) ==
  \/ owed[b] > 0
  \/ \E i \in DOMAIN writer : writer[i] = b
  \/ \E i \in DOMAIN inbox : inbox[i] = BlockMsg(b)

AnswersExpected ==
  chokes = 0 => \A b \in Blocks : Asked(b) => b \in tracker \cup finished

(* The session delivers only blocks that a request of the manager made     *)
(* deliverable and that no choke or cancellation took back, whatever late  *)
(* answers the peer sends.                                                 *)
Queued == UNION {to_session[i].blocks : i \in {j \in DOMAIN to_session :
                                         to_session[j].msg = "BulkRequest"}}
InTask(t) == CASE task[t].at \in {"free"} -> {}
               [] task[t].at \in {"next", "tracked"} -> task[t].todo
               [] task[t].at \in {"queued", "permit"} -> task[t].todo \cup {task[t].block}
Deliverable ==
  Queued \cup (UNION {InTask(t) : t \in Tasks}) \cup tracker \cup forwarding

Link == INSTANCE PeerLink WITH wire <- Deliverable, up <- to_manager

ImplementsPeerLink == Link!Spec

(* A connection whose reader has ended with blocks outstanding is given up *)
(* by the 20 s stall check, although commands keep it from ever being idle *)
(* for 120 s.  Without the assumption it need not be: a cancellation gives *)
(* permits back without settling a pending shrink, and a choke refills the *)
(* window while a task holds a permit, after which in_flight reads 0.      *)
SilentPeerLeaves ==
  [](chokes = 0 /\ finished = {}) =>
    (~reader /\ tracker # {} ~> tracker = {} \/ phase = "closed")

===========================================================================
