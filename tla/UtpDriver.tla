------------------------------ MODULE UtpDriver ------------------------------
(***************************************************************************)
(* What one uTP driver task (networking/utp.rs, run_utp_driver) computes:  *)
(* its state and the pure part of its handlers.  Utp composes two of them  *)
(* with the network and the applications.                                  *)
(*                                                                         *)
(* Sequence numbers are the code's u16.  A byte of the stream is its       *)
(* position in what the application wrote, so a payload is a sequence of   *)
(* positions.  A handler returns a step record                             *)
(*   d     the driver's state after it                                     *)
(*   out   the packets it sent, in order                                   *)
(*   up    the bytes it wrote to the application's stream                  *)
(*   err   whether it ended with an error                                  *)
(* Clocks, RTT and delay samples are left out: what they decide is given   *)
(* as a set of outcomes (WindowOutcomes) or a parameter (due).             *)
(***************************************************************************)
EXTENDS Integers, Sequences, FiniteSets, Functions, FiniteSetsExt

CONSTANTS
  MinPacket,          \* MIN_PACKET_SIZE
  MaxPacket,          \* max_packet_size
  MinWindow,          \* tuning.minimum_window_bytes
  MaxWindow,          \* bound: the congestion window's largest value
  ReceiveWindow,      \* RECEIVE_WINDOW = STREAM_BUFFER
  MaxInflight,        \* MAX_INFLIGHT_PACKETS
  MaxOutOfOrder,      \* MAX_OUT_OF_ORDER_PACKETS
  MaxRetransmits,     \* MAX_RETRANSMITS
  AckThreshold,       \* DELAYED_ACK_PACKET_THRESHOLD
  LossEvidence        \* duplicate or later acks that mean a loss (3)

ASSUME UtpAssumption ==
  /\ MinPacket \in Nat \ {0} /\ MaxPacket \in Nat /\ MinPacket <= MaxPacket
  /\ MinWindow \in Nat /\ MaxWindow \in Nat
  /\ MaxPacket <= MaxWindow /\ MinWindow <= MaxWindow
  /\ ReceiveWindow \in Nat \ {0}
  /\ MaxInflight \in Nat \ {0} /\ MaxOutOfOrder \in Nat
  /\ MaxRetransmits \in Nat
  /\ AckThreshold \in Nat \ {0} /\ LossEvidence \in Nat \ {0}

SeqSpace == 65536
Half == 32768
wrapping_add(a, b) == (a + b) % SeqSpace
wrapping_sub(a, b) == (a - b) % SeqSpace

seq_lte(lhs, rhs) == wrapping_sub(rhs, lhs) < Half
seq_gt(lhs, rhs) == lhs # rhs /\ wrapping_sub(lhs, rhs) < Half

-----------------------------------------------------------------------------
(* The driver's state and the packets.                                     *)

\* UtpDriverState with the local variables of run_utp_driver.
Driver(next, last, ack, remoteWindow) ==
  [next_send |-> next, last_remote |-> last,
   pending |-> <<>>, unacked |-> <<>>, ooo |-> <<>>, acks |-> 0,
   local_eof |-> FALSE, fin_sent |-> FALSE,
   remote_fin |-> {}, remote_eof |-> FALSE,
   remote_window |-> remoteWindow, window |-> MaxPacket,
   packet_size |-> MaxPacket, last_ack |-> ack, dups |-> 0,
   buffered |-> 0]

Step(d) == [d |-> d, out |-> <<>>, up |-> <<>>, err |-> FALSE]

\* The elements of s whose index is in I, in their order.
Keep(s, I) ==
  LET kept[i \in 0 .. Len(s)] ==
        IF i = 0 THEN <<>>
        ELSE IF i \in I THEN Append(kept[i - 1], s[i]) ELSE kept[i - 1]
  IN  kept[Len(s)]

Bytes(packets) == FoldFunction(LAMBDA u, n : n + Len(u.payload), 0, packets)
BufferedAhead(d) ==
  FoldSet(LAMBDA q, n : n + Len(d.ooo[q]), 0, DOMAIN d.ooo)

advertised_window(d) ==
  LET buffered == BufferedAhead(d) + d.buffered
  IN  IF buffered >= ReceiveWindow THEN 0 ELSE ReceiveWindow - buffered

\* The mask has 32 bits, the first of which stands for ack + 2.
selective_ack_for(d) ==
  {o \in 2 .. 33 : wrapping_add(d.last_remote, o) \in DOMAIN d.ooo}

selective_ack_contains(sack, ack, seq) == wrapping_sub(seq, ack) \in sack

\* send_payload_packet and send_fin_packet: no selective ack.
Carrying(d, u) ==
  [type |-> u.type, seq |-> u.seq, ack |-> d.last_remote, sack |-> {},
   wnd |-> advertised_window(d), payload |-> u.payload]

StatePacket(d) ==
  [type |-> "STATE", seq |-> d.next_send, ack |-> d.last_remote,
   sack |-> selective_ack_for(d), wnd |-> advertised_window(d),
   payload |-> <<>>]

flush_delayed_ack(s) ==
  IF s.d.acks = 0 THEN s
  ELSE [s EXCEPT !.out = Append(@, StatePacket(s.d)), !.d.acks = 0]

queue_state_ack(s, immediate) ==
  LET queued == [s EXCEPT !.d.acks = @ + 1]
  IN  IF immediate \/ queued.d.acks >= AckThreshold
      THEN flush_delayed_ack(queued) ELSE queued
-----------------------------------------------------------------------------
(* Sending.                                                                *)

send_window_bytes(d) == Min({Max({d.window, MinPacket}), d.remote_window})

NextChunk(d) == Min({Len(Head(d.pending)), d.packet_size})

MaySend(d) ==
  /\ d.pending # <<>> /\ Len(d.unacked) < MaxInflight
  /\ Bytes(d.unacked) + NextChunk(d) <= send_window_bytes(d)

\* pop_next_payload_chunk and the send, with type DATA.
SendChunk(s) ==
  LET d == s.d
      n == NextChunk(d)
      front == Head(d.pending)
      rest == SubSeq(front, n + 1, Len(front))
      u == [type |-> "DATA", seq |-> d.next_send,
            payload |-> SubSeq(front, 1, n), retransmits |-> 0]
  IN  [s EXCEPT !.out = Append(@, Carrying(d, u)),
                !.d.pending = (IF rest = <<>> THEN <<>> ELSE <<rest>>)
                              \o Tail(d.pending),
                !.d.next_send = wrapping_add(@, 1),
                !.d.unacked = Append(@, u)]

\* The loop: every turn of it sends a packet, so it has MaxInflight at most.
SendNext(s) == IF MaySend(s.d) THEN SendChunk(s) ELSE s

flush_pending_payloads(s) ==
  LET after[n \in 0 .. MaxInflight] ==
        IF n = 0 THEN s ELSE SendNext(after[n - 1])
  IN  after[MaxInflight]

send_fin_packet(s) ==
  LET u == [type |-> "FIN", seq |-> s.d.next_send, payload |-> <<>>,
            retransmits |-> 0]
  IN  [s EXCEPT !.out = Append(@, Carrying(s.d, u)),
                !.d.next_send = wrapping_add(@, 1),
                !.d.unacked = Append(@, u), !.d.fin_sent = TRUE]

\* Mutant: the FIN and the return do not wait for acknowledgements.
LoopTop_Hasty(s) ==
  LET f == flush_pending_payloads(s)
      idle == f.d.local_eof /\ f.d.pending = <<>>
      g == IF idle THEN flush_delayed_ack(f) ELSE f
  IN  IF idle /\ ~f.d.fin_sent
      THEN [s |-> send_fin_packet(g), done |-> FALSE]
      ELSE [s |-> g, done |-> idle]

\* The top of run_utp_driver's loop, which every branch of its select comes
\* back to; done says that it returns.
LoopTop(s) ==
  LET f == flush_pending_payloads(s)
      idle == f.d.local_eof /\ f.d.pending = <<>> /\ f.d.unacked = <<>>
      g == IF idle THEN flush_delayed_ack(f) ELSE f
  IN  IF idle /\ ~f.d.fin_sent
      THEN [s |-> send_fin_packet(g), done |-> FALSE]
      ELSE [s |-> g, done |-> idle]

-----------------------------------------------------------------------------
(* Losses and acknowledgements.                                            *)

\* retransmit_packet: lossy counts what was sent again.  due says that the
\* packet's timeout has passed since it was last sent.
retransmit_packet(s, seq, due) ==
  LET at == {i \in DOMAIN s.d.unacked : s.d.unacked[i].seq = seq}
      i == Min(at)
      u == s.d.unacked[i]
  IN  CASE at = {} \/ s.err -> s
        [] at # {} /\ ~s.err /\ u.retransmits > 0 /\ ~due -> s
        [] at # {} /\ ~s.err /\ (u.retransmits = 0 \/ due)
           /\ u.retransmits >= MaxRetransmits -> [s EXCEPT !.err = TRUE]
        [] OTHER -> [s EXCEPT !.out = Append(@, Carrying(s.d, u)),
                              !.d.unacked[i].retransmits = @ + 1]

on_packet_loss(d) ==
  [d EXCEPT !.window = Max({@ \div 2, MinPacket, MinWindow}),
            !.packet_size = MinPacket]

\* Mutant: sequence numbers are compared without regard to their wrap.
acknowledge_packets_NoWrap(d, p) ==
  LET sent == DOMAIN d.unacked
      below == {i \in sent : d.unacked[i].seq <= p.ack}
      acked == below \cup {i \in sent : selective_ack_contains(
                                         p.sack, p.ack, d.unacked[i].seq)}
  IN  [retained |-> Keep(d.unacked, sent \ acked),
       acked |-> Keep(d.unacked, acked),
       advanced |-> below # {}, fast |-> <<>>]

acknowledge_packets(d, p) ==
  LET future == d.unacked # <<>>
                /\ seq_gt(p.ack, wrapping_sub(d.next_send, 1))
      sent == IF future THEN {} ELSE DOMAIN d.unacked
      Nr(i) == d.unacked[i].seq
      below == {i \in sent : seq_lte(Nr(i), p.ack)}
      acked == below \cup
               {i \in sent : selective_ack_contains(p.sack, p.ack, Nr(i))}
      LaterAcked(i) == {j \in acked : seq_gt(Nr(j), Nr(i))}
      lost == {i \in sent \ acked : Cardinality(LaterAcked(i)) >= LossEvidence}
  IN  [retained |-> Keep(d.unacked, DOMAIN d.unacked \ acked),
       acked |-> Keep(d.unacked, acked),
       advanced |-> below # {},
       fast |-> Keep(d.unacked, lost)]

\* apply_ack_outcome, without its effect on the window.
apply_ack_outcome(s, o, p, due) ==
  LET same == p.type = "STATE" /\ p.ack = s.d.last_ack /\ ~o.advanced
      lost == same /\ s.d.dups + 1 >= LossEvidence
      kept == [s EXCEPT !.d.unacked = o.retained,
                        !.d.last_ack = p.ack,
                        !.d.dups = IF same /\ ~lost THEN @ + 1 ELSE 0]
      first == IF lost
               THEN retransmit_packet(kept, wrapping_add(p.ack, 1), due)
               ELSE kept
      after[n \in 0 .. Len(o.fast)] ==
        IF n = 0 THEN first
        ELSE retransmit_packet(after[n - 1], o.fast[n].seq, due)
  IN  after[Len(o.fast)]

\* A delay above the target shrinks window and packets, one below it lets the
\* window grow; w is the window before the minimum is applied.
update_congestion_window(d, w) ==
  LET window == Max({w, MinWindow})
  IN  {[d EXCEPT !.window = window, !.packet_size = z] :
         z \in {x \in {MinPacket, MaxPacket} :
                  IF x = MinPacket /\ MinPacket < MaxPacket
                  THEN w <= d.window ELSE w >= d.window}}

\* What on_packet_loss, which counts once an interval, and then
\* update_congestion_window can make of window and packet_size.
WindowOutcomes(d, lossy, acked) ==
  LET afterLoss == IF lossy THEN {d, on_packet_loss(d)} ELSE {d}
  IN  IF acked = 0 THEN afterLoss
      ELSE UNION {update_congestion_window(x, w) :
                    x \in afterLoss, w \in 0 .. MaxWindow}
-----------------------------------------------------------------------------
(* Receiving.  at is the application's side of the stream: whether it      *)
(* dropped it (closed), how many bytes it has not read (unread), and when  *)
(* it reads: "late", by a step of its own; "prompt", before the driver's   *)
(* next send; "racing", on another thread, between the driver's write and  *)
(* its count of what was written.                                          *)

write_all_tracked(s, payload, at) ==
  LET unread == IF at.reads = "late" THEN at.unread + Len(s.up)
                ELSE IF s.up = <<>> THEN at.unread ELSE 0
      after == unread + Len(payload)
      Released(n) == Max({n - after, 0})
      buffered == CASE at.reads = "late" -> s.d.buffered + Len(payload)
                    [] at.reads = "prompt" -> Released(s.d.buffered + Len(payload))
                    [] at.reads = "racing" -> Released(s.d.buffered) + Len(payload)
  IN  CASE payload = <<>> -> s
        [] payload # <<>> /\ at.closed -> [s EXCEPT !.err = TRUE]
        [] OTHER -> [s EXCEPT !.up = @ \o payload, !.d.buffered = buffered]

Expected(d) == wrapping_add(d.last_remote, 1)

Without(f, q) == [x \in DOMAIN f \ {q} |-> f[x]]

\* A turn of the loop, and whether it goes on.
DeliverNext(s, at) ==
  LET q == Expected(s.d)
      taken == [s EXCEPT !.d.ooo = Without(@, q), !.d.last_remote = q]
      written == write_all_tracked(taken, s.d.ooo[q], at)
  IN  CASE q \notin DOMAIN s.d.ooo -> [s |-> s, more |-> FALSE]
        [] q \in DOMAIN s.d.ooo /\ q \in s.d.remote_fin ->
             [s |-> [taken EXCEPT !.d.remote_eof = TRUE, !.d.local_eof = TRUE],
              more |-> FALSE]
        [] OTHER -> [s |-> written, more |-> ~written.err]

\* Every turn but the last takes a packet out of ooo.
deliver_buffered_payloads(s, at) ==
  LET turns == Cardinality(DOMAIN s.d.ooo)
      after[n \in 0 .. turns] ==
        IF n = 0 THEN [s |-> s, more |-> TRUE]
        ELSE IF after[n - 1].more THEN DeliverNext(after[n - 1].s, at)
        ELSE after[n - 1]
  IN  after[turns].s

HasRoom(d) == Cardinality(DOMAIN d.ooo) < MaxOutOfOrder

\* entry(seq).or_insert(payload)
Ahead(d, p) ==
  [d EXCEPT !.ooo = IF p.seq \in DOMAIN @ THEN @
                    ELSE [x \in DOMAIN @ \cup {p.seq} |->
                            IF x = p.seq THEN p.payload ELSE @[x]]]

\* Mutant: what is ahead is delivered as if it were next.
ReceiveData_AnyOrder(s, p, at) ==
  LET next == deliver_buffered_payloads(
                [write_all_tracked(s, p.payload, at) EXCEPT
                   !.d.last_remote = p.seq], at)
  IN  IF p.seq = Expected(s.d) \/ seq_gt(p.seq, Expected(s.d))
      THEN IF next.err THEN next ELSE queue_state_ack(next, s.d.ooo # <<>>)
      ELSE queue_state_ack(s, TRUE)

ReceiveData(s, p, at) ==
  LET inOrder == p.seq = Expected(s.d)
      written == write_all_tracked(s, p.payload, at)
      taken == [written EXCEPT !.d.last_remote = p.seq]
      next == IF written.err THEN written
              ELSE deliver_buffered_payloads(taken, at)
      ahead == seq_gt(p.seq, Expected(s.d)) /\ HasRoom(s.d)
  IN  CASE inOrder -> IF next.err THEN next
                      ELSE queue_state_ack(next, s.d.ooo # <<>>)
        [] ahead -> queue_state_ack([s EXCEPT !.d = Ahead(@, p)], TRUE)
        [] OTHER -> queue_state_ack(s, TRUE)

ReceiveFin(s, p) ==
  LET eof == [s EXCEPT !.d.remote_eof = TRUE, !.d.local_eof = TRUE]
      got == CASE p.seq = Expected(s.d) ->
                    [eof EXCEPT !.d.remote_fin = {p.seq},
                                !.d.last_remote = p.seq]
               [] seq_gt(p.seq, Expected(s.d)) /\ HasRoom(s.d) ->
                    [s EXCEPT !.d = Ahead([@ EXCEPT !.remote_fin = {p.seq}], p)]
               [] p.seq # Expected(s.d)
                  /\ ~(seq_gt(p.seq, Expected(s.d)) /\ HasRoom(s.d))
                  /\ \E q \in s.d.remote_fin : seq_lte(q, s.d.last_remote) -> eof
               [] OTHER -> s
  IN  queue_state_ack(got, TRUE)

\* process_incoming_packet: every outcome.
process_incoming_packet(d, p, at, due) ==
  LET heard == [d EXCEPT !.remote_window = p.wnd]
      o == acknowledge_packets(heard, p)
      s == apply_ack_outcome(Step(heard), o, p, due)
      Payload(t) == CASE p.type = "DATA" ->
                           ReceiveData(t, p, at)
                      [] p.type = "FIN" -> ReceiveFin(t, p)
                      [] p.type = "STATE" -> t
  IN  IF p.type = "RESET" THEN {[Step(heard) EXCEPT !.err = TRUE]}
      ELSE IF s.err THEN {s}
      ELSE {Payload([s EXCEPT !.d = x]) :
              x \in WindowOutcomes(s.d, s.out # <<>>, Bytes(o.acked))}

\* The packets sent are sent again, and each counts it.
Resend(d, sent) ==
  LET again == Keep(d.unacked, sent)
  IN  [unacked |-> [i \in DOMAIN d.unacked |->
                      IF i \in sent
                      THEN [d.unacked[i] EXCEPT !.retransmits = @ + 1]
                      ELSE d.unacked[i]],
       out |-> [k \in DOMAIN again |-> Carrying(d, again[k])]]

\* Mutant: the budget never runs out.
retransmit_due_packets_Endless(d, ripe) ==
  LET r == Resend(d, ripe)
      again == [i \in DOMAIN r.unacked |->
                  [r.unacked[i] EXCEPT !.retransmits = @ % (MaxRetransmits + 1)]]
  IN  {[d |-> [x EXCEPT !.unacked = again], out |-> r.out, up |-> <<>>,
        err |-> FALSE] : x \in WindowOutcomes(d, TRUE, 0)}

\* retransmit_due_packets for the packets whose timeout has passed; the first
\* one without budget ends the driver.
retransmit_due_packets(d, ripe) ==
  LET spent == {i \in ripe : d.unacked[i].retransmits >= MaxRetransmits}
      r == Resend(d, {i \in ripe : \A j \in spent : i < j})
  IN  {[d |-> [x EXCEPT !.unacked = r.unacked], out |-> r.out, up |-> <<>>,
        err |-> spent # {}] : x \in WindowOutcomes(d, spent = {}, 0)}

=============================================================================
