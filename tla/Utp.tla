--------------------------------- MODULE Utp ---------------------------------
(***************************************************************************)
(* A uTP connection (networking/utp.rs): a client that connects, a         *)
(* listener that accepts, a driver task at each end, and the applications  *)
(* that hold the two streams.                                              *)
(*                                                                         *)
(* Packets arrive in order and faster than the timers run out, except for  *)
(* faults, at most MaxFaults of them: a packet is lost, delayed so that it *)
(* arrives at any later time, or a copy of it is; the accept queue is      *)
(* full; an application is slow to read what the driver wrote, or leaves   *)
(* before it has everything.  A packet for a                               *)
(* session that is gone is dropped by dispatch_utp_datagram, and so is one *)
(* that finds the session's queue full, which is a loss.                   *)
(*                                                                         *)
(* Left out: encoding (UtpPacket is a record here), sharing of the UDP     *)
(* socket, and the binding of endpoints.                                   *)
(***************************************************************************)
EXTENDS UtpDriver

CONSTANTS
  Wrote,             \* how many bytes each application writes
  ReadSizes,         \* how many bytes the driver may find in one read
  ClientSeq,         \* initial_seq_nr (1)
  ServerSeqs,        \* values random_connection_id may give the listener
  ConnectRetries,    \* CONNECT_RETRIES
  MaxAccepts,        \* bound: connections the listener accepts
  Reading,           \* when applications read what is delivered to them
  FaultKinds,        \* which faults occur
  MaxFaults          \* bound: how many of them

Ends == {"client", "server"}
Other(e) == IF e = "client" THEN "server" ELSE "client"

ASSUME EndsAssumption ==
  /\ Wrote \in [Ends -> Nat] /\ ReadSizes \subseteq Nat \ {0}
  /\ ClientSeq \in 0 .. SeqSpace - 1
  /\ ServerSeqs \subseteq 0 .. SeqSpace - 1
  /\ ConnectRetries \in Nat \ {0} /\ MaxAccepts \in Nat
  /\ Reading \subseteq {"prompt", "racing"} /\ Reading # {}
  /\ MaxFaults \in Nat

VARIABLES
  phase,      \* per end: "none", "syn", "open", "done" (Ok) or "failed" (Err)
  driver,     \* per end: its driver's state
  given,      \* per end: bytes its driver has read from its application
  got,        \* per end: bytes written to its application's stream
  read,       \* per end: how many of those its application has read
  closed,     \* per end: whether its application dropped its stream
  net,        \* per end: the packets under way to it, in order
  late,       \* per end: the packets that arrive some time or other
  elapsed,    \* the client's elapsed_connect_attempts
  response,   \* inbound_syn_responses: the STATE that answered the SYN, or none
  accepted,   \* how many connections the listener accepted
  broken,     \* whether an application left early or the listener refused
  faults

vars == <<phase, driver, given, got, read, closed, net, late, elapsed,
          response, accepted, broken, faults>>

app == <<given, got, read, closed>>
setup == <<elapsed, response, accepted, broken>>

Idle == Driver(0, 0, 0, 0)
Syn == [type |-> "SYN", seq |-> ClientSeq, ack |-> 0, sack |-> {},
        wnd |-> ReceiveWindow, payload |-> <<>>]

\* connect_from_port up to its first send.
Init ==
  /\ phase = [e \in Ends |-> IF e = "client" THEN "syn" ELSE "none"]
  /\ driver = [e \in Ends |-> Idle]
  /\ given = [e \in Ends |-> 0] /\ got = [e \in Ends |-> <<>>]
  /\ read = [e \in Ends |-> 0] /\ closed = [e \in Ends |-> FALSE]
  /\ net = [e \in Ends |-> IF e = "server" THEN <<Syn>> ELSE <<>>]
  /\ late = [e \in Ends |-> {}]
  /\ elapsed = 0 /\ response = <<>> /\ accepted = 0
  /\ broken = FALSE /\ faults = 0
-----------------------------------------------------------------------------
Fault(kind) == kind \in FaultKinds /\ faults < MaxFaults /\ faults' = faults + 1
NoFault == faults' = faults

Ended(e) == phase[e] \in {"done", "failed"}

\* What is under way to a client that is gone is dropped; none comes back.
Send(n, ph, e, packets) ==
  [x \in Ends |-> IF x = "client" /\ ph[x] \in {"done", "failed"} THEN <<>>
                  ELSE IF x = e THEN n[x] \o packets ELSE n[x]]

\* End e's driver finishes a branch of its select with step s and comes to the
\* top of its loop.  Ending drops UtpSessionGuard with the stored response.
Turn(e, s, n) ==
  \E t \in {IF s.err THEN [s |-> s, done |-> FALSE] ELSE LoopTop(s)} :
    /\ driver' = [driver EXCEPT ![e] =
                    IF s.err \/ t.done THEN Idle ELSE t.s.d]
    /\ phase' = [phase EXCEPT ![e] = IF s.err THEN "failed"
                                     ELSE IF t.done THEN "done" ELSE @]
    /\ net' = Send(n, phase', Other(e), t.s.out)
    /\ response' = IF e = "server" /\ (s.err \/ t.done) THEN <<>> ELSE response
-----------------------------------------------------------------------------
(* Connecting.                                                             *)

\* Timers are longer than a round trip with a delayed acknowledgement in it.
Quiet ==
  \A e \in Ends : net[e] = <<>> /\ (phase[e] = "open" => driver[e].acks = 0)

\* Mutant: the SYN is sent once.
Again_Once(n, ticks) ==
  /\ elapsed' = elapsed + ticks
  /\ phase' = [phase EXCEPT !["client"] =
                 IF elapsed' >= ConnectRetries THEN "failed" ELSE @]
  /\ net' = Send(n, phase', "server", <<>>)
  /\ UNCHANGED <<driver, app, response, accepted, broken>>

\* The rest of a round of the connect loop that did not bring the STATE.
Again(n, ticks) ==
  /\ elapsed' = elapsed + ticks
  /\ phase' = [phase EXCEPT !["client"] =
                 IF elapsed' >= ConnectRetries THEN "failed" ELSE @]
  /\ net' = Send(n, phase', "server",
                 IF elapsed' >= ConnectRetries THEN <<>> ELSE <<Syn>>)
  /\ UNCHANGED <<driver, app, response, accepted, broken>>

ConnectTimeout ==
  /\ phase["client"] = "syn" /\ Quiet
  /\ Again(net, 1)
  /\ NoFault /\ UNCHANGED late

\* incoming_packets.recv() in connect_from_port.
ConnectReceive(p, n, isLate) ==
  \/ /\ p.type = "RESET"
     /\ phase' = [phase EXCEPT !["client"] = "failed"]
     /\ net' = Send(n, phase', "client", <<>>)
     /\ UNCHANGED <<driver, app, setup>>
  \/ /\ p.type = "STATE" /\ p.ack = ClientSeq
     /\ phase' = [phase EXCEPT !["client"] = "open"]
     /\ driver' = [driver EXCEPT !["client"] =
                     Driver(wrapping_add(ClientSeq, 1), wrapping_sub(p.seq, 1),
                            p.ack, p.wnd)]
     /\ net' = n
     /\ UNCHANGED <<app, setup>>
  \/ /\ p.type # "RESET" /\ ~(p.type = "STATE" /\ p.ack = ClientSeq)
     /\ \E ticks \in IF isLate THEN 0 .. 1 ELSE {0} : Again(n, ticks)

\* The dial is given up (another transport won): the future is dropped.
ConnectAbandoned ==
  /\ phase["client"] = "syn" /\ Fault("hangup")
  /\ phase' = [phase EXCEPT !["client"] = "failed"]
  /\ net' = Send(net, phase', "client", <<>>) /\ broken' = TRUE
  /\ UNCHANGED <<driver, app, late, elapsed, response, accepted>>

\* handle_inbound_syn.  While the session lives its stored answer is sent
\* again; once it has ended a late SYN opens another one, with a stream of
\* its own for the application.
Accept(n) ==
  \/ /\ phase["server"] = "open"
     /\ net' = Send(n, phase, "client", response)
     /\ NoFault /\ UNCHANGED <<phase, driver, app, setup>>
  \/ /\ phase["server"] # "open" /\ accepted < MaxAccepts
     /\ \E q \in ServerSeqs :
          \E p \in {[type |-> "STATE", seq |-> q, ack |-> ClientSeq,
                     sack |-> {}, wnd |-> ReceiveWindow, payload |-> <<>>]} :
            /\ driver' = [driver EXCEPT !["server"] =
                            Driver(q, ClientSeq, 0, ReceiveWindow)]
            /\ response' = <<p>>
            /\ net' = Send(n, phase, "client", <<p>>)
     /\ phase' = [phase EXCEPT !["server"] = "open"]
     /\ accepted' = accepted + 1 /\ broken' = (broken \/ accepted > 0)
     /\ given' = [given EXCEPT !["server"] = 0]
     /\ got' = [got EXCEPT !["server"] = <<>>]
     /\ read' = [read EXCEPT !["server"] = 0]
     /\ closed' = [closed EXCEPT !["server"] = FALSE]
     /\ NoFault /\ UNCHANGED elapsed
  \/ /\ phase["server"] # "open" /\ Fault("full")
     /\ net' = Send(n, phase, "client",
                    <<[Syn EXCEPT !.type = "RESET", !.seq = 0,
                                  !.ack = ClientSeq]>>)
     /\ broken' = TRUE
     /\ UNCHANGED <<phase, driver, app, elapsed, response, accepted>>

-----------------------------------------------------------------------------
(* The drivers.                                                            *)

Unread(e) == Len(got[e]) - read[e]

\* write_all_tracked waits while the application's stream is full.
Fits(e, p) ==
  p.type = "DATA" /\ ~closed[e] => Unread(e) + Len(p.payload) <= ReceiveWindow

\* due: a packet that was sent again has timed out again, which takes a late
\* packet to be seen here and not by the timer.
DriverReceive(e, p, n, isLate) ==
  /\ Fits(e, p)
  /\ \E due \in IF isLate THEN BOOLEAN ELSE {FALSE},
        reads \in {"late"} \cup (IF p.type = "DATA" THEN Reading ELSE {}) :
       \E s \in process_incoming_packet(
                  driver[e], p, [closed |-> closed[e], unread |-> Unread(e),
                                 reads |-> reads], due) :
         /\ IF s.up # <<>> /\ reads = "late" THEN Fault("busy") ELSE NoFault
         /\ Turn(e, s, n)
         /\ got' = [got EXCEPT ![e] = @ \o s.up]
         /\ read' = [read EXCEPT ![e] = IF reads # "late" /\ s.up # <<>>
                                        THEN Len(got'[e]) ELSE @]
  /\ UNCHANGED <<given, closed, elapsed, accepted, broken>>

\* A packet reaches its end (dispatch_utp_datagram); n is what is left.
Arrive(e, p, n, isLate) ==
  \/ e = "server" /\ p.type = "SYN" /\ Accept(n)
  \/ /\ e = "client" /\ phase[e] = "syn" /\ NoFault
     /\ ConnectReceive(p, n, isLate)
  \/ p.type # "SYN" /\ phase[e] = "open" /\ DriverReceive(e, p, n, isLate)
  \/ /\ p.type # "SYN" /\ phase[e] \in {"none", "done", "failed"}
     /\ net' = n /\ NoFault
     /\ UNCHANGED <<phase, driver, app, setup>>

Receive(e) ==
  /\ net[e] # <<>>
  /\ Arrive(e, Head(net[e]), [net EXCEPT ![e] = Tail(@)], FALSE)
  /\ UNCHANGED late

ReceiveLate(e) ==
  \E p \in late[e] :
    /\ Arrive(e, p, net, TRUE)
    /\ late' = [late EXCEPT ![e] = @ \ {p}]

\* The network loses a packet, delays it, or delays a copy of it.
Lose(e) ==
  /\ net[e] # <<>> /\ Fault("lose")
  /\ net' = [net EXCEPT ![e] = Tail(@)]
  /\ UNCHANGED <<phase, driver, app, late, setup>>

Delay(e) ==
  /\ net[e] # <<>> /\ Fault("delay")
  /\ net' = [net EXCEPT ![e] = Tail(@)]
  /\ late' = [late EXCEPT ![e] = @ \cup {Head(net[e])}]
  /\ UNCHANGED <<phase, driver, app, setup>>

Duplicate(e) ==
  /\ net[e] # <<>> /\ Fault("duplicate")
  /\ late' = [late EXCEPT ![e] = @ \cup {Head(net[e])}]
  /\ UNCHANGED <<phase, driver, app, net, setup>>

CanRead(e) ==
  /\ phase[e] = "open" /\ ~driver[e].local_eof /\ ~driver[e].remote_eof
  /\ Len(driver[e].pending) < MaxInflight
  /\ given[e] < Wrote[e] \/ closed[e]

\* local_reader.read: some bytes, or the end of what the application wrote.
Read(e) ==
  /\ CanRead(e)
  /\ \/ \E k \in ReadSizes \cup {Wrote[e] - given[e]} :
          /\ k > 0 /\ given[e] + k <= Wrote[e]
          /\ given' = [given EXCEPT ![e] = @ + k]
          /\ Turn(e, Step([driver[e] EXCEPT !.pending =
                             Append(@, [i \in 1 .. k |-> given[e] + i])]), net)
     \/ /\ given[e] = Wrote[e]
        /\ Turn(e, Step([driver[e] EXCEPT !.local_eof = TRUE]), net)
        /\ given' = given
  /\ NoFault
  /\ UNCHANGED <<got, read, closed, late, elapsed, accepted, broken>>

CanRetransmit(e) == phase[e] = "open" /\ driver[e].unacked # <<>> /\ Quiet

\* The retransmission timer.
Retransmit(e) ==
  /\ CanRetransmit(e)
  /\ \E ripe \in (SUBSET DOMAIN driver[e].unacked) \ {{}} :
       \E s \in retransmit_due_packets(driver[e], ripe) : Turn(e, s, net)
  /\ NoFault /\ UNCHANGED <<app, late, elapsed, accepted, broken>>

CanAck(e) == phase[e] = "open" /\ driver[e].acks > 0

\* The delayed acknowledgement's timer.
AckTimer(e) ==
  /\ CanAck(e)
  /\ Turn(e, flush_delayed_ack(Step(driver[e])), net)
  /\ NoFault /\ UNCHANGED <<app, late, elapsed, accepted, broken>>
-----------------------------------------------------------------------------
(* The applications.                                                       *)

CanAppRead(e) == ~closed[e] /\ read[e] < Len(got[e])

\* TrackedUtpStream::poll_read.
AppRead(e) ==
  /\ CanAppRead(e)
  /\ read' = [read EXCEPT ![e] = Len(got[e])]
  /\ driver' = [driver EXCEPT ![e].buffered = Max({@ - Unread(e), 0})]
  /\ NoFault /\ UNCHANGED <<phase, given, got, closed, net, late, setup>>

HasAll(e) == read[e] = Wrote[Other(e)]
CanClose(e) ==
  /\ ~closed[e] /\ phase[e] \in {"open", "done", "failed"}
  /\ \/ HasAll(e) \/ broken
     \/ Unread(e) = 0 /\ (Ended(e) \/ driver[e].remote_eof)

\* The application has what it waited for, or sees that nothing more comes,
\* and drops its stream.
AppClose(e) ==
  /\ CanClose(e)
  /\ closed' = [closed EXCEPT ![e] = TRUE]
  /\ NoFault
  /\ UNCHANGED <<phase, driver, given, got, read, net, late, setup>>

\* It leaves earlier.
HangUp(e) ==
  /\ ~closed[e] /\ phase[e] = "open" /\ ~CanClose(e)
  /\ Fault("hangup")
  /\ closed' = [closed EXCEPT ![e] = TRUE]
  /\ broken' = TRUE
  /\ UNCHANGED <<phase, driver, given, got, read, net, late, elapsed,
                 response, accepted>>

Progress ==
  \/ ConnectTimeout
  \/ \E e \in Ends : \/ Receive(e) \/ ReceiveLate(e) \/ Read(e)
                     \/ Retransmit(e) \/ AckTimer(e)
                     \/ AppRead(e) \/ AppClose(e)

Next ==
  \/ Progress
  \/ ConnectAbandoned
  \/ \E e \in Ends : Lose(e) \/ Delay(e) \/ Duplicate(e) \/ HangUp(e)

Spec == Init /\ [][Next]_vars

\* Tasks that can run do, timers fire, packets that are not lost arrive, and
\* the applications read and, in the end, close.  It is enough that the
\* system does not stop while a step of Progress can happen: each of them uses
\* up a packet, a byte or part of a budget, and faults are bounded.
Ready(e, p) ==
  /\ phase[e] = "open" => Fits(e, p)
  /\ p.type = "SYN" => phase[e] = "open" \/ accepted < MaxAccepts

CanProgress ==
  \/ phase["client"] = "syn" /\ Quiet
  \/ \E e \in Ends :
       \/ net[e] # <<>> /\ Ready(e, Head(net[e]))
       \/ \E p \in late[e] : Ready(e, p)
       \/ CanRead(e) \/ CanRetransmit(e) \/ CanAck(e)
       \/ CanAppRead(e) \/ CanClose(e)

LiveSpec == Spec /\ ([]<>~CanProgress \/ []<><<TRUE>>_vars)
-----------------------------------------------------------------------------
(* Properties.                                                             *)

\* Types; a window on the wire never exceeds the receive window and no packet
\* is retransmitted more often than its budget.
TypeOK ==
  /\ phase \in [Ends -> {"none", "syn", "open", "done", "failed"}]
  /\ given \in [Ends -> Nat] /\ read \in [Ends -> Nat]
  /\ got \in [Ends -> Seq(Nat)] /\ closed \in [Ends -> BOOLEAN]
  /\ elapsed \in 0 .. ConnectRetries /\ accepted \in 0 .. MaxAccepts
  /\ broken \in BOOLEAN /\ faults \in 0 .. MaxFaults
  /\ \A e \in Ends : \A p \in Range(net[e]) \cup late[e] :
       /\ p.type \in {"SYN", "STATE", "DATA", "FIN", "RESET"}
       /\ {p.seq, p.ack} \subseteq 0 .. SeqSpace - 1
       /\ p.wnd \in 0 .. ReceiveWindow /\ p.sack \subseteq 2 .. 33
  /\ \A e \in Ends : \A i \in DOMAIN driver[e].unacked :
       driver[e].unacked[i].retransmits \in 0 .. MaxRetransmits

\* The stream: whatever is lost, doubled, reordered or retransmitted in other
\* pieces than before, what an application can read is a prefix of what the
\* other one wrote, across the wrap of the sequence numbers too
\* (process_incoming_packet, deliver_buffered_payloads).
StreamPrefix ==
  accepted <= 1 => \A e \in Ends :
    /\ Len(got[e]) <= given[Other(e)]
    /\ \A i \in DOMAIN got[e] : got[e][i] = i

\* Reliability: a byte that left the application is still queued, still to be
\* acknowledged, or held by the other end, in order or ahead of it.  An
\* acknowledgement, cumulative, selective, stale or doubled, never lets go of
\* a byte the other end does not have (acknowledge_packets).
AckedIsHeld ==
  (accepted = 1 /\ \A e \in Ends : phase[e] = "open") =>
    \A e \in Ends : \A b \in 1 .. given[e] :
      \/ \E i \in DOMAIN driver[e].pending :
           b \in Range(driver[e].pending[i])
      \/ \E i \in DOMAIN driver[e].unacked :
           b \in Range(driver[e].unacked[i].payload)
      \/ b \in Range(got[Other(e)])
      \/ \E q \in DOMAIN driver[Other(e)].ooo :
           b \in Range(driver[Other(e)].ooo[q])

\* An end is an end: a driver that returns Ok has got everything across that
\* it took from its application, and an application told of the end of the
\* stream has been given all that the other driver took
\* (the top of run_utp_driver's loop, TYPE_FIN).
CleanEnd ==
  accepted = 1 => \A e \in Ends :
    /\ phase[e] = "done" => Len(got[Other(e)]) = given[e]
    /\ driver[e].remote_eof => Len(got[e]) = given[Other(e)]

\* The receive window is released when the application reads: with nothing
\* left to read, nothing is counted as buffered (TrackedUtpStream,
\* write_all_tracked).
WindowReleased ==
  \A e \in Ends : phase[e] = "open" /\ Unread(e) = 0 => driver[e].buffered = 0

\* If nobody leaves early or is refused, both applications get everything,
\* despite losses, duplicates and slow packets.
StreamCompletes ==
  <>(broken \/ \A e \in Ends : HasAll(e))

\* Every driver task ends: no connection lingers, not even when the other
\* side is gone without a word (MAX_RETRANSMITS, CONNECT_RETRIES).
DriversEnd ==
  <>[](\A e \in Ends : phase[e] \notin {"syn", "open"})
=============================================================================
