------------------------------ MODULE PeerLink ------------------------------
(***************************************************************************)
(* What the torrent manager may assume of a peer session: wire holds the   *)
(* blocks that may still be delivered.  It grows only when the manager     *)
(* itself asks for blocks, and a block is handed up only from wire.  A     *)
(* choke, a cancellation, a timeout or the end of the session shrinks it.  *)
(***************************************************************************)
EXTENDS Naturals, Sequences

CONSTANT Blocks

VARIABLES
  asked,       \* SUBSET Blocks: the manager waits for them
  wire,        \* SUBSET Blocks: may still be delivered
  up           \* messages on their way to the manager

linkVars == <<asked, wire, up>>

Init == asked = {} /\ wire = {} /\ up = <<>>

(* The request may be dropped on its way to the session.                   *)
Ask(S) ==
  /\ S # {} /\ S \cap asked = {}
  /\ asked' = asked \cup S
  /\ wire' \in {wire, wire \cup S}
  /\ UNCHANGED up

Lose(S) == wire' = wire \ S /\ UNCHANGED <<asked, up>>

(* A block asked for again while an earlier request for it is still        *)
(* queued stays deliverable.                                               *)
Deliver(b) ==
  /\ b \in wire
  /\ wire' \in {wire, wire \ {b}}
  /\ up' = Append(up, [msg |-> "Block", block |-> b])
  /\ UNCHANGED asked

Signal(m, S) ==
  /\ wire' = wire \ S
  /\ up' = Append(up, [msg |-> m])
  /\ UNCHANGED asked

(* The manager takes a message: a block, a choke and a disconnect end its  *)
(* waiting.                                                                *)
Take ==
  /\ up # <<>>
  /\ up' = Tail(up)
  /\ asked' = CASE Head(up).msg = "Block" -> asked \ {Head(up).block}
                [] Head(up).msg \in {"Choke", "Disconnect"} -> {}
                [] Head(up).msg \in {"Unchoke", "Other"} -> asked
  /\ UNCHANGED wire

Next ==
  \/ \E S \in SUBSET Blocks :
       \/ Ask(S) \/ Lose(S)
       \/ \E m \in {"Choke", "Unchoke", "Disconnect", "Other"} : Signal(m, S)
  \/ \E b \in Blocks : Deliver(b)
  \/ Take

Spec == Init /\ [][Next]_linkVars
===========================================================================
