----------------------------- MODULE DhtProofs ------------------------------
(***************************************************************************)
(* Proofs about DhtDemand: the planner's counts, marks, slots and classes, *)
(* for any number of torrents, subscriptions, slots and lookups.           *)
(***************************************************************************)
EXTENDS DhtDemand, TLAPS

-----------------------------------------------------------------------------
(* Types: TypeOK with the shape of the records.                            *)

IsEntries(E) == DOMAIN E \in SUBSET Hashes /\ E \in [DOMAIN E -> Entry]
IsPlanner(p) ==
  /\ p = [entries |-> p.entries, active |-> p.active,
          pending_starts |-> p.pending_starts, draining |-> p.draining,
          tokens |-> p.tokens]
  /\ IsEntries(p.entries)
  /\ p.active \in [Hashes -> Optional(Slices)]
  /\ p.pending_starts \in [Hashes -> Optional(Class)]
  /\ p.draining \in [Hashes -> Optional(Drain)]
  /\ p.tokens \in [Class -> Nat]
IsRuntime(r) ==
  /\ r = [up |-> r.up, lookups |-> r.lookups]
  /\ r.up \in BOOLEAN
  /\ DOMAIN r.lookups \in SUBSET LookupIds
  /\ r.lookups \in [DOMAIN r.lookups -> Lookup]
IsSlices(S) == DOMAIN S \in SUBSET Slices /\ S \in [DOMAIN S -> Slice]

Types ==
  /\ IsPlanner(planner) /\ IsRuntime(runtime) /\ IsSlices(slices)
  /\ subscribers \in [Hashes -> SUBSET Subscribers]
  /\ queue \in Seq(Command) /\ todo \in {"loop", "plan", "start"}
  /\ client \in [Hashes -> Client]
  /\ ending \in SUBSET Ending /\ dead \in SUBSET Subscribers
  /\ faults \in 0 .. MaxFaults

(* The invariants, of a planner p, slices S, the queue q, and so on, so    *)
(* that they can be stated of values on the way to a next state.           *)

(* What is active for a torrent is a slice of that torrent.                *)
Owned(p, S) ==
  \A h \in Hashes : \A s \in p.active[h] : s \in DOMAIN S /\ S[s].hash = h

(* Lookups wait to be started only while the service starts them.          *)
Starting(p, at) == at # "start" => \A h \in Hashes : p.pending_starts[h] = {}

(* A command of a slice finds its slice: the last of them is the one that  *)
(* ends it, sent when no other can follow.                                 *)
OfSlice(m) == m.kind \in {"Family", "Park", "Finished"}
Ends(m) == m.kind \in {"Park", "Finished"}
Stopped(t) == ~t.running /\ t.hedge # "armed"
SliceCommands(q, S) ==
  \A i \in DOMAIN q :
    /\ OfSlice(q[i]) => q[i].slice \in DOMAIN S
    /\ Ends(q[i]) =>
         /\ Stopped(S[q[i].slice])
         /\ \A j \in DOMAIN q : j > i /\ OfSlice(q[j]) => q[j].slice # q[i].slice

(* A registration is new to the registry R, and is sent once.              *)
IsRegister(m) == m.kind = "Register"
Registers(q, R) ==
  /\ \A h \in Hashes : IsFiniteSet(R[h])
  /\ \A i \in DOMAIN q : IsRegister(q[i]) =>
       /\ \A h \in Hashes : q[i].sub \notin R[h]
       /\ \A j \in DOMAIN q : IsRegister(q[j]) /\ j # i => q[j].sub # q[i].sub

Counted(E, R) ==
  \A h \in Hashes : IF h \in DOMAIN E THEN E[h].subscriber_count = Cardinality(R[h])
                    ELSE R[h] = {}
Behind(p, h) == \/ p.pending_starts[h] # {} \/ p.active[h] # {} \/ p.draining[h] # {}
Followed(p) == \A h \in DOMAIN p.entries : p.entries[h].in_progress => Behind(p, h)
Busy(p) == {h \in Hashes : p.active[h] # {} \/ p.pending_starts[h] # {}}
BusyIn(p, S, c) ==
  {h \in Hashes : (\E s \in p.active[h] : S[s].class = c) \/ c \in p.pending_starts[h]}
Slotted(p, S) ==
  /\ Cardinality(Busy(p)) <= SlotCount
  /\ \A c \in Class : Cardinality(BusyIn(p, S, c)) <= ClassCap[c]

DemandInv ==
  /\ Types
  /\ Owned(planner, slices) /\ Starting(planner, todo) /\ Slotted(planner, slices)
  /\ Followed(planner) /\ Counted(planner.entries, subscribers)
  /\ SliceCommands(queue, slices) /\ Registers(queue, subscribers)

(* Where the class a torrent reported last is: with the planner, or in the *)
(* last of its commands in the queue.                                      *)
Speaks(m, h) == m.kind \in {"Register", "Update"} /\ m.hash = h
SaidLast(q, h, k, c) ==
  /\ k \in DOMAIN q /\ Speaks(q[k], h) /\ q[k].class = c
  /\ \A j \in DOMAIN q : j > k => ~Speaks(q[j], h)
Asking(q, h, c) ==
  \E i \in DOMAIN q :
    /\ IsRegister(q[i]) /\ q[i].hash = h /\ c.sub = {q[i].sub}
    /\ \A j \in DOMAIN q : j > i => ~(IsRegister(q[j]) /\ q[j].hash = h)
    /\ \E k \in DOMAIN q : k >= i /\ SaidLast(q, h, k, c.class)
Known(q, E, h, c) ==
  /\ \A j \in DOMAIN q : ~(IsRegister(q[j]) /\ q[j].hash = h)
  /\ \/ \E k \in DOMAIN q : SaidLast(q, h, k, c.class)
     \/ /\ \A j \in DOMAIN q : ~Speaks(q[j], h)
        /\ h \in DOMAIN E /\ E[h].class = c.class

(* The subscription of a torrent's task is its own.                        *)
Own(h, C, q, en, d) ==
  \A x \in C[h].sub :
    /\ x \notin d
    /\ \A e \in en : e.sub # x
    /\ \A i \in DOMAIN q : q[i].kind = "Unregister" => q[i].sub # x
    /\ \A k \in Hashes : k # h => x \notin C[k].sub

(* What the place of a torrent's task, c, says of the rest.                *)
Placed(h, c, q, E, R) ==
  /\ c.at \in {"off", "spawned"} => c.sub = {}
  /\ c.at = "spawned" => c.initial = c.class
  /\ c.at = "asking" => Asking(q, h, c)
  /\ c.at \in {"answered", "on"} => (\E x \in R[h] : c.sub = {x}) /\ Known(q, E, h, c)

ClientInv ==
  \A h \in Hashes :
    /\ Own(h, client, queue, ending, dead)
    /\ Placed(h, client[h], queue, planner.entries, subscribers)

-----------------------------------------------------------------------------
(* Operators on sets and numbers.                                          *)

(* What the lemmas use of the library on finite sets and numbers.  They    *)
(* have it as a hypothesis, which SetFactsHold proves before the theorems. *)
SetFacts ==
  /\ \A T \in SUBSET Nat : T # {} => \E m \in T : \A k \in T : m <= k
  /\ IsFiniteSet({}) /\ Cardinality({}) = 0
  /\ \A S : IsFiniteSet(S) =>
       /\ Cardinality(S) \in Nat
       /\ \A T \in SUBSET S : /\ IsFiniteSet(T) /\ Cardinality(T) <= Cardinality(S)
                              /\ Cardinality(S) = Cardinality(T) => S = T
       /\ \A x : /\ IsFiniteSet(S \cup {x})
                 /\ x \notin S => Cardinality(S \cup {x}) = Cardinality(S) + 1
       /\ \A T : Cardinality(S \ T) = Cardinality(S) - Cardinality(S \cap T)
       /\ \A T : IsFiniteSet(T) => Cardinality(S \cup T) =
                   Cardinality(S) + Cardinality(T) - Cardinality(S \cap T)

LEMMA SizeIs ==
  ASSUME SetFacts, NEW S, IsFiniteSet(S)
  PROVE  Cardinality(S) \in Nat
BY Zenon DEF SetFacts

LEMMA SubsetIs ==
  ASSUME SetFacts, NEW S, IsFiniteSet(S), NEW T \in SUBSET S
  PROVE  /\ IsFiniteSet(T) /\ Cardinality(T) <= Cardinality(S)
         /\ Cardinality(S) = Cardinality(T) => S = T
BY Zenon DEF SetFacts

LEMMA AddedIs ==
  ASSUME SetFacts, NEW S, IsFiniteSet(S), NEW x
  PROVE  /\ IsFiniteSet(S \cup {x})
         /\ x \notin S => Cardinality(S \cup {x}) = Cardinality(S) + 1
BY Zenon DEF SetFacts

LEMMA UnionIs ==
  ASSUME SetFacts, NEW S, IsFiniteSet(S), NEW T, IsFiniteSet(T)
  PROVE  /\ Cardinality(S \cup T) = Cardinality(S) + Cardinality(T) - Cardinality(S \cap T)
         /\ Cardinality(S \cap T) \in Nat
<1>1. S \cap T \in SUBSET S
  OBVIOUS
<1>2. Cardinality(S \cap T) \in Nat
  BY <1>1, SubsetIs, SizeIs, Zenon
<1> QED BY <1>2, Zenon DEF SetFacts

LEMMA LeastOf ==
  ASSUME SetFacts, NEW S, S \in SUBSET Nat, S # {}
  PROVE  Min(S) \in S
<1>1. \E x \in S : \A y \in S : x <= y
  BY Zenon DEF SetFacts
<1> QED BY <1>1, Zenon DEF Min

LEMMA MinOfTwo ==
  ASSUME NEW a \in Int, NEW b \in Int
  PROVE  Min({a, b}) = IF a <= b THEN a ELSE b
<1>1. \E x \in {a, b} : \A y \in {a, b} : x <= y
  OBVIOUS
<1>2. Min({a, b}) \in {a, b} /\ \A y \in {a, b} : Min({a, b}) <= y
  BY <1>1 DEF Min
<1> QED BY <1>2

LEMMA MaxOfTwo ==
  ASSUME NEW a \in Int, NEW b \in Int
  PROVE  Max({a, b}) = IF a >= b THEN a ELSE b
<1>1. \E x \in {a, b} : \A y \in {a, b} : x >= y
  OBVIOUS
<1>2. Max({a, b}) \in {a, b} /\ \A y \in {a, b} : Max({a, b}) >= y
  BY <1>1 DEF Max
<1> QED BY <1>2

-----------------------------------------------------------------------------
(* The scheduler's operators.  Most change neither which demands there are *)
(* nor their classes and subscriber counts.                                *)

Keeps(E, F) ==
  /\ DOMAIN F = DOMAIN E
  /\ \A h \in DOMAIN E : /\ F[h].class = E[h].class
                         /\ F[h].subscriber_count = E[h].subscriber_count

LEMMA FinishIs ==
  ASSUME NEW E, IsEntries(E), NEW H
  PROVE  /\ IsEntries(finish(E, H)) /\ Keeps(E, finish(E, H))
         /\ \A h \in DOMAIN E : IF h \in H THEN ~finish(E, H)[h].in_progress
                                ELSE finish(E, H)[h] = E[h]
<1> DEFINE F == finish(E, H)
<1>1. /\ DOMAIN F = DOMAIN E /\ F = [h \in DOMAIN E |-> F[h]]
      /\ \A h \in DOMAIN E : F[h] =
           IF h \in H
           THEN [E[h] EXCEPT !.in_progress = FALSE, !.due = E[h].retrigger_pending,
                             !.retrigger_pending = FALSE]
           ELSE E[h]
  BY DEF finish
<1> HIDE DEF F
<1>2. \A h \in DOMAIN E : E[h] \in Entry
  BY DEF IsEntries
<1>3. \A h \in DOMAIN E : /\ F[h] \in Entry
                          /\ F[h].class = E[h].class
                          /\ F[h].subscriber_count = E[h].subscriber_count
                          /\ h \in H => ~F[h].in_progress
  BY <1>1, <1>2, ZenonT(30) DEF Entry
<1>4. IsEntries(F) /\ Keeps(E, F)
  BY <1>1, <1>3, Zenon DEF IsEntries, Keeps
<1> QED BY <1>1, <1>3, <1>4, Zenon DEF F

LEMMA ResetIs ==
  ASSUME NEW E, IsEntries(E)
  PROVE  /\ IsEntries(reset_active(E)) /\ Keeps(E, reset_active(E))
         /\ \A h \in DOMAIN E : ~reset_active(E)[h].in_progress
<1> DEFINE F == reset_active(E)
<1>1. /\ DOMAIN F = DOMAIN E /\ F = [h \in DOMAIN E |-> F[h]]
      /\ \A h \in DOMAIN E : F[h] =
           [E[h] EXCEPT !.in_progress = FALSE, !.due = @ \/ E[h].retrigger_pending]
  BY DEF reset_active
<1> HIDE DEF F
<1>2. \A h \in DOMAIN E : E[h] \in Entry
  BY DEF IsEntries
<1>3. \A h \in DOMAIN E : /\ F[h] \in Entry
                          /\ F[h].class = E[h].class
                          /\ F[h].subscriber_count = E[h].subscriber_count
                          /\ ~F[h].in_progress
  BY <1>1, <1>2, ZenonT(30) DEF Entry
<1>4. IsEntries(F) /\ Keeps(E, F)
  BY <1>1, <1>3, Zenon DEF IsEntries, Keeps
<1> QED BY <1>1, <1>3, <1>4, Zenon DEF F

LEMMA MarkIs ==
  ASSUME NEW E, IsEntries(E), NEW H
  PROVE  /\ IsEntries(mark_in_progress(E, H)) /\ Keeps(E, mark_in_progress(E, H))
         /\ \A h \in DOMAIN E : h \notin H => mark_in_progress(E, H)[h] = E[h]
<1> DEFINE F == mark_in_progress(E, H)
<1>1. /\ DOMAIN F = DOMAIN E /\ F = [h \in DOMAIN E |-> F[h]]
      /\ \A h \in DOMAIN E : F[h] =
           IF h \in H
           THEN [E[h] EXCEPT !.in_progress = TRUE, !.retrigger_pending = FALSE]
           ELSE E[h]
  BY DEF mark_in_progress
<1> HIDE DEF F
<1>2. \A h \in DOMAIN E : E[h] \in Entry
  BY DEF IsEntries
<1>3. \A h \in DOMAIN E : /\ F[h] \in Entry
                          /\ F[h].class = E[h].class
                          /\ F[h].subscriber_count = E[h].subscriber_count
  BY <1>1, <1>2, ZenonT(30) DEF Entry
<1>4. IsEntries(F) /\ Keeps(E, F)
  BY <1>1, <1>3, Zenon DEF IsEntries, Keeps
<1> QED BY <1>1, <1>4, Zenon DEF F

LEMMA AppliedIs ==
  ASSUME NEW e \in Entry, NEW c \in Class
  PROVE  /\ apply_demand_update(e, c) \in Entry
         /\ apply_demand_update(e, c).class = c
         /\ apply_demand_update(e, c).subscriber_count = e.subscriber_count
         /\ apply_demand_update(e, c).in_progress = e.in_progress
<1> DEFINE raised == scheduler_priority(c) > scheduler_priority(e.class)
           a == e.retrigger_pending \/ (raised /\ e.in_progress)
           b == e.due \/ (raised /\ ~e.in_progress)
           f == apply_demand_update(e, c)
<1>1. f = [e EXCEPT !.class = c, !.retrigger_pending = a, !.due = b]
  BY DEF apply_demand_update
<1>2. a \in BOOLEAN /\ b \in BOOLEAN
  BY DEF Entry
<1> HIDE DEF a, b, f
<1>3. f \in Entry /\ f.class = c /\ f.subscriber_count = e.subscriber_count
      /\ f.in_progress = e.in_progress
  BY <1>1, <1>2, Zenon DEF Entry
<1> QED BY <1>3 DEF f

LEMMA UpdateIs ==
  ASSUME NEW E, IsEntries(E), NEW h \in Hashes, NEW c \in Class
  PROVE  /\ IsEntries(update(E, h, c)) /\ DOMAIN update(E, h, c) = DOMAIN E
         /\ h \in DOMAIN E =>
              /\ update(E, h, c)[h].class = c
              /\ update(E, h, c)[h].subscriber_count = E[h].subscriber_count
              /\ update(E, h, c)[h].in_progress = E[h].in_progress
         /\ \A k \in DOMAIN E : k # h => update(E, h, c)[k] = E[k]
<1>1. CASE h \notin DOMAIN E
  BY <1>1 DEF update
<1>2. CASE h \in DOMAIN E
  <2> DEFINE x == apply_demand_update(E[h], c)
             F == update(E, h, c)
  <2>1. E[h] \in Entry
    BY <1>2 DEF IsEntries
  <2>2. /\ x \in Entry /\ x.class = c /\ x.subscriber_count = E[h].subscriber_count
        /\ x.in_progress = E[h].in_progress
    BY <2>1, AppliedIs
  <2>3. F = With(E, h, x)
    BY <1>2 DEF update
  <2> HIDE DEF x, F
  <2>4. /\ DOMAIN F = DOMAIN E /\ F[h] = x /\ \A k \in DOMAIN E : k # h => F[k] = E[k]
        /\ F = [k \in DOMAIN E |-> F[k]]
    BY <1>2, <2>3 DEF With
  <2>5. IsEntries(F)
    BY <2>2, <2>4 DEF IsEntries
  <2> QED BY <2>2, <2>4, <2>5 DEF F
<1> QED BY <1>1, <1>2

RegisteredAs(E, h, c, F) ==
  /\ IsEntries(F) /\ DOMAIN F = DOMAIN E \cup {h}
  /\ F[h].class = c
  /\ F[h].subscriber_count = IF h \in DOMAIN E THEN E[h].subscriber_count + 1 ELSE 1
  /\ F[h].in_progress => h \in DOMAIN E /\ E[h].in_progress
  /\ \A k \in DOMAIN E : k # h => F[k] = E[k]

LEMMA RegisterIs ==
  ASSUME NEW E, IsEntries(E), NEW h \in Hashes, NEW c \in Class
  PROVE  RegisteredAs(E, h, c, register(E, h, c))
<1> DEFINE y == [apply_demand_update(E[h], c)
                   EXCEPT !.subscriber_count = E[h].subscriber_count + 1]
           x == IF h \in DOMAIN E THEN y ELSE NewEntry(c)
           F == register(E, h, c)
<1>1. F = With(E, h, x)
  BY DEF register
<1>2. /\ x \in Entry /\ x.class = c
      /\ x.subscriber_count = IF h \in DOMAIN E THEN E[h].subscriber_count + 1 ELSE 1
      /\ x.in_progress => h \in DOMAIN E /\ E[h].in_progress
  <2>1. CASE h \in DOMAIN E
    <3> DEFINE z == apply_demand_update(E[h], c)
    <3>1. E[h] \in Entry
      BY <2>1 DEF IsEntries
    <3>2. z \in Entry /\ z.class = c /\ z.in_progress = E[h].in_progress
      BY <3>1, AppliedIs
    <3>3. y = [z EXCEPT !.subscriber_count = E[h].subscriber_count + 1]
      OBVIOUS
    <3>4. E[h].subscriber_count + 1 \in Nat \ {0}
      BY <3>1 DEF Entry
    <3> HIDE DEF y, z
    <3>5. y \in Entry /\ y.class = c /\ y.in_progress = E[h].in_progress
          /\ y.subscriber_count = E[h].subscriber_count + 1
      BY <3>2, <3>3, <3>4 DEF Entry
    <3> QED BY <2>1, <3>5
  <2>2. CASE h \notin DOMAIN E
    BY <2>2 DEF NewEntry, Entry
  <2> QED BY <2>1, <2>2
<1> HIDE DEF x, y, F
<1>3. /\ DOMAIN F = DOMAIN E \cup {h} /\ F[h] = x /\ \A k \in DOMAIN E : k # h => F[k] = E[k]
      /\ F = [k \in DOMAIN E \cup {h} |-> F[k]]
  BY <1>1 DEF With
<1>4. IsEntries(F)
  BY <1>2, <1>3 DEF IsEntries
<1> QED BY <1>2, <1>3, <1>4 DEF F, RegisteredAs

UnregisteredAs(E, h, n, F) ==
  /\ IsEntries(F)
  /\ DOMAIN F = IF E[h].subscriber_count <= n THEN DOMAIN E \ {h} ELSE DOMAIN E
  /\ \A k \in DOMAIN F : /\ F[k].class = E[k].class
                         /\ F[k].in_progress = E[k].in_progress
                         /\ k # h => F[k] = E[k]
  /\ h \in DOMAIN F => F[h].subscriber_count = E[h].subscriber_count - n

LEMMA UnregisterIs ==
  ASSUME NEW E, IsEntries(E), NEW h \in DOMAIN E, NEW n \in Nat
  PROVE  UnregisteredAs(E, h, n, unregister(E, h, n))
<1> DEFINE F == unregister(E, h, n)
<1>1. \A k \in DOMAIN E : E[k] \in Entry
  BY DEF IsEntries
<1>2. CASE E[h].subscriber_count <= n
  <2>1. F = Without(E, h)
    BY <1>2 DEF unregister
  <2> HIDE DEF F
  <2>2. DOMAIN F = DOMAIN E \ {h} /\ F = [k \in DOMAIN E \ {h} |-> F[k]]
        /\ \A k \in DOMAIN F : F[k] = E[k]
    BY <2>1 DEF Without
  <2>3. IsEntries(F)
    BY <1>1, <2>2 DEF IsEntries
  <2> QED BY <1>2, <2>2, <2>3 DEF F, UnregisteredAs
<1>3. CASE ~(E[h].subscriber_count <= n)
  <2> DEFINE m == E[h].subscriber_count - n
             x == [E[h] EXCEPT !.subscriber_count = m]
  <2>1. F = [E EXCEPT ![h] = x]
    BY <1>3 DEF unregister
  <2>2. m \in Nat \ {0}
    BY <1>1, <1>3 DEF Entry
  <2> HIDE DEF F, m
  <2>3. x \in Entry /\ x.class = E[h].class /\ x.in_progress = E[h].in_progress
        /\ x.subscriber_count = m
    BY <1>1, <2>2 DEF Entry
  <2> HIDE DEF x
  <2>4. /\ DOMAIN F = DOMAIN E /\ F[h] = x
        /\ \A k \in DOMAIN E : k # h => F[k] = E[k]
        /\ F = [k \in DOMAIN E |-> F[k]]
    BY <2>1, Zenon
  <2>6. IsEntries(F)
    <3>1. E \in [DOMAIN E -> Entry] /\ DOMAIN E \in SUBSET Hashes
      BY DEF IsEntries
    <3>2. F \in [DOMAIN E -> Entry]
      BY <2>1, <2>3, <3>1
    <3>3. DOMAIN F = DOMAIN E
      BY <2>4
    <3> QED BY <3>1, <3>2, <3>3 DEF IsEntries
  <2> QED BY <1>3, <2>3, <2>4, <2>6 DEF F, m, UnregisteredAs
<1> QED BY <1>2, <1>3

-----------------------------------------------------------------------------
(* Operators on the planner and the runtime.                               *)

LEMMA CancelIs ==
  ASSUME NEW r, IsRuntime(r), NEW ids
  PROVE  IsRuntime(cancel_lookups(r, ids))
<1> DEFINE f == [n \in DOMAIN r.lookups \ ids |-> r.lookups[n]]
           q == cancel_lookups(r, ids)
<1>1. q = [r EXCEPT !.lookups = f]
  BY DEF cancel_lookups
<1>2. f \in [DOMAIN f -> Lookup] /\ DOMAIN f \in SUBSET LookupIds
  BY DEF IsRuntime
<1> HIDE DEF f, q
<1>3. q = [up |-> r.up, lookups |-> f]
  BY <1>1 DEF IsRuntime
<1>4. q.up = r.up /\ q.lookups = f /\ q = [up |-> q.up, lookups |-> q.lookups]
  BY <1>3
<1>5. IsRuntime(q)
  BY <1>2, <1>4 DEF IsRuntime
<1> QED BY <1>5 DEF q

LEMMA OrphanIs ==
  ASSUME NEW r, IsRuntime(r), NEW s
  PROVE  IsRuntime(Orphan(r, s)) /\ Orphan(r, s).up = r.up
<1> DEFINE f == [n \in DOMAIN r.lookups |-> [r.lookups[n] EXCEPT !.slice = @ \ {s}]]
           q == Orphan(r, s)
<1>1. q = [r EXCEPT !.lookups = f]
  BY DEF Orphan
<1>2. \A x \in Optional(Slices) : x \ {s} \in Optional(Slices)
  BY DEF Optional
<1>3. \A n \in DOMAIN r.lookups : f[n] \in Lookup
  <2> TAKE n \in DOMAIN r.lookups
  <2>1. PICK l \in Lookup : l = r.lookups[n]
    BY DEF IsRuntime
  <2>2. f[n] = [l EXCEPT !.slice = l.slice \ {s}]
    BY <2>1
  <2>3. l.slice \ {s} \in Optional(Slices)
    BY <1>2 DEF Lookup
  <2> QED BY <2>2, <2>3, Zenon DEF Lookup
<1>4. f \in [DOMAIN f -> Lookup] /\ DOMAIN f \in SUBSET LookupIds
  BY <1>3 DEF IsRuntime
<1> HIDE DEF f, q
<1>5. q = [up |-> r.up, lookups |-> f]
  BY <1>1 DEF IsRuntime
<1>6. q.up = r.up /\ q.lookups = f /\ q = [up |-> q.up, lookups |-> q.lookups]
  BY <1>5
<1>7. IsRuntime(q)
  BY <1>4, <1>6 DEF IsRuntime
<1> QED BY <1>6, <1>7 DEF q

(* A planner with other entries, active slices, starts, drains, tokens.    *)
LEMMA PlannerIs ==
  ASSUME NEW E, IsEntries(E), NEW a \in [Hashes -> Optional(Slices)],
         NEW b \in [Hashes -> Optional(Class)], NEW d \in [Hashes -> Optional(Drain)],
         NEW t \in [Class -> Nat], NEW q,
         q = [entries |-> E, active |-> a, pending_starts |-> b, draining |-> d, tokens |-> t]
  PROVE  /\ IsPlanner(q)
         /\ q.entries = E /\ q.active = a /\ q.pending_starts = b
         /\ q.draining = d /\ q.tokens = t
<1>1. /\ q.entries = E /\ q.active = a /\ q.pending_starts = b
      /\ q.draining = d /\ q.tokens = t
  OBVIOUS
<1> QED BY <1>1 DEF IsPlanner

LEMMA Opt ==
  /\ \A S : {} \in Optional(S)
  /\ \A S : \A x \in S : {x} \in Optional(S)
  /\ \A S : \A x : x \in Optional(S) => x \in SUBSET S
  BY DEF Optional

(* Handlers that end drains change nothing else, and mark their demands    *)
(* finished.                                                               *)
Settles(p, q) ==
  /\ IsPlanner(q) /\ Keeps(p.entries, q.entries)
  /\ q.active = p.active /\ q.pending_starts = p.pending_starts /\ q.tokens = p.tokens
  /\ \A h \in DOMAIN p.entries : q.entries[h].in_progress =>
       /\ p.entries[h].in_progress
       /\ q.draining[h] = p.draining[h]

LEMMA FinalizeIs ==
  ASSUME NEW p, IsPlanner(p), NEW r, IsRuntime(r), NEW H
  PROVE  /\ Settles(p, finalize_drained(p, r, H).p) /\ IsRuntime(finalize_drained(p, r, H).r)
         /\ finalize_drained(p, r, H).p.entries = finish(p.entries, H)
         /\ \A h \in Hashes \ H : finalize_drained(p, r, H).p.draining[h] = p.draining[h]
<1> DEFINE ids == UNION {d.ids : d \in UNION {p.draining[h] : h \in H}}
           done == {n \in Live(r, ids) : r.lookups[n].mode # "active"}
           D == [h \in Hashes |-> IF h \in H THEN {} ELSE p.draining[h]]
           F == finish(p.entries, H)
           q == [p EXCEPT !.draining = D, !.entries = F]
<1>1. finalize_drained(p, r, H) = [p |-> q, r |-> cancel_lookups(r, done)]
  BY DEF finalize_drained
<1>2. IsRuntime(cancel_lookups(r, done))
  BY CancelIs
<1>3. D \in [Hashes -> Optional(Drain)] /\ \A h \in Hashes \ H : D[h] = p.draining[h]
  BY Opt DEF IsPlanner
<1>4. /\ IsEntries(F) /\ Keeps(p.entries, F)
      /\ \A h \in DOMAIN p.entries : IF h \in H THEN ~F[h].in_progress ELSE F[h] = p.entries[h]
  BY FinishIs DEF IsPlanner
<1>q. q = [p EXCEPT !.draining = D, !.entries = F]
  OBVIOUS
<1> HIDE DEF D, F, done, q
<1>5. q = [entries |-> F, active |-> p.active, pending_starts |-> p.pending_starts,
           draining |-> D, tokens |-> p.tokens]
  BY <1>q, ZenonT(30) DEF IsPlanner
<1>6. /\ IsPlanner(q) /\ q.entries = F /\ q.active = p.active
      /\ q.pending_starts = p.pending_starts /\ q.draining = D /\ q.tokens = p.tokens
  <2>1. /\ p.active \in [Hashes -> Optional(Slices)]
        /\ p.pending_starts \in [Hashes -> Optional(Class)]
        /\ p.tokens \in [Class -> Nat]
    BY DEF IsPlanner
  <2> QED BY <1>3, <1>4, <1>5, <2>1, PlannerIs
<1>7. \A h \in DOMAIN p.entries : F[h].in_progress => p.entries[h].in_progress /\ D[h] = p.draining[h]
  <2>1. DOMAIN p.entries \in SUBSET Hashes
    BY DEF IsPlanner, IsEntries
  <2> QED BY <1>3, <1>4, <2>1, Zenon
<1>8. Settles(p, q)
  BY <1>4, <1>6, <1>7, Zenon DEF Settles
<1> QED BY <1>1, <1>2, <1>3, <1>6, <1>8 DEF F

LEMMA SettleIs ==
  ASSUME NEW p, IsPlanner(p), NEW r, IsRuntime(r), NEW h, NEW c
  PROVE  Settles(p, settle_drain(p, r, h, c).p) /\ IsRuntime(settle_drain(p, r, h, c).r)
<1>1. Settles(p, p)
  BY DEF Settles, Keeps
<1>2. \/ settle_drain(p, r, h, c) = [p |-> p, r |-> r]
      \/ settle_drain(p, r, h, c) = finalize_drained(p, r, {h})
  BY DEF settle_drain
<1> QED BY <1>1, <1>2, FinalizeIs

(* A slice that is drained or parked: what becomes of its demand, h.       *)
ParkedAs(p, q, h) ==
  /\ IsPlanner(q) /\ Keeps(p.entries, q.entries)
  /\ q.active = p.active /\ q.pending_starts = p.pending_starts /\ q.tokens = p.tokens
  /\ \A k \in DOMAIN p.entries : IF k = h
       THEN q.entries[k].in_progress => q.draining[k] # {}
       ELSE q.entries[k] = p.entries[k] /\ q.draining[k] = p.draining[k]

(* What drain_lookup_ids makes, w, of planner p and slice of h.            *)
DrainedAs(p, w, h) ==
  /\ IsPlanner(w.p) /\ IsRuntime(w.r)
  /\ w.p.entries = p.entries /\ w.p.active = p.active
  /\ w.p.pending_starts = p.pending_starts /\ w.p.tokens = p.tokens
  /\ \A k \in Hashes : k # h => w.p.draining[k] = p.draining[k]

LEMMA DrainLookupsIs ==
  ASSUME Types, NEW p, IsPlanner(p), NEW r, IsRuntime(r), NEW s \in DOMAIN slices,
         NEW admitted \in BOOLEAN
  PROVE  DrainedAs(p, drain_lookup_ids(p, r, s, admitted), slices[s].hash)
<1> DEFINE h == slices[s].hash
           ids == Numbers(slices[s].ids)
           previous == UNION {d.ids : d \in p.draining[h]}
           cleared == cancel_lookups(r, previous)
           drainable == Live(cleared, ids)
           one == {[ids |-> drainable, class |-> slices[s].class]}
           undrained == [p EXCEPT !.draining[h] = {}]
           drained == [undrained EXCEPT !.draining[h] = one]
           f == [n \in DOMAIN cleared.lookups |->
                   IF n \in drainable THEN [cleared.lookups[n] EXCEPT !.mode = "draining"]
                   ELSE cleared.lookups[n]]
           w == drain_lookup_ids(p, r, s, admitted)
<1>1. \/ w = [p |-> p, r |-> r]
      \/ w = [p |-> undrained, r |-> cleared]
      \/ w = [p |-> drained, r |-> [cleared EXCEPT !.lookups = f]]
      \/ w = [p |-> undrained, r |-> cancel_lookups(cleared, drainable)]
  BY SMTT(60) DEF drain_lookup_ids
<1>2. slices[s] \in Slice /\ h \in Hashes /\ slices[s].class \in Class
  BY DEF Types, IsSlices, Slice
<1>3. IsRuntime(cleared)
  BY CancelIs
<1> HIDE DEF cleared
<1>4. drainable \in SUBSET LookupIds
  BY <1>3 DEF Live, IsRuntime
<1> HIDE DEF drainable, ids
<1>5. one \in Optional(Drain)
  <2>1. [ids |-> drainable, class |-> slices[s].class] \in Drain
    BY <1>2, <1>4 DEF Drain
  <2> QED BY <2>1, Opt
<1>6. IsRuntime([cleared EXCEPT !.lookups = f])
  <2>1. \A n \in DOMAIN cleared.lookups : f[n] \in Lookup
    <3> TAKE n \in DOMAIN cleared.lookups
    <3>1. PICK l \in Lookup : l = cleared.lookups[n]
      BY <1>3 DEF IsRuntime
    <3>2. [l EXCEPT !.mode = "draining"] \in Lookup
      BY DEF Lookup
    <3> QED BY <3>1, <3>2
  <2>2. f \in [DOMAIN f -> Lookup] /\ DOMAIN f \in SUBSET LookupIds
    BY <1>3, <2>1 DEF IsRuntime
  <2> HIDE DEF f
  <2> DEFINE q == [cleared EXCEPT !.lookups = f]
  <2>3. q = [up |-> cleared.up, lookups |-> f]
    BY <1>3 DEF IsRuntime
  <2> HIDE DEF q
  <2>4. q.up = cleared.up /\ q.lookups = f /\ q = [up |-> q.up, lookups |-> q.lookups]
    BY <2>3
  <2>5. IsRuntime(q)
    BY <1>3, <2>2, <2>4 DEF IsRuntime
  <2> QED BY <2>5 DEF q
<1>7. IsRuntime(cancel_lookups(cleared, drainable))
  BY <1>3, CancelIs
<1>8. ASSUME NEW q, NEW x \in Optional(Drain), q = [p EXCEPT !.draining[h] = x]
      PROVE  /\ IsPlanner(q) /\ q.entries = p.entries /\ q.active = p.active
             /\ q.pending_starts = p.pending_starts /\ q.tokens = p.tokens
             /\ \A k \in Hashes : k # h => q.draining[k] = p.draining[k]
  <2> DEFINE D == [p.draining EXCEPT ![h] = x]
  <2>1. /\ IsEntries(p.entries) /\ p.active \in [Hashes -> Optional(Slices)]
        /\ p.pending_starts \in [Hashes -> Optional(Class)]
        /\ p.tokens \in [Class -> Nat] /\ p.draining \in [Hashes -> Optional(Drain)]
    BY DEF IsPlanner
  <2>2. D \in [Hashes -> Optional(Drain)] /\ \A k \in Hashes : k # h => D[k] = p.draining[k]
    BY <2>1, Zenon
  <2>3. q = [p EXCEPT !.draining = D]
    BY <1>8
  <2> HIDE DEF D
  <2>4. q = [entries |-> p.entries, active |-> p.active, pending_starts |-> p.pending_starts,
             draining |-> D, tokens |-> p.tokens]
    BY <2>3, Zenon DEF IsPlanner
  <2>5. /\ IsPlanner(q) /\ q.entries = p.entries /\ q.active = p.active
        /\ q.pending_starts = p.pending_starts /\ q.draining = D /\ q.tokens = p.tokens
    BY <2>1, <2>2, <2>4, PlannerIs
  <2> QED BY <2>2, <2>5
<1>9. /\ IsPlanner(undrained) /\ undrained.entries = p.entries /\ undrained.active = p.active
      /\ undrained.pending_starts = p.pending_starts /\ undrained.tokens = p.tokens
      /\ \A k \in Hashes : k # h => undrained.draining[k] = p.draining[k]
  <2>1. undrained = [p EXCEPT !.draining[h] = {}] /\ {} \in Optional(Drain)
    BY Opt
  <2> HIDE DEF undrained, h
  <2> QED BY <1>8, <2>1
<1>10. drained = [p EXCEPT !.draining[h] = one]
  <2>1. p.draining \in [Hashes -> Optional(Drain)]
    BY DEF IsPlanner
  <2> HIDE DEF one, h
  <2> QED BY <2>1, Zenon DEF IsPlanner
<1> SUFFICES DrainedAs(p, w, h)
  OBVIOUS
<1> HIDE DEF undrained, drained, one, f, h
<1>11. /\ IsPlanner(drained) /\ drained.entries = p.entries /\ drained.active = p.active
       /\ drained.pending_starts = p.pending_starts /\ drained.tokens = p.tokens
       /\ \A k \in Hashes : k # h => drained.draining[k] = p.draining[k]
  BY <1>5, <1>8, <1>10
<1> HIDE DEF w
<1>12. ASSUME NEW q, NEW x, w = [p |-> q, r |-> x], IsPlanner(q), IsRuntime(x),
              /\ q.entries = p.entries /\ q.active = p.active
              /\ q.pending_starts = p.pending_starts /\ q.tokens = p.tokens
              /\ \A k \in Hashes : k # h => q.draining[k] = p.draining[k]
       PROVE  DrainedAs(p, w, h)
  <2>1. w.p = q /\ w.r = x
    BY <1>12
  <2> QED BY <1>12, <2>1, Zenon DEF DrainedAs
<1>13. CASE w = [p |-> p, r |-> r]
  BY <1>12, <1>13, Zenon
<1>14. CASE w = [p |-> undrained, r |-> cleared]
  BY <1>3, <1>9, <1>12, <1>14, Zenon
<1>15. CASE w = [p |-> drained, r |-> [cleared EXCEPT !.lookups = f]]
  BY <1>6, <1>11, <1>12, <1>15, Zenon
<1>16. CASE w = [p |-> undrained, r |-> cancel_lookups(cleared, drainable)]
  BY <1>7, <1>9, <1>12, <1>16, Zenon
<1> QED BY <1>1, <1>13, <1>14, <1>15, <1>16, Zenon

LEMMA ParkResolvedIs ==
  ASSUME NEW p, IsPlanner(p), NEW r, IsRuntime(r), NEW h, NEW c
  PROVE  /\ ParkedAs(p, park_resolved(p, r, h, c).p, h)
         /\ IsRuntime(park_resolved(p, r, h, c).r)
<1> DEFINE w == park_resolved(p, r, h, c)
           q == [p EXCEPT !.entries = finish(@, {h})]
<1>0. DOMAIN p.entries \in SUBSET Hashes /\ IsEntries(p.entries)
  BY DEF IsPlanner, IsEntries
<1>1. \/ p.draining[h] = {} /\ w = [p |-> q, r |-> r]
      \/ w = finalize_drained(p, r, {h})
      \/ p.draining[h] # {} /\ w = [p |-> p, r |-> r]
  BY DEF park_resolved
<1> HIDE DEF w
<1> DEFINE F == finish(p.entries, {h})
<1>2. /\ IsEntries(F) /\ Keeps(p.entries, F)
      /\ \A k \in DOMAIN p.entries : IF k \in {h} THEN ~F[k].in_progress ELSE F[k] = p.entries[k]
  BY <1>0, FinishIs
<1>3. CASE p.draining[h] = {} /\ w = [p |-> q, r |-> r]
  <2>1. q = [p EXCEPT !.entries = F]
    OBVIOUS
  <2> HIDE DEF q, F
  <2>2. q = [entries |-> F, active |-> p.active, pending_starts |-> p.pending_starts,
             draining |-> p.draining, tokens |-> p.tokens]
    BY <2>1, Zenon DEF IsPlanner
  <2>3. /\ p.active \in [Hashes -> Optional(Slices)]
        /\ p.pending_starts \in [Hashes -> Optional(Class)]
        /\ p.tokens \in [Class -> Nat] /\ p.draining \in [Hashes -> Optional(Drain)]
    BY Zenon DEF IsPlanner
  <2>4. /\ IsPlanner(q) /\ q.entries = F /\ q.active = p.active
        /\ q.pending_starts = p.pending_starts /\ q.draining = p.draining /\ q.tokens = p.tokens
    BY <1>2, <2>2, <2>3, PlannerIs
  <2>5. ParkedAs(p, q, h)
    BY <1>2, <2>4, Zenon DEF ParkedAs
  <2> QED BY <1>3, <2>5 DEF w
<1>4. CASE w = finalize_drained(p, r, {h})
  <2>1. /\ Settles(p, w.p) /\ IsRuntime(w.r) /\ w.p.entries = F
        /\ \A k \in Hashes \ {h} : w.p.draining[k] = p.draining[k]
    BY <1>4, FinalizeIs
  <2> HIDE DEF F
  <2>2. ParkedAs(p, w.p, h)
    BY <1>0, <1>2, <2>1, Zenon DEF ParkedAs, Settles
  <2> QED BY <2>1, <2>2, Zenon DEF w
<1>5. CASE p.draining[h] # {} /\ w = [p |-> p, r |-> r]
  <2>1. ParkedAs(p, p, h)
    BY <1>5 DEF ParkedAs, Keeps
  <2> QED BY <1>5, <2>1 DEF w
<1> QED BY <1>1, <1>3, <1>4, <1>5

-----------------------------------------------------------------------------
(* How the invariants survive the changes that most actions make.          *)

LEMMA Fewer ==
  ASSUME SetFacts, NEW S, NEW T, S \in SUBSET T, T \in SUBSET Hashes
  PROVE  IsFiniteSet(S) /\ Cardinality(S) \in Nat /\ Cardinality(T) \in Nat
         /\ Cardinality(S) <= Cardinality(T)
<1>1. IsFiniteSet(T)
  BY DemandAssumption, SubsetIs
<1>2. IsFiniteSet(S) /\ Cardinality(S) <= Cardinality(T)
  BY <1>1, SubsetIs
<1> QED BY <1>1, <1>2, SizeIs

(* Slices end and none starts.                                             *)
Shrinks(p, S, q, T) ==
  /\ \A h \in Hashes : /\ q.active[h] \in SUBSET p.active[h]
                       /\ q.pending_starts[h] \in SUBSET p.pending_starts[h]
  /\ \A h \in Hashes : \A s \in q.active[h] :
       s \in DOMAIN T /\ T[s].class = S[s].class /\ T[s].hash = S[s].hash

LEMMA Quiet ==
  ASSUME SetFacts, NEW p, NEW q, NEW S, NEW T, NEW t, NEW t2,
         Owned(p, S), Starting(p, t), Slotted(p, S), t2 = "start" \/ t # "start",
         Shrinks(p, S, q, T)
  PROVE  Owned(q, T) /\ Starting(q, t2) /\ Slotted(q, T)
<1>0. /\ \A h \in Hashes : /\ q.active[h] \in SUBSET p.active[h]
                           /\ q.pending_starts[h] \in SUBSET p.pending_starts[h]
      /\ \A h \in Hashes : \A s \in q.active[h] :
           s \in DOMAIN T /\ T[s].class = S[s].class /\ T[s].hash = S[s].hash
  BY Zenon DEF Shrinks
<1>1. Owned(q, T)
  BY <1>0, Zenon DEF Owned
<1>2. Starting(q, t2)
  BY <1>0, Zenon DEF Starting
<1>3. Cardinality(Busy(q)) <= SlotCount
  <2>1. Busy(q) \in SUBSET Busy(p) /\ Busy(p) \in SUBSET Hashes
    BY <1>0, Zenon DEF Busy
  <2>2. Cardinality(Busy(p)) <= SlotCount /\ SlotCount \in Nat
    BY DemandAssumption DEF Slotted
  <2>3. /\ Cardinality(Busy(q)) \in Nat /\ Cardinality(Busy(p)) \in Nat
        /\ Cardinality(Busy(q)) <= Cardinality(Busy(p))
    BY <2>1, Fewer
  <2> QED BY <2>2, <2>3
<1>4. ASSUME NEW c \in Class PROVE Cardinality(BusyIn(q, T, c)) <= ClassCap[c]
  <2>1. BusyIn(q, T, c) \in SUBSET BusyIn(p, S, c) /\ BusyIn(p, S, c) \in SUBSET Hashes
    BY <1>0, Zenon DEF BusyIn
  <2>2. Cardinality(BusyIn(p, S, c)) <= ClassCap[c] /\ ClassCap[c] \in Nat
    BY DemandAssumption DEF Slotted
  <2>3. /\ Cardinality(BusyIn(q, T, c)) \in Nat /\ Cardinality(BusyIn(p, S, c)) \in Nat
        /\ Cardinality(BusyIn(q, T, c)) <= Cardinality(BusyIn(p, S, c))
    BY <2>1, Fewer
  <2> QED BY <2>2, <2>3
<1> QED BY <1>1, <1>2, <1>3, <1>4 DEF Slotted

LEMMA CountedKept ==
  ASSUME NEW E, NEW F, NEW R, Counted(E, R), Keeps(E, F)
  PROVE  Counted(F, R)
  BY DEF Counted, Keeps

LEMMA FollowedSettled ==
  ASSUME NEW p, NEW q, Followed(p), Settles(p, q)
  PROVE  Followed(q)
  BY DEF Followed, Behind, Settles, Keeps

(* The queue: a command is taken, a command is sent.                       *)
LEMMA TailIs ==
  ASSUME NEW q \in Seq(Command), q # <<>>
  PROVE  /\ Tail(q) \in Seq(Command) /\ Head(q) \in Command /\ Head(q) = q[1]
         /\ 1 \in DOMAIN q /\ DOMAIN q \in SUBSET Nat /\ DOMAIN Tail(q) \in SUBSET Nat
         /\ \A i \in DOMAIN Tail(q) : i + 1 \in DOMAIN q /\ Tail(q)[i] = q[i + 1] /\ i + 1 > 1
         /\ \A i \in DOMAIN q : i # 1 => i - 1 \in DOMAIN Tail(q) /\ Tail(q)[i - 1] = q[i]
<1>1. Tail(q) \in Seq(Command) /\ Head(q) \in Command /\ Head(q) = q[1] /\ Len(q) \in Nat /\ Len(q) > 0
  OBVIOUS
<1>2. DOMAIN q = 1 .. Len(q) /\ DOMAIN Tail(q) = 1 .. (Len(q) - 1)
      /\ \A i \in 1 .. (Len(q) - 1) : Tail(q)[i] = q[i + 1]
  OBVIOUS
<1> QED BY <1>1, <1>2

LEMMA AppendIs ==
  ASSUME NEW q \in Seq(Command), NEW m \in Command
  PROVE  /\ Append(q, m) \in Seq(Command) /\ DOMAIN q \in SUBSET Nat
         /\ \E n \in Nat : /\ n \in DOMAIN Append(q, m) /\ Append(q, m)[n] = m
                           /\ DOMAIN Append(q, m) = DOMAIN q \cup {n}
                           /\ \A i \in DOMAIN q : i < n /\ i # n /\ Append(q, m)[i] = q[i]
<1>1. /\ Append(q, m) \in Seq(Command) /\ Len(q) \in Nat /\ DOMAIN q = 1 .. Len(q)
      /\ DOMAIN Append(q, m) = 1 .. (Len(q) + 1)
      /\ Append(q, m)[Len(q) + 1] = m
      /\ \A i \in 1 .. Len(q) : Append(q, m)[i] = q[i]
  OBVIOUS
<1> QED BY <1>1

LEMMA CommandsTail ==
  ASSUME NEW q \in Seq(Command), q # <<>>, NEW S, SliceCommands(q, S)
  PROVE  SliceCommands(Tail(q), S)
<1>1. /\ DOMAIN Tail(q) \in SUBSET Nat
      /\ \A i \in DOMAIN Tail(q) : i + 1 \in DOMAIN q /\ Tail(q)[i] = q[i + 1]
  BY TailIs
<1>2. \A i, j \in DOMAIN Tail(q) : j > i => j + 1 > i + 1
  BY <1>1
<1> QED BY <1>1, <1>2 DEF SliceCommands

LEMMA CommandsKept ==
  ASSUME NEW q, NEW S, NEW T, SliceCommands(q, S),
         \A s \in DOMAIN S : s \in DOMAIN T /\ (Stopped(S[s]) => Stopped(T[s]))
  PROVE  SliceCommands(q, T)
<1>1. \A m : Ends(m) => OfSlice(m)
  BY DEF Ends, OfSlice
<1> QED BY <1>1 DEF SliceCommands

(* The last command of a slice is handled, and the slice let go.           *)
WithoutSlice(S, s, T) == DOMAIN T = DOMAIN S \ {s} /\ \A t \in DOMAIN T : T[t] = S[t]

LEMMA CommandsFreed ==
  ASSUME NEW q \in Seq(Command), q # <<>>, NEW S, SliceCommands(q, S), Ends(Head(q)),
         NEW T, WithoutSlice(S, Head(q).slice, T)
  PROVE  SliceCommands(Tail(q), T)
<1>0. DOMAIN T = DOMAIN S \ {Head(q).slice} /\ \A s \in DOMAIN T : T[s] = S[s]
  BY DEF WithoutSlice
<1>1. /\ DOMAIN Tail(q) \in SUBSET Nat /\ 1 \in DOMAIN q /\ Head(q) = q[1]
      /\ \A i \in DOMAIN Tail(q) : i + 1 \in DOMAIN q /\ Tail(q)[i] = q[i + 1] /\ i + 1 > 1
  BY TailIs
<1>2. SliceCommands(Tail(q), S)
  BY CommandsTail
<1>3. \A i \in DOMAIN Tail(q) : OfSlice(Tail(q)[i]) => Tail(q)[i].slice # Head(q).slice
  BY <1>1 DEF SliceCommands
<1>4. \A m : Ends(m) => OfSlice(m)
  BY DEF Ends, OfSlice
<1> QED BY <1>0, <1>2, <1>3, <1>4 DEF SliceCommands

LEMMA CommandsSent ==
  ASSUME NEW q \in Seq(Command), NEW m \in Command, NEW S, SliceCommands(q, S),
         OfSlice(m) => /\ m.slice \in DOMAIN S
                       /\ \A i \in DOMAIN q : Ends(q[i]) => q[i].slice # m.slice,
         Ends(m) => Stopped(S[m.slice])
  PROVE  SliceCommands(Append(q, m), S)
<1> DEFINE a == Append(q, m)
<1>1. PICK n \in Nat : /\ n \in DOMAIN a /\ a[n] = m
                       /\ DOMAIN a = DOMAIN q \cup {n}
                       /\ \A i \in DOMAIN q : i < n /\ i # n /\ a[i] = q[i]
  BY AppendIs
<1>2. DOMAIN q \in SUBSET Nat
  BY AppendIs
<1> HIDE DEF a
<1>3. ASSUME NEW i \in DOMAIN a PROVE OfSlice(a[i]) => a[i].slice \in DOMAIN S
  BY <1>1 DEF SliceCommands
<1>4. ASSUME NEW i \in DOMAIN a, Ends(a[i])
      PROVE  /\ Stopped(S[a[i].slice])
             /\ \A j \in DOMAIN a : j > i /\ OfSlice(a[j]) => a[j].slice # a[i].slice
  <2>1. CASE i = n
    <3>1. \A j \in DOMAIN a : ~(j > n)
      BY <1>1, <1>2
    <3> QED BY <1>1, <1>4, <2>1, <3>1
  <2>2. CASE i \in DOMAIN q
    BY <1>1, <1>4, <2>2 DEF SliceCommands
  <2> QED BY <1>1, <2>1, <2>2
<1> QED BY <1>3, <1>4 DEF SliceCommands, a

LEMMA RegistersTail ==
  ASSUME NEW q \in Seq(Command), q # <<>>, NEW R, Registers(q, R)
  PROVE  Registers(Tail(q), R)
<1>1. /\ DOMAIN Tail(q) \in SUBSET Nat
      /\ \A i \in DOMAIN Tail(q) : i + 1 \in DOMAIN q /\ Tail(q)[i] = q[i + 1]
  BY TailIs
<1>2. \A i, j \in DOMAIN Tail(q) : j # i => j + 1 # i + 1
  BY <1>1
<1> QED BY <1>1, <1>2 DEF Registers

LEMMA RegistersShrunk ==
  ASSUME SetFacts, NEW q, NEW R, Registers(q, R), NEW R2, \A h \in Hashes : R2[h] \in SUBSET R[h]
  PROVE  Registers(q, R2)
<1>1. \A h \in Hashes : IsFiniteSet(R2[h])
  BY SubsetIs, Zenon DEF Registers
<1> QED BY <1>1, Zenon DEF Registers

LEMMA RegistersTaken ==
  ASSUME SetFacts, NEW q \in Seq(Command), q # <<>>, NEW R, Registers(q, R), IsRegister(Head(q)),
         NEW R2, NEW h \in Hashes, R2[h] = R[h] \cup {Head(q).sub},
         \A k \in Hashes : k # h => R2[k] = R[k]
  PROVE  Registers(Tail(q), R2) /\ Head(q).sub \notin R[h]
<1>1. /\ DOMAIN Tail(q) \in SUBSET Nat /\ 1 \in DOMAIN q /\ Head(q) = q[1]
      /\ \A i \in DOMAIN Tail(q) : i + 1 \in DOMAIN q /\ Tail(q)[i] = q[i + 1] /\ i + 1 > 1
  BY TailIs
<1>2. Registers(Tail(q), R) /\ \A k \in Hashes : IsFiniteSet(R[k])
  BY RegistersTail DEF Registers
<1>3. \A i \in DOMAIN Tail(q) : IsRegister(Tail(q)[i]) => Tail(q)[i].sub # Head(q).sub
  <2> TAKE i \in DOMAIN Tail(q)
  <2>1. i + 1 \in DOMAIN q /\ Tail(q)[i] = q[i + 1] /\ i + 1 # 1
    BY <1>1
  <2> QED BY <1>1, <2>1 DEF Registers
<1>4. \A k \in Hashes : IsFiniteSet(R2[k])
  <2> TAKE k \in Hashes
  <2>1. IsFiniteSet(R[h] \cup {Head(q).sub})
    BY <1>2, AddedIs, Zenon
  <2> QED BY <1>2, <2>1, Zenon
<1>5. Head(q).sub \notin R[h]
  BY <1>1 DEF Registers
<1>6. \A i \in DOMAIN Tail(q) : IsRegister(Tail(q)[i]) => \A k \in Hashes : Tail(q)[i].sub \notin R2[k]
  BY <1>2, <1>3 DEF Registers
<1> QED BY <1>2, <1>4, <1>5, <1>6 DEF Registers

LEMMA RegistersSent ==
  ASSUME NEW q \in Seq(Command), NEW m \in Command, NEW R, Registers(q, R),
         IsRegister(m) => /\ \A h \in Hashes : m.sub \notin R[h]
                          /\ \A i \in DOMAIN q : IsRegister(q[i]) => q[i].sub # m.sub
  PROVE  Registers(Append(q, m), R)
<1> DEFINE a == Append(q, m)
<1>1. PICK n \in Nat : /\ n \in DOMAIN a /\ a[n] = m
                       /\ DOMAIN a = DOMAIN q \cup {n}
                       /\ \A i \in DOMAIN q : i < n /\ i # n /\ a[i] = q[i]
  BY AppendIs
<1> HIDE DEF a
<1>2. ASSUME NEW i \in DOMAIN a, IsRegister(a[i])
      PROVE  /\ \A h \in Hashes : a[i].sub \notin R[h]
             /\ \A j \in DOMAIN a : IsRegister(a[j]) /\ j # i => a[j].sub # a[i].sub
  <2>1. CASE i = n
    BY <1>1, <1>2, <2>1
  <2>2. CASE i \in DOMAIN q
    BY <1>1, <1>2, <2>2 DEF Registers
  <2> QED BY <1>1, <2>1, <2>2
<1> QED BY <1>2 DEF Registers, a

-----------------------------------------------------------------------------
(* The commands the service handles.                                       *)

LEMMA CommandIs ==
  ASSUME NEW m \in Command
  PROVE  /\ m.kind = "Register" => m.hash \in Hashes /\ m.class \in Class /\ m.sub \in Subscribers
         /\ m.kind = "Update" => m.hash \in Hashes /\ m.class \in Class
         /\ m.kind = "Unregister" => m.hash \in Hashes /\ m.sub \in Subscribers
         /\ m.kind \in {"Family", "Park", "Finished"} => m.slice \in Slices
  BY DEF Command

LEMMA Received ==
  ASSUME DemandInv, NEW kind, Receive(kind)
  PROVE  /\ queue \in Seq(Command) /\ queue # <<>> /\ Head(queue) \in Command
         /\ queue' = Tail(queue) /\ queue' \in Seq(Command) /\ Head(queue).kind = kind
         /\ todo = "loop" /\ Head(queue) = queue[1] /\ 1 \in DOMAIN queue
<1>1. queue \in Seq(Command) /\ queue # <<>> /\ queue' = Tail(queue)
      /\ Head(queue).kind = kind /\ todo = "loop"
  BY DEF DemandInv, Types, Receive
<1> QED BY <1>1, TailIs

LEMMA PlannerFacts ==
  ASSUME NEW p, IsPlanner(p)
  PROVE  /\ IsEntries(p.entries) /\ DOMAIN p.entries \in SUBSET Hashes
         /\ p.active \in [Hashes -> Optional(Slices)]
         /\ p.pending_starts \in [Hashes -> Optional(Class)]
         /\ p.draining \in [Hashes -> Optional(Drain)] /\ p.tokens \in [Class -> Nat]
  BY DEF IsPlanner, IsEntries

LEMMA EntriesSet ==
  ASSUME NEW p, IsPlanner(p), NEW F, IsEntries(F), NEW q, q = [p EXCEPT !.entries = F]
  PROVE  /\ IsPlanner(q) /\ q.entries = F /\ q.active = p.active
         /\ q.pending_starts = p.pending_starts /\ q.draining = p.draining /\ q.tokens = p.tokens
<1>1. q = [entries |-> F, active |-> p.active, pending_starts |-> p.pending_starts,
           draining |-> p.draining, tokens |-> p.tokens]
  BY DEF IsPlanner
<1>2. /\ p.active \in [Hashes -> Optional(Slices)]
      /\ p.pending_starts \in [Hashes -> Optional(Class)]
      /\ p.draining \in [Hashes -> Optional(Drain)] /\ p.tokens \in [Class -> Nat]
  BY PlannerFacts
<1> QED BY <1>1, <1>2, PlannerIs, Zenon

(* The planner's invariants when no slice changes.                         *)
LEMMA SettledQuiet ==
  ASSUME SetFacts, DemandInv, NEW p, p.active = planner.active, p.pending_starts = planner.pending_starts,
         NEW t2, t2 # "start" => todo # "start"
  PROVE  Owned(p, slices) /\ Starting(p, t2) /\ Slotted(p, slices)
<1>1. Owned(planner, slices) /\ Starting(planner, todo) /\ Slotted(planner, slices)
  BY DEF DemandInv
<1>2. \A h \in Hashes : \A s \in p.active[h] :
        s \in DOMAIN slices /\ slices[s].class = slices[s].class /\ slices[s].hash = slices[s].hash
  BY <1>1 DEF Owned
<1>3. \A h \in Hashes : /\ p.active[h] \in SUBSET planner.active[h]
                        /\ p.pending_starts[h] \in SUBSET planner.pending_starts[h]
  OBVIOUS
<1>4. Shrinks(planner, slices, p, slices)
  BY <1>2, <1>3 DEF Shrinks
<1>5. t2 = "start" \/ todo # "start"
  OBVIOUS
<1> QED BY <1>1, <1>4, <1>5, Quiet

(* The demand of g has the class c now, the others theirs.                 *)
Reclassed(g, c) ==
  /\ g \in DOMAIN planner'.entries => planner'.entries[g].class = c
  /\ \A k \in DOMAIN planner.entries :
       k \in DOMAIN planner'.entries /\ (k # g => planner'.entries[k].class = planner.entries[k].class)

LEMMA RegisterStep ==
  ASSUME SetFacts, DemandInv, RegisterDemand
  PROVE  DemandInv' /\ Reclassed(Head(queue).hash, Head(queue).class)
<1> DEFINE c == Head(queue)
           F == register(planner.entries, c.hash, c.class)
           p == [planner EXCEPT !.entries = register(@, c.hash, c.class)]
           w == settle_drain(p, runtime, c.hash, c.class)
<1>1. /\ subscribers' = [subscribers EXCEPT ![c.hash] = @ \cup {c.sub}]
      /\ planner' = w.p /\ runtime' = w.r
      /\ client' = IF client[c.hash].sub = {c.sub}
                   THEN [client EXCEPT ![c.hash].at = "answered"] ELSE client
      /\ todo' = "plan" /\ UNCHANGED <<slices, ending, dead, faults>>
      /\ Receive("Register")
  BY DEF RegisterDemand
<1>2. /\ queue \in Seq(Command) /\ queue # <<>> /\ c \in Command
      /\ queue' = Tail(queue) /\ queue' \in Seq(Command) /\ c.kind = "Register"
      /\ todo = "loop"
  BY <1>1, Received
<1>3. c.hash \in Hashes /\ c.class \in Class /\ c.sub \in Subscribers
  BY <1>2, CommandIs
<1>4. Types /\ IsPlanner(planner) /\ IsRuntime(runtime)
  BY Zenon DEF DemandInv, Types
<1>5. /\ IsEntries(F) /\ DOMAIN F = DOMAIN planner.entries \cup {c.hash}
      /\ F[c.hash].class = c.class
      /\ F[c.hash].subscriber_count =
           IF c.hash \in DOMAIN planner.entries
           THEN planner.entries[c.hash].subscriber_count + 1 ELSE 1
      /\ F[c.hash].in_progress =>
           c.hash \in DOMAIN planner.entries /\ planner.entries[c.hash].in_progress
      /\ \A k \in DOMAIN planner.entries : k # c.hash => F[k] = planner.entries[k]
  <2>1. RegisteredAs(planner.entries, c.hash, c.class, F)
    BY <1>3, <1>4, PlannerFacts, RegisterIs
  <2> HIDE DEF F, c
  <2> QED BY <2>1 DEF RegisteredAs
<1>p. p = [planner EXCEPT !.entries = F]
  OBVIOUS
<1> HIDE DEF F, p
<1>6. /\ IsPlanner(p) /\ p.entries = F /\ p.active = planner.active
      /\ p.pending_starts = planner.pending_starts /\ p.draining = planner.draining
  BY <1>4, <1>5, <1>p, EntriesSet
<1>7. Settles(p, planner') /\ IsRuntime(runtime')
  BY <1>1, <1>4, <1>6, SettleIs, Zenon
<1> HIDE DEF w
<1>8. /\ subscribers'[c.hash] = subscribers[c.hash] \cup {c.sub}
      /\ \A k \in Hashes : k # c.hash => subscribers'[k] = subscribers[k]
      /\ subscribers' \in [Hashes -> SUBSET Subscribers]
  BY <1>1, <1>3, <1>4 DEF Types
<1>9. Registers(queue', subscribers') /\ c.sub \notin subscribers[c.hash]
  <2>1. Registers(queue, subscribers) /\ IsRegister(c)
    BY <1>2 DEF DemandInv, IsRegister
  <2> QED BY <1>2, <1>3, <1>8, <2>1, RegistersTaken
<1>10. Counted(F, subscribers')
  <2>1. Counted(planner.entries, subscribers) /\ IsFiniteSet(subscribers[c.hash])
    BY <1>3 DEF DemandInv, Registers
  <2>2. Cardinality(subscribers'[c.hash]) = Cardinality(subscribers[c.hash]) + 1
    <3>1. Cardinality(subscribers[c.hash] \cup {c.sub}) = Cardinality(subscribers[c.hash]) + 1
      BY <1>9, <2>1, AddedIs, Zenon
    <3> QED BY <1>8, <3>1
  <2>3. Cardinality({}) = 0
    BY DEF SetFacts
  <2>4. F[c.hash].subscriber_count = Cardinality(subscribers'[c.hash])
    <3>1. CASE c.hash \in DOMAIN planner.entries
      BY <1>3, <1>5, <2>1, <2>2, <3>1 DEF Counted
    <3>2. CASE c.hash \notin DOMAIN planner.entries
      <4>1. Cardinality(subscribers[c.hash]) = 0
        BY <1>3, <2>1, <2>3, <3>2, Zenon DEF Counted
      <4> QED BY <1>5, <2>2, <3>2, <4>1
    <3> QED BY <3>1, <3>2, Zenon
  <2> QED BY <1>5, <1>8, <2>1, <2>4, Zenon DEF Counted
<1>11. Counted(planner'.entries, subscribers')
  BY <1>6, <1>7, <1>10, CountedKept DEF Settles
<1>12. Followed(planner')
  <2>1. Followed(planner)
    BY Zenon DEF DemandInv
  <2>2. Followed(p)
    BY <1>5, <1>6, <2>1 DEF Followed, Behind
  <2> QED BY <1>7, <2>2, FollowedSettled
<1>13. Owned(planner', slices') /\ Starting(planner', todo') /\ Slotted(planner', slices')
  <2>1. planner'.active = planner.active /\ planner'.pending_starts = planner.pending_starts
    BY <1>6, <1>7 DEF Settles
  <2> QED BY <1>1, <1>2, <2>1, SettledQuiet, Zenon
<1>14. SliceCommands(queue', slices')
  BY <1>1, <1>2, CommandsTail DEF DemandInv
<1>15. client' \in [Hashes -> Client]
  <2>1. client \in [Hashes -> Client] /\ client[c.hash] \in Client
    BY <1>3, <1>4 DEF Types
  <2>2. [client[c.hash] EXCEPT !.at = "answered"] \in Client
    BY <2>1 DEF Client
  <2> QED BY <1>1, <2>1, <2>2, Zenon
<1>16. Types'
  <2>1. IsPlanner(planner') /\ IsSlices(slices')
    BY <1>1, <1>4, <1>7, Zenon DEF Settles, Types
  <2> QED BY <1>1, <1>2, <1>4, <1>7, <1>8, <1>15, <2>1 DEF Types
<1>17. Reclassed(c.hash, c.class)
  <2> HIDE DEF c
  <2> QED BY <1>5, <1>6, <1>7 DEF Reclassed, Settles, Keeps
<1> QED BY <1>9, <1>11, <1>12, <1>13, <1>14, <1>16, <1>17 DEF DemandInv

LEMMA UpdateStep ==
  ASSUME SetFacts, DemandInv, UpdateDemand
  PROVE  DemandInv' /\ Reclassed(Head(queue).hash, Head(queue).class)
<1> DEFINE c == Head(queue)
           F == update(planner.entries, c.hash, c.class)
           p == [planner EXCEPT !.entries = update(@, c.hash, c.class)]
           w == settle_drain(p, runtime, c.hash, c.class)
<1>1. /\ planner' = w.p /\ runtime' = w.r /\ todo' = "plan"
      /\ UNCHANGED <<subscribers, slices, client, ending, dead, faults>>
      /\ Receive("Update")
  BY DEF UpdateDemand, torrents
<1>2. /\ queue \in Seq(Command) /\ queue # <<>> /\ c \in Command
      /\ queue' = Tail(queue) /\ queue' \in Seq(Command) /\ c.kind = "Update"
      /\ todo = "loop"
  BY <1>1, Received
<1>3. c.hash \in Hashes /\ c.class \in Class
  BY <1>2, CommandIs
<1>4. Types /\ IsPlanner(planner) /\ IsRuntime(runtime)
  BY DEF DemandInv, Types
<1>5. /\ IsEntries(F) /\ DOMAIN F = DOMAIN planner.entries
      /\ c.hash \in DOMAIN planner.entries =>
           /\ F[c.hash].class = c.class
           /\ F[c.hash].subscriber_count = planner.entries[c.hash].subscriber_count
           /\ F[c.hash].in_progress = planner.entries[c.hash].in_progress
      /\ \A k \in DOMAIN planner.entries : k # c.hash => F[k] = planner.entries[k]
  BY <1>3, <1>4, PlannerFacts, UpdateIs
<1>p. p = [planner EXCEPT !.entries = F]
  OBVIOUS
<1> HIDE DEF F, p
<1>6. /\ IsPlanner(p) /\ p.entries = F /\ p.active = planner.active
      /\ p.pending_starts = planner.pending_starts /\ p.draining = planner.draining
  BY <1>4, <1>5, <1>p, EntriesSet
<1>7. Settles(p, planner') /\ IsRuntime(runtime')
  BY <1>1, <1>4, <1>6, SettleIs
<1> HIDE DEF w
<1>8. Registers(queue', subscribers')
  BY <1>1, <1>2, RegistersTail DEF DemandInv
<1>9. Counted(planner'.entries, subscribers')
  <2>1. Counted(planner.entries, subscribers)
    BY DEF DemandInv
  <2>2. Counted(F, subscribers)
    BY <1>5, <2>1 DEF Counted
  <2> QED BY <1>1, <1>6, <1>7, <2>2, CountedKept DEF Settles
<1>10. Followed(planner')
  <2>1. Followed(planner)
    BY DEF DemandInv
  <2>2. Followed(p)
    BY <1>5, <1>6, <2>1 DEF Followed, Behind
  <2> QED BY <1>7, <2>2, FollowedSettled
<1>11. Owned(planner', slices') /\ Starting(planner', todo') /\ Slotted(planner', slices')
  <2>1. planner'.active = planner.active /\ planner'.pending_starts = planner.pending_starts
    BY <1>6, <1>7 DEF Settles
  <2> QED BY <1>1, <1>2, <2>1, SettledQuiet
<1>12. SliceCommands(queue', slices')
  BY <1>1, <1>2, CommandsTail DEF DemandInv
<1>13. Types'
  <2>1. IsPlanner(planner') /\ IsSlices(slices')
    BY <1>1, <1>4, <1>7 DEF Settles, Types
  <2> QED BY <1>1, <1>2, <1>4, <1>7, <2>1 DEF Types
<1>14. Reclassed(c.hash, c.class)
  <2> HIDE DEF c
  <2> QED BY <1>5, <1>6, <1>7 DEF Reclassed, Settles, Keeps
<1> QED BY <1>8, <1>9, <1>10, <1>11, <1>12, <1>13, <1>14, Zenon DEF DemandInv

(* A torrent's subscribers go: with the last one goes its demand.          *)
Removed(h, gone) ==
  /\ IsPlanner(planner') /\ IsRuntime(runtime') /\ IsSlices(slices')
  /\ subscribers' \in [Hashes -> SUBSET Subscribers] /\ dead' \in SUBSET Subscribers
  /\ subscribers'[h] = subscribers[h] \ gone
  /\ \A k \in Hashes : k # h => subscribers'[k] = subscribers[k]
  /\ Owned(planner', slices') /\ Starting(planner', todo) /\ Slotted(planner', slices')
  /\ Followed(planner') /\ Counted(planner'.entries, subscribers')
  /\ \A s \in DOMAIN slices : s \in DOMAIN slices' /\ (Stopped(slices[s]) => Stopped(slices'[s]))
  /\ \A k \in DOMAIN planner'.entries :
       k \in DOMAIN planner.entries /\ planner'.entries[k].class = planner.entries[k].class

LEMMA RemovedIs ==
  ASSUME SetFacts, DemandInv, NEW h \in Hashes, NEW gone \in SUBSET subscribers[h],
         RemoveSubscribers(h, gone)
  PROVE  Removed(h, gone)
<1>0. /\ Types /\ IsPlanner(planner) /\ IsRuntime(runtime) /\ IsSlices(slices)
      /\ Owned(planner, slices) /\ Starting(planner, todo) /\ Slotted(planner, slices)
      /\ Followed(planner) /\ Counted(planner.entries, subscribers)
      /\ \A k \in Hashes : IsFiniteSet(subscribers[k])
  BY DEF DemandInv, Types, Registers
<1>1. /\ subscribers' = [subscribers EXCEPT ![h] = @ \ gone] /\ dead' = dead \ gone
      /\ IF gone = {} THEN UNCHANGED <<planner, runtime, slices>> ELSE Forgotten(h, gone)
  BY DEF RemoveSubscribers
<1>2. /\ subscribers'[h] = subscribers[h] \ gone
      /\ \A k \in Hashes : k # h => subscribers'[k] = subscribers[k]
      /\ subscribers' \in [Hashes -> SUBSET Subscribers] /\ dead' \in SUBSET Subscribers
  BY <1>0, <1>1 DEF Types
<1>3. CASE gone = {}
  <2>1. UNCHANGED <<planner, runtime, slices>>
    BY <1>1, <1>3
  <2>2. \A k \in Hashes : subscribers'[k] = subscribers[k]
    BY <1>2, <1>3
  <2>3. Counted(planner'.entries, subscribers')
    BY <1>0, <2>1, <2>2 DEF Counted
  <2> QED BY <1>0, <1>2, <2>1, <2>3 DEF Removed
<1>4. CASE gone # {}
  <2> DEFINE n == Cardinality(gone)
             E == unregister(planner.entries, h, n)
             out == planner.active[h]
             ids == UNION {Numbers(slices[s].ids) : s \in out}
             drained == UNION {d.ids : d \in planner.draining[h]}
  <2>1. h \in DOMAIN planner.entries
        /\ planner.entries[h].subscriber_count = Cardinality(subscribers[h])
    BY <1>0, <1>4 DEF Counted
  <2>2. /\ IsFiniteSet(gone) /\ n <= Cardinality(subscribers[h])
        /\ (Cardinality(subscribers[h]) = n => subscribers[h] = gone)
    BY <1>0, SubsetIs
  <2>3. n \in Nat /\ Cardinality(subscribers[h]) \in Nat
    BY <1>0, <2>2, SizeIs
  <2>4. UnregisteredAs(planner.entries, h, n, E)
    BY <1>0, <2>1, <2>3, PlannerFacts, UnregisterIs
  <2>5. IF h \notin DOMAIN E
        THEN /\ planner' = [planner EXCEPT !.entries = E, !.pending_starts[h] = {},
                                           !.active[h] = {}, !.draining[h] = {}]
             /\ runtime' = cancel_lookups(runtime, ids \cup drained)
             /\ slices' = [s \in DOMAIN slices |->
                  IF s \in out THEN [slices[s] EXCEPT !.ids = {}] ELSE slices[s]]
        ELSE planner' = [planner EXCEPT !.entries = E] /\ UNCHANGED <<runtime, slices>>
    BY <1>1, <1>4, <2>1 DEF Forgotten
  <2> HIDE DEF E, ids, drained, n
  <2>6. /\ IsEntries(E)
        /\ DOMAIN E = IF planner.entries[h].subscriber_count <= n
                      THEN DOMAIN planner.entries \ {h} ELSE DOMAIN planner.entries
        /\ \A k \in DOMAIN E : /\ E[k].class = planner.entries[k].class
                               /\ E[k].in_progress = planner.entries[k].in_progress
                               /\ k # h => E[k] = planner.entries[k]
        /\ h \in DOMAIN E => E[h].subscriber_count = planner.entries[h].subscriber_count - n
    BY <2>4 DEF UnregisteredAs
  <2>7. DOMAIN E \in SUBSET DOMAIN planner.entries /\ \A k \in DOMAIN planner.entries : k # h => k \in DOMAIN E
    BY <2>6
  <2>8. Counted(E, subscribers')
    <3>1. h \notin DOMAIN E => subscribers'[h] = {}
      <4>1. h \notin DOMAIN E => Cardinality(subscribers[h]) = n
        BY <2>1, <2>2, <2>3, <2>6
      <4> QED BY <1>2, <2>2, <4>1
    <3>2. h \in DOMAIN E => E[h].subscriber_count = Cardinality(subscribers'[h])
      <4>1. subscribers[h] \cap gone = gone
        OBVIOUS
      <4>2. Cardinality(subscribers[h] \ gone) = Cardinality(subscribers[h]) - Cardinality(subscribers[h] \cap gone)
        BY <1>0, Zenon DEF SetFacts
      <4>3. Cardinality(subscribers'[h]) = Cardinality(subscribers[h]) - n
        BY <1>2, <4>1, <4>2 DEF n
      <4> QED BY <2>1, <2>6, <4>3
    <3>3. \A k \in Hashes : k # h => IF k \in DOMAIN E THEN E[k].subscriber_count = Cardinality(subscribers'[k])
                                     ELSE subscribers'[k] = {}
      BY <1>0, <1>2, <2>6, <2>7 DEF Counted
    <3> QED BY <3>1, <3>2, <3>3 DEF Counted
  <2>9. CASE h \in DOMAIN E
    <3>1. /\ IsPlanner(planner') /\ planner'.entries = E /\ planner'.active = planner.active
          /\ planner'.pending_starts = planner.pending_starts
          /\ planner'.draining = planner.draining
      BY <1>0, <2>5, <2>6, <2>9, EntriesSet
    <3>2. runtime' = runtime /\ slices' = slices
      BY <2>5, <2>9
    <3>3. Owned(planner', slices') /\ Starting(planner', todo) /\ Slotted(planner', slices')
      BY <3>1, <3>2, SettledQuiet
    <3>4. Followed(planner')
      BY <1>0, <2>6, <2>7, <3>1 DEF Followed, Behind
    <3> QED BY <1>0, <1>2, <2>6, <2>7, <2>8, <3>1, <3>2, <3>3, <3>4 DEF Removed
  <2>10. CASE h \notin DOMAIN E
    <3> DEFINE A == [planner.active EXCEPT ![h] = {}]
               B == [planner.pending_starts EXCEPT ![h] = {}]
               D == [planner.draining EXCEPT ![h] = {}]
    <3>1. /\ A \in [Hashes -> Optional(Slices)] /\ B \in [Hashes -> Optional(Class)]
          /\ D \in [Hashes -> Optional(Drain)] /\ planner.tokens \in [Class -> Nat]
      BY <1>0, Opt, PlannerFacts
    <3>2. /\ A[h] = {} /\ B[h] = {} /\ D[h] = {}
          /\ \A k \in Hashes : k # h => /\ A[k] = planner.active[k] /\ B[k] = planner.pending_starts[k]
                                        /\ D[k] = planner.draining[k]
      BY <1>0, PlannerFacts
    <3>3. planner' = [planner EXCEPT !.entries = E, !.pending_starts = B, !.active = A, !.draining = D]
      BY <2>5, <2>10
    <3> HIDE DEF A, B, D
    <3>4. planner' = [entries |-> E, active |-> A, pending_starts |-> B, draining |-> D,
                      tokens |-> planner.tokens]
      BY <1>0, <3>3, Zenon DEF IsPlanner
    <3>5. /\ IsPlanner(planner') /\ planner'.entries = E /\ planner'.active = A
          /\ planner'.pending_starts = B /\ planner'.draining = D
      BY <2>6, <3>1, <3>4, PlannerIs
    <3>6. IsRuntime(runtime')
      BY <1>0, <2>5, <2>10, CancelIs
    <3>7. /\ DOMAIN slices' = DOMAIN slices
          /\ \A s \in DOMAIN slices : /\ slices'[s] \in Slice /\ slices'[s].class = slices[s].class
                                      /\ slices'[s].hash = slices[s].hash
                                      /\ slices'[s].running = slices[s].running
                                      /\ slices'[s].hedge = slices[s].hedge
          /\ slices' = [s \in DOMAIN slices |-> slices'[s]]
      <4>1. slices' = [s \in DOMAIN slices |->
                  IF s \in out THEN [slices[s] EXCEPT !.ids = {}] ELSE slices[s]]
        BY <2>5, <2>10
      <4>2. \A s \in DOMAIN slices : slices[s] \in Slice
        BY <1>0 DEF IsSlices
      <4>3. DOMAIN slices' = DOMAIN slices /\ slices' = [s \in DOMAIN slices |-> slices'[s]]
        BY <4>1
      <4>4. ASSUME NEW s \in DOMAIN slices
            PROVE  /\ slices'[s] \in Slice /\ slices'[s].class = slices[s].class
                   /\ slices'[s].hash = slices[s].hash
                   /\ slices'[s].running = slices[s].running
                   /\ slices'[s].hedge = slices[s].hedge
        <5>1. PICK x \in Slice : x = slices[s]
          BY <4>2
        <5>2. slices'[s] = x \/ slices'[s] = [x EXCEPT !.ids = {}]
          BY <4>1, <5>1
        <5> QED BY <5>1, <5>2 DEF Slice
      <4> QED BY <4>3, <4>4
    <3>8. IsSlices(slices')
      BY <1>0, <3>7, Zenon DEF IsSlices
    <3>9. Owned(planner', slices') /\ Starting(planner', todo) /\ Slotted(planner', slices')
      <4>1. \A k \in Hashes : /\ planner'.active[k] \in SUBSET planner.active[k]
                              /\ planner'.pending_starts[k] \in SUBSET planner.pending_starts[k]
        BY <3>2, <3>5
      <4>2. \A k \in Hashes : \A s \in planner'.active[k] :
              s \in DOMAIN slices' /\ slices'[s].class = slices[s].class /\ slices'[s].hash = slices[s].hash
        BY <1>0, <3>7, <4>1, Zenon DEF Owned
      <4>3. todo = "start" \/ todo # "start"
        OBVIOUS
      <4>4. Shrinks(planner, slices, planner', slices')
        BY <4>1, <4>2, Zenon DEF Shrinks
      <4> QED BY <1>0, <4>3, <4>4, Quiet
    <3>10. Followed(planner')
      <4>1. DOMAIN E \in SUBSET Hashes
        BY <2>6 DEF IsEntries
      <4> QED BY <1>0, <2>6, <2>7, <2>10, <3>2, <3>5, <4>1 DEF Followed, Behind
    <3>11. \A s \in DOMAIN slices : s \in DOMAIN slices' /\ (Stopped(slices[s]) => Stopped(slices'[s]))
      BY <3>7, Zenon DEF Stopped
    <3>12. \A k \in DOMAIN planner'.entries :
             k \in DOMAIN planner.entries /\ planner'.entries[k].class = planner.entries[k].class
      BY <2>6, <2>7, <3>5
    <3>13. Counted(planner'.entries, subscribers')
      BY <2>8, <3>5, Zenon
    <3> QED BY <1>2, <3>5, <3>6, <3>8, <3>9, <3>10, <3>11, <3>12, <3>13 DEF Removed
  <2> QED BY <2>9, <2>10
<1> QED BY <1>3, <1>4

LEMMA UnregisterStep ==
  ASSUME SetFacts, DemandInv, UnregisterDemand
  PROVE  DemandInv' /\ Removed(Head(queue).hash, {Head(queue).sub} \cap subscribers[Head(queue).hash])
<1> DEFINE c == Head(queue)
           gone == {c.sub} \cap subscribers[c.hash]
<1>1. RemoveSubscribers(c.hash, gone) /\ Receive("Unregister")
      /\ UNCHANGED <<todo, client, ending, faults>>
  BY Zenon DEF UnregisterDemand
<1>2. /\ queue \in Seq(Command) /\ queue # <<>> /\ c \in Command
      /\ queue' = Tail(queue) /\ queue' \in Seq(Command) /\ c.kind = "Unregister"
  BY <1>1, Received, Zenon
<1>3. c.hash \in Hashes
  BY <1>2, CommandIs, Zenon
<1>4. Removed(c.hash, gone)
  <2>1. gone \in SUBSET subscribers[c.hash]
    OBVIOUS
  <2> HIDE DEF gone
  <2> QED BY <1>1, <1>3, <2>1, RemovedIs
<1>5. SliceCommands(queue', slices') /\ Registers(queue', subscribers')
  <2>1. SliceCommands(queue', slices)
    BY <1>2, CommandsTail DEF DemandInv
  <2>2. Registers(queue', subscribers)
    BY <1>2, RegistersTail, Zenon DEF DemandInv
  <2>3. \A k \in Hashes : subscribers'[k] \in SUBSET subscribers[k]
    BY <1>4, Zenon DEF Removed
  <2>4. \A s \in DOMAIN slices : s \in DOMAIN slices' /\ (Stopped(slices[s]) => Stopped(slices'[s]))
    BY <1>4 DEF Removed
  <2> QED BY <2>1, <2>2, <2>3, <2>4, CommandsKept, RegistersShrunk, ZenonT(30)
<1>6. Types'
  BY <1>1, <1>2, <1>4, Zenon DEF Types, DemandInv, Removed
<1> QED BY <1>1, <1>4, <1>5, <1>6, Zenon DEF DemandInv, Removed

LEMMA PeersStep ==
  ASSUME SetFacts, DemandInv, NEW h \in Hashes, DemandPeers(h)
  PROVE  DemandInv' /\ Removed(h, subscribers[h] \cap dead)
<1> DEFINE gone == subscribers[h] \cap dead
<1>1. RemoveSubscribers(h, gone) /\ UNCHANGED <<todo, queue, client, ending, faults>>
  BY Zenon DEF DemandPeers
<1>2. Removed(h, gone)
  <2>1. gone \in SUBSET subscribers[h]
    OBVIOUS
  <2> HIDE DEF gone
  <2> QED BY <1>1, <2>1, RemovedIs
<1>3. SliceCommands(queue', slices') /\ Registers(queue', subscribers')
  <2>1. SliceCommands(queue', slices) /\ Registers(queue', subscribers)
    BY <1>1, Zenon DEF DemandInv
  <2>2. \A k \in Hashes : subscribers'[k] \in SUBSET subscribers[k]
    BY <1>2, Zenon DEF Removed
  <2>3. \A s \in DOMAIN slices : s \in DOMAIN slices' /\ (Stopped(slices[s]) => Stopped(slices'[s]))
    BY <1>2, Zenon DEF Removed
  <2> QED BY <2>1, <2>2, <2>3, CommandsKept, RegistersShrunk, Zenon
<1>4. Types'
  BY <1>1, <1>2, Zenon DEF Types, DemandInv, Removed
<1> QED BY <1>1, <1>2, <1>3, <1>4, Zenon DEF DemandInv, Removed

(* The last command of a slice: the slice goes, and nothing is active for  *)
(* its torrent any more.                                                   *)
Untracked(p, h) ==
  p.active = [planner.active EXCEPT ![h] = {}] /\ p.pending_starts = planner.pending_starts
FreedAs(p, s) ==
  /\ s \in DOMAIN slices /\ slices[s] \in Slice /\ slices[s].hash \in Hashes
  /\ p.active[slices[s].hash] = {}
  /\ \A k \in Hashes : k # slices[s].hash => p.active[k] = planner.active[k]
  /\ IsSlices(slices') /\ SliceCommands(queue', slices')
  /\ Owned(p, slices') /\ Starting(p, "plan") /\ Slotted(p, slices')

LEMMA FreedIs ==
  ASSUME SetFacts, DemandInv, NEW kind \in {"Park", "Finished"}, Receive(kind),
         NEW s, s = Head(queue).slice, slices' = Free(s),
         NEW p, Untracked(p, slices[s].hash)
  PROVE  FreedAs(p, s)
<1>1. /\ queue \in Seq(Command) /\ queue # <<>> /\ Head(queue) \in Command
      /\ queue' = Tail(queue) /\ Head(queue).kind = kind /\ todo = "loop"
      /\ Head(queue) = queue[1] /\ 1 \in DOMAIN queue
  BY Received, Zenon
<1>2. /\ Types /\ IsPlanner(planner) /\ IsSlices(slices)
      /\ Owned(planner, slices) /\ Starting(planner, todo) /\ Slotted(planner, slices)
      /\ SliceCommands(queue, slices)
  BY Zenon DEF DemandInv, Types
<1>3. Ends(Head(queue)) /\ OfSlice(Head(queue))
  BY <1>1, Zenon DEF Ends, OfSlice
<1>4. s \in DOMAIN slices
  BY <1>1, <1>2, <1>3, Zenon DEF SliceCommands
<1>5. slices[s] \in Slice /\ slices[s].hash \in Hashes
  BY <1>2, <1>4, Zenon DEF IsSlices, Slice
<1>6. /\ DOMAIN slices' = DOMAIN slices \ {s} /\ \A t \in DOMAIN slices' : slices'[t] = slices[t]
      /\ slices' = [t \in DOMAIN slices' |-> slices'[t]]
  BY Zenon DEF Free
<1>7. IsSlices(slices')
  BY <1>2, <1>6, Zenon DEF IsSlices
<1>8. SliceCommands(queue', slices')
  <2>1. WithoutSlice(slices, Head(queue).slice, slices')
    BY <1>6, Zenon DEF WithoutSlice
  <2> QED BY <1>1, <1>2, <1>3, <2>1, CommandsFreed, Zenon
<1>9. /\ p.active[slices[s].hash] = {}
      /\ \A k \in Hashes : k # slices[s].hash => p.active[k] = planner.active[k]
  BY <1>2, <1>5, PlannerFacts, Zenon DEF Untracked
<1>10. \A k \in Hashes : \A t \in p.active[k] :
         t \in DOMAIN slices' /\ slices'[t].class = slices[t].class /\ slices'[t].hash = slices[t].hash
  BY <1>2, <1>6, <1>9 DEF Owned
<1>11. \A k \in Hashes : /\ p.active[k] \in SUBSET planner.active[k]
                         /\ p.pending_starts[k] \in SUBSET planner.pending_starts[k]
  BY <1>9, Zenon DEF Untracked
<1>12. "plan" = "start" \/ todo # "start"
  BY <1>1, Zenon
<1>13. Shrinks(planner, slices, p, slices')
  BY <1>10, <1>11, Zenon DEF Shrinks
<1>14. Owned(p, slices') /\ Starting(p, "plan") /\ Slotted(p, slices')
  BY <1>2, <1>12, <1>13, Quiet, Zenon
<1> QED BY <1>4, <1>5, <1>7, <1>8, <1>9, <1>14, Zenon DEF FreedAs

LEMMA FinishedStep ==
  ASSUME SetFacts, DemandInv, DemandLookupFinished
  PROVE  DemandInv' /\ Keeps(planner.entries, planner'.entries)
<1> DEFINE s == Head(queue).slice
           h == slices[s].hash
           A == [planner.active EXCEPT ![h] = {}]
           F == finish(planner.entries, {h})
<1>1. /\ planner' = [planner EXCEPT !.active = A, !.entries = F]
      /\ runtime' = Orphan(runtime, s) /\ slices' = Free(s) /\ todo' = "plan"
      /\ UNCHANGED <<subscribers, client, ending, dead, faults>>
      /\ Receive("Finished")
  BY Zenon DEF DemandLookupFinished, torrents
<1>2. /\ Types /\ IsPlanner(planner) /\ IsRuntime(runtime) /\ Followed(planner)
      /\ Counted(planner.entries, subscribers) /\ Registers(queue, subscribers)
  BY Zenon DEF DemandInv, Types
<1>3. /\ IsEntries(F) /\ Keeps(planner.entries, F)
      /\ \A k \in DOMAIN planner.entries :
           IF k \in {h} THEN ~F[k].in_progress ELSE F[k] = planner.entries[k]
  BY <1>2, PlannerFacts, FinishIs
<1>4. /\ A \in [Hashes -> Optional(Slices)] /\ planner.pending_starts \in [Hashes -> Optional(Class)]
      /\ planner.draining \in [Hashes -> Optional(Drain)] /\ planner.tokens \in [Class -> Nat]
  BY <1>2, Opt, PlannerFacts, Zenon
<1> HIDE DEF A, F
<1>5. planner' = [entries |-> F, active |-> A, pending_starts |-> planner.pending_starts,
                  draining |-> planner.draining, tokens |-> planner.tokens]
  BY <1>1, <1>2, Zenon DEF IsPlanner
<1>6. /\ IsPlanner(planner') /\ planner'.entries = F /\ planner'.active = A
      /\ planner'.pending_starts = planner.pending_starts /\ planner'.draining = planner.draining
  BY <1>3, <1>4, <1>5, PlannerIs
<1>7. /\ Untracked(planner', h) /\ s = Head(queue).slice
      /\ "Finished" \in {"Park", "Finished"}
  BY <1>6, Zenon DEF A, Untracked
<1> HIDE DEF s
<1>8. /\ planner'.active[h] = {}
      /\ \A k \in Hashes : k # h => planner'.active[k] = planner.active[k]
      /\ IsSlices(slices') /\ SliceCommands(queue', slices')
      /\ Owned(planner', slices') /\ Starting(planner', "plan") /\ Slotted(planner', slices')
  <2>1. FreedAs(planner', s)
    BY <1>1, <1>7, FreedIs, Zenon
  <2> QED BY <2>1, Zenon DEF FreedAs
<1>9. Followed(planner')
  <2>1. DOMAIN planner.entries \in SUBSET Hashes
    BY <1>2, PlannerFacts
  <2> HIDE DEF h
  <2> QED BY <1>2, <1>3, <1>6, <1>8, <2>1, Zenon DEF Followed, Behind, Keeps
<1>10. Counted(planner'.entries, subscribers')
  BY <1>1, <1>2, <1>3, <1>6, CountedKept
<1>11. Registers(queue', subscribers') /\ queue' \in Seq(Command)
  <2>1. queue \in Seq(Command) /\ queue # <<>> /\ queue' = Tail(queue) /\ queue' \in Seq(Command)
    BY <1>1, Received
  <2> QED BY <1>1, <1>2, <2>1, RegistersTail
<1>12. IsRuntime(runtime')
  BY <1>1, <1>2, OrphanIs
<1>13. Types'
  BY <1>1, <1>2, <1>6, <1>8, <1>11, <1>12 DEF Types
<1> QED BY <1>1, <1>3, <1>6, <1>8, <1>9, <1>10, <1>11, <1>13 DEF DemandInv

LEMMA ParkStep ==
  ASSUME SetFacts, DemandInv, ParkDemandLookups
  PROVE  DemandInv' /\ Keeps(planner.entries, planner'.entries)
<1>0. Receive("Park") /\ todo' = "plan" /\ UNCHANGED <<subscribers, client, ending, dead, faults>>
  BY DEF ParkDemandLookups, torrents
<1>1. PICK s \in {Head(queue).slice}, admitted \in BOOLEAN :
        LET h == slices[s].hash
            w == drain_lookup_ids([planner EXCEPT !.active[h] = {}],
                                  Orphan(runtime, s), s, admitted)
            resolved == park_resolved(w.p, w.r, h, slices[s].class)
        IN  /\ planner' = resolved.p /\ runtime' = resolved.r
            /\ slices' = Free(s)
  BY Zenon DEF ParkDemandLookups
<1> DEFINE h == slices[s].hash
           A == [planner.active EXCEPT ![h] = {}]
           p == [planner EXCEPT !.active[h] = {}]
           r == Orphan(runtime, s)
           w == drain_lookup_ids(p, r, s, admitted)
<1>2. /\ planner' = park_resolved(w.p, w.r, h, slices[s].class).p
      /\ runtime' = park_resolved(w.p, w.r, h, slices[s].class).r
      /\ slices' = Free(s) /\ s = Head(queue).slice
  BY <1>1, Zenon
<1>3. /\ Types /\ IsPlanner(planner) /\ IsRuntime(runtime) /\ Followed(planner)
      /\ Counted(planner.entries, subscribers) /\ Registers(queue, subscribers)
  BY DEF DemandInv, Types
<1>4. /\ A \in [Hashes -> Optional(Slices)] /\ planner.pending_starts \in [Hashes -> Optional(Class)]
      /\ planner.draining \in [Hashes -> Optional(Drain)] /\ planner.tokens \in [Class -> Nat]
      /\ IsEntries(planner.entries) /\ DOMAIN planner.entries \in SUBSET Hashes
  BY <1>3, Opt, PlannerFacts, Zenon
<1>p. p = [planner EXCEPT !.active = A]
  OBVIOUS
<1> HIDE DEF A, p
<1>5. p = [entries |-> planner.entries, active |-> A, pending_starts |-> planner.pending_starts,
           draining |-> planner.draining, tokens |-> planner.tokens]
  BY <1>3, <1>p, Zenon DEF IsPlanner
<1>6. /\ IsPlanner(p) /\ p.entries = planner.entries /\ p.active = A
      /\ p.pending_starts = planner.pending_starts /\ p.draining = planner.draining
  BY <1>4, <1>5, PlannerIs
<1>7. Untracked(p, h) /\ "Park" \in {"Park", "Finished"}
  BY <1>6, Zenon DEF A, Untracked
<1>8. /\ s \in DOMAIN slices /\ h \in Hashes /\ p.active[h] = {}
      /\ \A k \in Hashes : k # h => p.active[k] = planner.active[k]
      /\ IsSlices(slices') /\ SliceCommands(queue', slices')
      /\ Owned(p, slices') /\ Starting(p, "plan") /\ Slotted(p, slices')
  <2>1. FreedAs(p, s)
    BY <1>0, <1>2, <1>7, FreedIs, Zenon
  <2> QED BY <2>1, Zenon DEF FreedAs
<1>9. IsRuntime(r)
  BY <1>3, OrphanIs
<1> HIDE DEF r
<1>10. /\ IsPlanner(w.p) /\ IsRuntime(w.r)
       /\ w.p.entries = p.entries /\ w.p.active = p.active
       /\ w.p.pending_starts = p.pending_starts
       /\ \A k \in Hashes : k # h => w.p.draining[k] = p.draining[k]
  <2>1. DrainedAs(p, w, h)
    BY <1>3, <1>6, <1>8, <1>9, DrainLookupsIs, Zenon
  <2> QED BY <2>1, Zenon DEF DrainedAs
<1> HIDE DEF w
<1>11. ParkedAs(w.p, planner', h) /\ IsRuntime(runtime')
  BY <1>2, <1>10, ParkResolvedIs, Zenon
<1> HIDE DEF h
<1>12. /\ IsPlanner(planner') /\ Keeps(planner.entries, planner'.entries)
       /\ planner'.active = p.active /\ planner'.pending_starts = p.pending_starts
       /\ \A k \in DOMAIN planner.entries : IF k = h
            THEN planner'.entries[k].in_progress => planner'.draining[k] # {}
            ELSE planner'.entries[k] = planner.entries[k] /\ planner'.draining[k] = planner.draining[k]
  BY <1>4, <1>6, <1>10, <1>11, Zenon DEF ParkedAs
<1>13. Owned(planner', slices') /\ Starting(planner', "plan") /\ Slotted(planner', slices')
  BY <1>8, <1>12 DEF Owned, Starting, Slotted, Busy, BusyIn
<1>14. Followed(planner')
  <2>1. DOMAIN planner'.entries = DOMAIN planner.entries
    BY <1>12, Zenon DEF Keeps
  <2>2. ASSUME NEW k \in DOMAIN planner.entries, planner'.entries[k].in_progress
        PROVE  Behind(planner', k)
    <3>1. k \in Hashes
      BY <1>4, Zenon
    <3>2. CASE k = h
      BY <1>12, <2>2, <3>2, Zenon DEF Behind
    <3>3. CASE k # h
      <4>1. planner'.entries[k] = planner.entries[k] /\ planner'.draining[k] = planner.draining[k]
        BY <1>12, <3>3, Zenon
      <4>2. Behind(planner, k)
        BY <1>3, <2>2, <4>1, Zenon DEF Followed
      <4>3. /\ planner'.active[k] = planner.active[k]
            /\ planner'.pending_starts[k] = planner.pending_starts[k]
        BY <1>6, <1>8, <1>12, <3>1, <3>3, Zenon
      <4> QED BY <4>1, <4>2, <4>3, Zenon DEF Behind
    <3> QED BY <3>2, <3>3, Zenon
  <2> QED BY <2>1, <2>2, Zenon DEF Followed
<1>15. Counted(planner'.entries, subscribers')
  BY <1>0, <1>3, <1>12, CountedKept, Zenon
<1>16. Registers(queue', subscribers') /\ queue' \in Seq(Command)
  <2>1. queue \in Seq(Command) /\ queue # <<>> /\ queue' = Tail(queue) /\ queue' \in Seq(Command)
    BY <1>0, Received
  <2> QED BY <1>0, <1>3, <2>1, RegistersTail
<1>17. Types'
  BY <1>0, <1>3, <1>8, <1>11, <1>12, <1>16, ZenonT(30) DEF Types
<1> QED BY <1>0, <1>8, <1>12, <1>13, <1>14, <1>15, <1>16, <1>17, Zenon DEF DemandInv

LEMMA DrainsStep ==
  ASSUME SetFacts, DemandInv, todo = "loop", NEW F, FinalizeDrains(F)
  PROVE  DemandInv' /\ Keeps(planner.entries, planner'.entries)
<1>1. /\ planner' = finalize_drained(planner, runtime, F).p
      /\ runtime' = finalize_drained(planner, runtime, F).r
      /\ todo' = "plan" /\ UNCHANGED <<subscribers, slices, queue, client, ending, dead, faults>>
  BY Zenon DEF FinalizeDrains, torrents
<1>2. /\ Types /\ IsPlanner(planner) /\ IsRuntime(runtime) /\ Followed(planner)
      /\ Counted(planner.entries, subscribers)
      /\ Registers(queue, subscribers) /\ SliceCommands(queue, slices)
  BY Zenon DEF DemandInv, Types
<1>3. Settles(planner, planner') /\ IsRuntime(runtime')
  BY <1>1, <1>2, FinalizeIs, Zenon
<1>4. /\ IsPlanner(planner') /\ Keeps(planner.entries, planner'.entries)
      /\ planner'.active = planner.active /\ planner'.pending_starts = planner.pending_starts
  BY <1>3, Zenon DEF Settles
<1>5. Owned(planner', slices') /\ Starting(planner', todo') /\ Slotted(planner', slices')
  BY <1>1, <1>4, SettledQuiet, Zenon
<1>6. Followed(planner') /\ Counted(planner'.entries, subscribers')
  BY <1>1, <1>2, <1>3, <1>4, FollowedSettled, CountedKept, Zenon
<1>7. Types'
  BY <1>1, <1>2, <1>3, <1>4, Zenon DEF Types
<1> QED BY <1>1, <1>2, <1>4, <1>5, <1>6, <1>7, Zenon DEF DemandInv

-----------------------------------------------------------------------------
(* Slices that change while the planner does not.                          *)

SameSlices(S, T) ==
  /\ IsSlices(T) /\ DOMAIN T = DOMAIN S
  /\ \A t \in DOMAIN S : /\ T[t].class = S[t].class /\ T[t].hash = S[t].hash
                         /\ Stopped(S[t]) => Stopped(T[t])

LEMMA SliceSet ==
  ASSUME NEW S, IsSlices(S), NEW s \in DOMAIN S, NEW x \in Slice,
         x.class = S[s].class, x.hash = S[s].hash, Stopped(S[s]) => Stopped(x),
         NEW T, T = [S EXCEPT ![s] = x]
  PROVE  SameSlices(S, T) /\ T[s] = x
<1>1. /\ DOMAIN T = DOMAIN S /\ T[s] = x /\ \A t \in DOMAIN S : t # s => T[t] = S[t]
      /\ T = [t \in DOMAIN S |-> T[t]]
  BY Zenon DEF IsSlices
<1>2. IsSlices(T)
  BY <1>1, Zenon DEF IsSlices
<1> QED BY <1>1, <1>2 DEF SameSlices

LEMMA SlicesKept ==
  ASSUME SetFacts, DemandInv, NEW T, SameSlices(slices, T)
  PROVE  /\ Owned(planner, T) /\ Slotted(planner, T)
         /\ IsSlices(T) /\ SliceCommands(queue, T)
<1>1. /\ Owned(planner, slices) /\ Starting(planner, todo) /\ Slotted(planner, slices)
      /\ SliceCommands(queue, slices)
  BY Zenon DEF DemandInv
<1>2. Shrinks(planner, slices, planner, T)
  BY <1>1, Zenon DEF Shrinks, SameSlices, Owned
<1>3. Owned(planner, T) /\ Slotted(planner, T)
  <2>1. todo = "start" \/ todo # "start"
    OBVIOUS
  <2> QED BY <1>1, <1>2, <2>1, Quiet
<1>4. \A t \in DOMAIN slices : t \in DOMAIN T /\ (Stopped(slices[t]) => Stopped(T[t]))
  BY Zenon DEF SameSlices
<1>5. SliceCommands(queue, T)
  BY <1>1, <1>4, CommandsKept, Zenon
<1> QED BY <1>3, <1>5, Zenon DEF SameSlices

(* The planner does not change; slices and the queue may.                  *)
LEMMA PlannerStays ==
  ASSUME SetFacts, DemandInv, Types', UNCHANGED <<planner, subscribers, todo>>,
         SameSlices(slices, slices'), SliceCommands(queue', slices'),
         Registers(queue', subscribers)
  PROVE  DemandInv'
<1>1. Owned(planner, slices') /\ Slotted(planner, slices')
  BY SlicesKept, Zenon
<1>2. /\ Starting(planner, todo) /\ Followed(planner) /\ Counted(planner.entries, subscribers)
  BY DEF DemandInv
<1> QED BY <1>1, <1>2, Zenon DEF DemandInv

LEMMA SameIsSame ==
  ASSUME NEW S, IsSlices(S)
  PROVE  SameSlices(S, S)
  BY DEF SameSlices

LEMMA FreshIs ==
  ASSUME SetFacts, Types
  PROVE  FreshLookups \in SUBSET LookupIds
<1> DEFINE held == UNION {slices[s].ids : s \in DOMAIN slices}
           current == DOMAIN runtime.lookups \cup Numbers({i \in held : ~i.old})
                        \cup UNION {d.ids : d \in UNION {planner.draining[h] : h \in Hashes}}
           old == Numbers({i \in held : i.old})
           unused == LookupIds \ (current \cup old)
<1>1. held \in SUBSET Id
  BY DEF Types, IsSlices, Slice
<1>2. old \in SUBSET LookupIds
  BY <1>1, Zenon DEF Numbers, Id
<1> HIDE DEF old, current
<1>3. unused # {} => Min(unused) \in unused
  BY DemandAssumption, LeastOf, Zenon
<1>4. FreshLookups = (old \ current) \cup (IF unused = {} THEN {} ELSE {Min(unused)})
  BY Zenon DEF FreshLookups, old, current
<1>5. unused \in SUBSET LookupIds
  OBVIOUS
<1> HIDE DEF unused
<1> QED BY <1>2, <1>3, <1>4, <1>5

LEMMA AttachIs ==
  ASSUME IsRuntime(runtime), NEW h \in Hashes, NEW s \in Slices, NEW n \in LookupIds
  PROVE  IsRuntime(attach_lookup_family(h, s, n))
<1> DEFINE l == [mode |-> "active", hash |-> h, slice |-> {s}]
           f == With(runtime.lookups, n, l)
           q == [runtime EXCEPT !.lookups = f]
<1>1. l \in Lookup
  BY Opt, Zenon DEF Lookup
<1> HIDE DEF l
<1>2. f \in [DOMAIN f -> Lookup] /\ DOMAIN f \in SUBSET LookupIds
  BY <1>1 DEF With, IsRuntime
<1>3. attach_lookup_family(h, s, n) = q
  BY DEF attach_lookup_family, l
<1> HIDE DEF f
<1>4. q = [up |-> runtime.up, lookups |-> f]
  BY DEF IsRuntime
<1> HIDE DEF q
<1>5. q.up = runtime.up /\ q.lookups = f /\ q = [up |-> q.up, lookups |-> q.lookups]
  BY <1>4, Zenon
<1>6. IsRuntime(q)
  BY <1>2, <1>5, Zenon DEF IsRuntime
<1> QED BY <1>3, <1>6, Zenon

LEMMA FamilyStep ==
  ASSUME SetFacts, DemandInv, StartGetPeersFamily
  PROVE  DemandInv'
<1>0. Receive("Family") /\ UNCHANGED <<planner, subscribers, todo, client, ending, dead, faults>>
  BY DEF StartGetPeersFamily, torrents
<1>1. /\ queue \in Seq(Command) /\ queue # <<>> /\ Head(queue) \in Command
      /\ queue' = Tail(queue) /\ queue' \in Seq(Command) /\ Head(queue).kind = "Family"
      /\ Head(queue) = queue[1] /\ 1 \in DOMAIN queue
  BY <1>0, Received, Zenon
<1>2. /\ Types /\ IsRuntime(runtime) /\ IsSlices(slices)
      /\ SliceCommands(queue, slices) /\ Registers(queue, subscribers)
  BY Zenon DEF DemandInv, Types
<1>3. PICK s \in {Head(queue).slice} :
        \/ \E n \in FreshLookups :
             /\ slices[s].running /\ runtime.up
             /\ runtime' = attach_lookup_family(slices[s].hash, s, n)
             /\ slices' = [slices EXCEPT ![s].hedge = "none",
                            ![s].ids = @ \cup {[n |-> n, old |-> FALSE]}]
        \/ /\ slices' = [slices EXCEPT ![s].hedge = "none"]
           /\ UNCHANGED runtime
  BY Zenon DEF StartGetPeersFamily
<1>4. s \in DOMAIN slices
  BY <1>1, <1>2 DEF SliceCommands, OfSlice
<1>5. PICK x \in Slice : x = slices[s]
  BY <1>2, <1>4 DEF IsSlices
<1>6. SameSlices(slices, slices') /\ IsRuntime(runtime')
  <2>1. CASE /\ slices' = [slices EXCEPT ![s].hedge = "none"]
             /\ UNCHANGED runtime
    <3> DEFINE y == [x EXCEPT !.hedge = "none"]
    <3>1. y \in Slice /\ y.class = x.class /\ y.hash = x.hash /\ (Stopped(x) => Stopped(y))
      BY DEF Slice, Stopped
    <3>2. slices' = [slices EXCEPT ![s] = y]
      BY <1>5, <2>1
    <3> HIDE DEF y
    <3> QED BY <1>2, <1>4, <1>5, <2>1, <3>1, <3>2, SliceSet, Zenon
  <2>2. CASE \E n \in FreshLookups :
             /\ slices[s].running /\ runtime.up
             /\ runtime' = attach_lookup_family(slices[s].hash, s, n)
             /\ slices' = [slices EXCEPT ![s].hedge = "none",
                            ![s].ids = @ \cup {[n |-> n, old |-> FALSE]}]
    <3>1. PICK n \in FreshLookups :
             /\ slices[s].running /\ runtime.up
             /\ runtime' = attach_lookup_family(slices[s].hash, s, n)
             /\ slices' = [slices EXCEPT ![s].hedge = "none",
                            ![s].ids = @ \cup {[n |-> n, old |-> FALSE]}]
      BY <2>2, Zenon
    <3>2. n \in LookupIds /\ s \in Slices /\ slices[s].hash \in Hashes
      BY <1>2, <1>4, <1>5, FreshIs DEF IsSlices, Slice
    <3> DEFINE i == x.ids \cup {[n |-> n, old |-> FALSE]}
               y == [x EXCEPT !.hedge = "none", !.ids = i]
    <3>3. i \in SUBSET Id
      <4>1. [n |-> n, old |-> FALSE] \in Id
        BY <3>2, Zenon DEF Id
      <4>2. x.ids \in SUBSET Id
        BY DEF Slice
      <4> QED BY <4>1, <4>2, Zenon
    <3>4. slices' = [slices EXCEPT ![s] = y]
      BY <1>4, <1>5, <3>1, Zenon
    <3> HIDE DEF i
    <3>5. y \in Slice /\ y.class = x.class /\ y.hash = x.hash /\ (Stopped(x) => Stopped(y))
      BY <3>3, Zenon DEF Slice, Stopped
    <3> HIDE DEF y
    <3>6. SameSlices(slices, slices')
      BY <1>2, <1>4, <1>5, <3>4, <3>5, SliceSet, Zenon
    <3> QED BY <1>2, <3>1, <3>2, <3>6, AttachIs
  <2> QED BY <1>3, <2>1, <2>2
<1>7. SliceCommands(queue', slices') /\ IsSlices(slices')
  <2>1. SliceCommands(queue, slices') /\ IsSlices(slices')
    BY <1>6, SlicesKept, Zenon
  <2> QED BY <1>1, <2>1, CommandsTail, Zenon
<1>8. Registers(queue', subscribers)
  BY <1>1, <1>2, RegistersTail, Zenon
<1>9. Types'
  BY <1>0, <1>1, <1>2, <1>6, <1>7, Zenon DEF Types
<1> QED BY <1>0, <1>6, <1>7, <1>8, <1>9, PlannerStays

(* What a slice's task does: it stops, or its hedge is due.                *)
LEMMA SliceTaskStep ==
  ASSUME SetFacts, DemandInv, NEW s \in DOMAIN slices,
         StopSlice(s) \/ SliceFinishes(s) \/ HedgeDelayOver(s)
  PROVE  DemandInv'
<1>0. /\ Types /\ IsSlices(slices) /\ s \in Slices /\ queue \in Seq(Command)
      /\ SliceCommands(queue, slices) /\ Registers(queue, subscribers)
  BY DEF DemandInv, Types, IsSlices
<1>1. PICK x \in Slice : x = slices[s]
  BY <1>0, Zenon DEF IsSlices
<1>2. \E m \in {[kind |-> "Park", slice |-> s], [kind |-> "Finished", slice |-> s],
                [kind |-> "Family", slice |-> s]} :
        \E y \in Slice :
          /\ UNCHANGED <<planner, runtime, subscribers, todo, client, ending, dead, faults>>
          /\ slices' = [slices EXCEPT ![s] = y] /\ queue' = Append(queue, m)
          /\ y.class = x.class /\ y.hash = x.hash
          /\ ~Stopped(x) /\ (m.kind # "Family" => Stopped(y))
  <2>1. CASE StopSlice(s)
    <3> DEFINE y == [x EXCEPT !.running = FALSE, !.hedge = IF @ = "armed" THEN "none" ELSE @]
    <3>1. y \in Slice /\ y.class = x.class /\ y.hash = x.hash /\ Stopped(y)
      BY Zenon DEF Slice, Stopped
    <3>2. slices' = [slices EXCEPT ![s] = y] /\ ~Stopped(x)
      BY <1>0, <1>1, <2>1, Zenon DEF StopSlice, Stopped
    <3>3. /\ UNCHANGED <<planner, runtime, subscribers, todo, client, ending, dead, faults>>
          /\ queue' = Append(queue, [kind |-> "Park", slice |-> s])
      BY <2>1 DEF StopSlice, Elsewhere, Send, torrents
    <3> HIDE DEF y
    <3> QED BY <3>1, <3>2, <3>3, Zenon
  <2>2. CASE SliceFinishes(s)
    <3> DEFINE y == [x EXCEPT !.running = FALSE]
    <3>1. x.hedge = "none" /\ x.running
      BY <1>1, <2>2 DEF SliceFinishes
    <3>2. y \in Slice /\ y.class = x.class /\ y.hash = x.hash /\ Stopped(y) /\ ~Stopped(x)
      BY <3>1, Zenon DEF Slice, Stopped
    <3>3. slices' = [slices EXCEPT ![s] = y]
      BY <1>1, <2>2, Zenon DEF SliceFinishes
    <3>4. /\ UNCHANGED <<planner, runtime, subscribers, todo, client, ending, dead, faults>>
          /\ queue' = Append(queue, [kind |-> "Finished", slice |-> s])
      BY <2>2 DEF SliceFinishes, Elsewhere, Send, torrents
    <3> HIDE DEF y
    <3> QED BY <3>2, <3>3, <3>4, Zenon
  <2>3. CASE HedgeDelayOver(s)
    <3> DEFINE y == [x EXCEPT !.hedge = "queued"]
    <3>1. y \in Slice /\ y.class = x.class /\ y.hash = x.hash
      BY DEF Slice
    <3>2. slices' = [slices EXCEPT ![s] = y] /\ ~Stopped(x)
      BY <1>1, <2>3 DEF HedgeDelayOver, Stopped
    <3>3. /\ UNCHANGED <<planner, runtime, subscribers, todo, client, ending, dead, faults>>
          /\ queue' = Append(queue, [kind |-> "Family", slice |-> s])
      BY <2>3, Zenon DEF HedgeDelayOver, Elsewhere, Send, torrents
    <3> HIDE DEF y
    <3>4. [kind |-> "Family", slice |-> s].kind = "Family"
      OBVIOUS
    <3> QED BY <3>1, <3>2, <3>3, <3>4, Zenon
  <2> QED BY <2>1, <2>2, <2>3
<1>3. PICK m \in {[kind |-> "Park", slice |-> s], [kind |-> "Finished", slice |-> s],
                  [kind |-> "Family", slice |-> s]}, y \in Slice :
          /\ UNCHANGED <<planner, runtime, subscribers, todo, client, ending, dead, faults>>
          /\ slices' = [slices EXCEPT ![s] = y] /\ queue' = Append(queue, m)
          /\ y.class = x.class /\ y.hash = x.hash
          /\ ~Stopped(x) /\ (m.kind # "Family" => Stopped(y))
  BY <1>2, Zenon
<1>4. m \in Command /\ m.slice = s /\ m.kind \in {"Park", "Finished", "Family"}
  BY <1>0 DEF Command
<1>5. SameSlices(slices, slices') /\ slices'[s] = y
  <2>1. Stopped(x) => Stopped(y)
    BY <1>3, Zenon
  <2> QED BY <1>0, <1>1, <1>3, <2>1, SliceSet, Zenon
<1>6. SliceCommands(queue, slices') /\ IsSlices(slices')
  BY <1>5, SlicesKept, Zenon
<1>7. \A i \in DOMAIN queue : Ends(queue[i]) => queue[i].slice # s
  BY <1>0, <1>1, <1>3, Zenon DEF SliceCommands
<1>8. SliceCommands(queue', slices')
  <2>1. OfSlice(m) => /\ m.slice \in DOMAIN slices'
                      /\ \A i \in DOMAIN queue : Ends(queue[i]) => queue[i].slice # m.slice
    BY <1>4, <1>5, <1>7, Zenon DEF SameSlices
  <2>2. Ends(m) => Stopped(slices'[m.slice])
    BY <1>3, <1>4, <1>5, Zenon DEF Ends
  <2>3. SliceCommands(Append(queue, m), slices')
    BY <1>0, <1>4, <1>6, <2>1, <2>2, CommandsSent, Zenon
  <2> QED BY <1>3, <2>3, Zenon
<1>9. Registers(queue', subscribers) /\ queue' \in Seq(Command)
  <2>1. ~IsRegister(m)
    BY <1>4, Zenon DEF IsRegister
  <2>2. Registers(Append(queue, m), subscribers)
    BY <1>0, <1>4, <2>1, RegistersSent, Zenon
  <2> QED BY <1>0, <1>3, <1>4, <2>2, AppendIs, Zenon
<1>10. Types'
  BY <1>0, <1>3, <1>6, <1>9, Zenon DEF Types
<1> QED BY <1>3, <1>5, <1>8, <1>9, <1>10, PlannerStays, Zenon

LEMMA RuntimeLemma ==
  ASSUME SetFacts, DemandInv, RuntimeStep
  PROVE  DemandInv'
<1>0. /\ Types /\ IsRuntime(runtime) /\ IsSlices(slices)
      /\ SliceCommands(queue, slices) /\ Registers(queue, subscribers)
  BY DEF DemandInv, Types
<1>1. PICK n \in DOMAIN runtime.lookups : LookupEnds(n) \/ LookupCloses(n)
  BY DEF RuntimeStep
<1>2. UNCHANGED <<planner, slices, queue, client, ending, dead, faults, subscribers, todo>>
  BY <1>1 DEF LookupEnds, LookupCloses, Elsewhere, torrents
<1>3. \/ runtime' = cancel_lookups(runtime, {n})
      \/ runtime' = [runtime EXCEPT !.lookups[n].mode = "dry"]
  BY <1>1 DEF LookupEnds, LookupCloses
<1>4. IsRuntime(runtime')
  <2>1. CASE runtime' = cancel_lookups(runtime, {n})
    BY <1>0, <2>1, CancelIs, Zenon
  <2>2. CASE runtime' = [runtime EXCEPT !.lookups[n].mode = "dry"]
    <3>1. PICK l \in Lookup : l = runtime.lookups[n]
      BY <1>0 DEF IsRuntime
    <3> DEFINE k == [l EXCEPT !.mode = "dry"]
               f == [runtime.lookups EXCEPT ![n] = k]
    <3>2. k \in Lookup
      BY DEF Lookup
    <3>3. runtime' = [runtime EXCEPT !.lookups = f]
      BY <2>2, <3>1, Zenon
    <3> HIDE DEF k
    <3>4. f \in [DOMAIN runtime.lookups -> Lookup] /\ DOMAIN f = DOMAIN runtime.lookups
      BY <1>0, <3>2 DEF IsRuntime
    <3> HIDE DEF f
    <3>5. runtime' = [up |-> runtime.up, lookups |-> f]
      BY <1>0, <3>3, Zenon DEF IsRuntime
    <3>6. /\ runtime'.up = runtime.up /\ runtime'.lookups = f
          /\ runtime' = [up |-> runtime'.up, lookups |-> runtime'.lookups]
      BY <3>5, Zenon
    <3> QED BY <1>0, <3>4, <3>6, Zenon DEF IsRuntime
  <2> QED BY <1>3, <2>1, <2>2
<1>5. Types'
  BY <1>0, <1>2, <1>4, Zenon DEF Types
<1>6. SameSlices(slices, slices')
  BY <1>0, <1>2, SameIsSame
<1> QED BY <1>0, <1>2, <1>5, <1>6, PlannerStays

(* Time passes for the planner.                                            *)
LEMMA DueStep ==
  ASSUME SetFacts, DemandInv, NEW h \in DOMAIN planner.entries, DueTimeComes(h)
  PROVE  DemandInv' /\ Keeps(planner.entries, planner'.entries)
<1> DEFINE F == [planner.entries EXCEPT ![h].due = TRUE]
<1>0. /\ Types /\ IsPlanner(planner) /\ Followed(planner) /\ Counted(planner.entries, subscribers)
      /\ SliceCommands(queue, slices) /\ Registers(queue, subscribers)
  BY DEF DemandInv, Types
<1>1. /\ planner' = [planner EXCEPT !.entries = F] /\ todo = "loop" /\ todo' = todo
      /\ UNCHANGED <<runtime, slices, queue, client, ending, dead, faults, subscribers>>
  BY Zenon DEF DueTimeComes, Elsewhere, torrents
<1>2. /\ IsEntries(F) /\ Keeps(planner.entries, F)
      /\ \A k \in DOMAIN planner.entries : F[k].in_progress = planner.entries[k].in_progress
  <2>1. IsEntries(planner.entries)
    BY <1>0, PlannerFacts, Zenon
  <2>2. PICK e \in Entry : e = planner.entries[h]
    BY <2>1 DEF IsEntries
  <2> DEFINE d == [e EXCEPT !.due = TRUE]
  <2>3. /\ d \in Entry /\ d.class = e.class /\ d.subscriber_count = e.subscriber_count
        /\ d.in_progress = e.in_progress
    BY Zenon DEF Entry
  <2>4. F = [planner.entries EXCEPT ![h] = d]
    BY <2>2
  <2> HIDE DEF d, F
  <2>5. /\ F \in [DOMAIN planner.entries -> Entry] /\ DOMAIN F = DOMAIN planner.entries
        /\ F[h] = d /\ \A k \in DOMAIN planner.entries : k # h => F[k] = planner.entries[k]
    BY <2>1, <2>3, <2>4 DEF IsEntries
  <2> QED BY <2>1, <2>2, <2>3, <2>5, Zenon DEF IsEntries, Keeps
<1> HIDE DEF F
<1>3. /\ IsPlanner(planner') /\ planner'.entries = F /\ planner'.active = planner.active
      /\ planner'.pending_starts = planner.pending_starts /\ planner'.draining = planner.draining
  BY <1>0, <1>1, <1>2, EntriesSet
<1>4. Owned(planner', slices') /\ Starting(planner', todo') /\ Slotted(planner', slices')
  BY <1>1, <1>3, SettledQuiet, Zenon
<1>5. Followed(planner')
  BY <1>0, <1>2, <1>3 DEF Followed, Behind, Keeps
<1>6. Counted(planner'.entries, subscribers')
  BY <1>0, <1>1, <1>2, <1>3, CountedKept
<1>7. Types'
  BY <1>0, <1>1, <1>3 DEF Types
<1> QED BY <1>0, <1>1, <1>2, <1>3, <1>4, <1>5, <1>6, <1>7, Zenon DEF DemandInv

LEMMA RefillStep ==
  ASSUME SetFacts, DemandInv, NEW c \in Class, TokensRefill(c)
  PROVE  DemandInv' /\ planner'.entries = planner.entries
<1> DEFINE t == [planner.tokens EXCEPT ![c] = @ + 1]
<1>0. /\ Types /\ IsPlanner(planner) /\ Followed(planner) /\ Counted(planner.entries, subscribers)
      /\ SliceCommands(queue, slices) /\ Registers(queue, subscribers)
  BY DEF DemandInv, Types
<1>1. /\ planner' = [planner EXCEPT !.tokens = t] /\ todo = "loop" /\ todo' = todo
      /\ UNCHANGED <<runtime, slices, queue, client, ending, dead, faults, subscribers>>
  BY Zenon DEF TokensRefill, Elsewhere, torrents
<1>2. /\ IsEntries(planner.entries) /\ planner.active \in [Hashes -> Optional(Slices)]
      /\ planner.pending_starts \in [Hashes -> Optional(Class)]
      /\ planner.draining \in [Hashes -> Optional(Drain)] /\ t \in [Class -> Nat]
  BY <1>0, PlannerFacts
<1> HIDE DEF t
<1>3. planner' = [entries |-> planner.entries, active |-> planner.active,
                  pending_starts |-> planner.pending_starts,
                  draining |-> planner.draining, tokens |-> t]
  BY <1>0, <1>1, Zenon DEF IsPlanner
<1>4. /\ IsPlanner(planner') /\ planner'.entries = planner.entries
      /\ planner'.active = planner.active /\ planner'.draining = planner.draining
      /\ planner'.pending_starts = planner.pending_starts
  BY <1>2, <1>3, PlannerIs
<1>5. Owned(planner', slices') /\ Starting(planner', todo') /\ Slotted(planner', slices')
  BY <1>1, <1>4, SettledQuiet, Zenon
<1>6. Followed(planner') /\ Counted(planner'.entries, subscribers')
  BY <1>0, <1>1, <1>4 DEF Followed, Behind
<1>7. Types'
  BY <1>0, <1>1, <1>4 DEF Types
<1> QED BY <1>0, <1>1, <1>4, <1>5, <1>6, <1>7 DEF DemandInv

-----------------------------------------------------------------------------
(* Torrents and the configuration.                                         *)

Sends(m) ==
  /\ m \in Command /\ ~OfSlice(m) /\ queue' = Append(queue, m)
  /\ IsRegister(m) => /\ \A h \in Hashes : m.sub \notin subscribers[h]
                      /\ \A i \in DOMAIN queue : IsRegister(queue[i]) => queue[i].sub # m.sub

LEMMA OutsideStep ==
  ASSUME SetFacts, DemandInv, UNCHANGED <<planner, runtime, slices, subscribers, todo>>,
         client' \in [Hashes -> Client], ending' \in SUBSET Ending,
         dead' \in SUBSET Subscribers, faults' \in 0 .. MaxFaults,
         queue' = queue \/ \E m : Sends(m)
  PROVE  DemandInv'
<1>0. /\ Types /\ IsSlices(slices) /\ queue \in Seq(Command)
      /\ SliceCommands(queue, slices) /\ Registers(queue, subscribers)
  BY DEF DemandInv, Types
<1>1. queue' \in Seq(Command) /\ SliceCommands(queue', slices) /\ Registers(queue', subscribers)
  <2>1. CASE queue' = queue
    BY <1>0, <2>1
  <2>2. CASE \E m : Sends(m)
    <3>1. PICK m : Sends(m)
      BY <2>2
    <3>2. /\ m \in Command /\ ~OfSlice(m) /\ ~Ends(m) /\ queue' = Append(queue, m)
          /\ IsRegister(m) => /\ \A h \in Hashes : m.sub \notin subscribers[h]
                              /\ \A i \in DOMAIN queue : IsRegister(queue[i]) => queue[i].sub # m.sub
      BY <3>1, Zenon DEF Sends, OfSlice, Ends
    <3>3. SliceCommands(Append(queue, m), slices)
      BY <1>0, <3>2, CommandsSent
    <3>4. Registers(Append(queue, m), subscribers)
      BY <1>0, <3>2, RegistersSent
    <3>5. Append(queue, m) \in Seq(Command)
      BY <1>0, <3>2, AppendIs
    <3> QED BY <3>2, <3>3, <3>4, <3>5
  <2> QED BY <2>1, <2>2
<1>2. Types'
  BY <1>0, <1>1 DEF Types
<1>3. SameSlices(slices, slices')
  BY <1>0, SameIsSame
<1> QED BY <1>1, <1>2, <1>3, PlannerStays

(* The subscription a task takes is one that nothing refers to.            *)
LEMMA NewSub ==
  ASSUME SetFacts, Types, Subscribers \ Referred # {}
  PROVE  LET x == Min(Subscribers \ Referred)
         IN  /\ x \in Subscribers /\ x \notin dead
             /\ \A h \in Hashes : x \notin subscribers[h] /\ x \notin client[h].sub
             /\ \A e \in ending : e.sub # x
             /\ \A i \in DOMAIN queue :
                  queue[i].kind \in {"Register", "Unregister"} => queue[i].sub # x
<1>1. PICK x : x = Min(Subscribers \ Referred)
  OBVIOUS
<1>2. x \in Subscribers \ Referred
  <2>1. Subscribers \ Referred \in SUBSET Nat
    BY DemandAssumption, Zenon
  <2> QED BY <1>1, <2>1, LeastOf
<1>3. /\ x \notin dead /\ \A h \in Hashes : x \notin subscribers[h] /\ x \notin client[h].sub
      /\ \A e \in ending : e.sub # x
      /\ \A i \in DOMAIN queue :
           queue[i].kind \in {"Register", "Unregister"} => queue[i].sub # x
  <2> DEFINE U == UNION {client[k].sub \cup subscribers[k] : k \in Hashes}
             D == {e.sub : e \in ending}
             Q == {queue[i].sub : i \in {j \in DOMAIN queue :
                                       queue[j].kind \in {"Register", "Unregister"}}}
  <2>0. Referred = U \cup dead \cup D \cup Q
    BY DEF Referred
  <2> HIDE DEF U, D, Q
  <2>a. x \notin U /\ x \notin dead /\ x \notin D /\ x \notin Q
    BY <1>2, <2>0
  <2> USE DEF U, D, Q
  <2>1. x \notin dead /\ \A e \in ending : e.sub # x
    BY <2>a
  <2>2. \A k \in Hashes : x \notin client[k].sub \cup subscribers[k]
    BY <2>a
  <2>3. x \notin {queue[i].sub : i \in {j \in DOMAIN queue :
                                       queue[j].kind \in {"Register", "Unregister"}}}
    BY <2>a
  <2>4. \A i \in DOMAIN queue :
          queue[i].kind \in {"Register", "Unregister"} => queue[i].sub # x
    BY <2>3
  <2> QED BY <2>1, <2>2, <2>4
<1> QED BY <1>1, <1>2, <1>3, Zenon

LEMMA TorrentStep ==
  ASSUME SetFacts, DemandInv, Torrent
  PROVE  DemandInv'
<1>0. /\ Types /\ client \in [Hashes -> Client] /\ ending \in SUBSET Ending
      /\ dead \in SUBSET Subscribers /\ faults \in 0 .. MaxFaults /\ MaxFaults \in Nat
  BY DemandAssumption DEF DemandInv, Types
<1>1. PICK h \in Hashes :
        \/ start_dht_lookup_task(h) \/ register_demand(h) \/ Subscribed(h)
        \/ sync_dht_demand(h) \/ stop_dht_lookup_task(h)
  BY DEF Torrent
<1>2. PICK c \in Client : c = client[h]
  BY <1>0
<1>3. Classes \in SUBSET Class
  BY DemandAssumption
<1>4. CASE start_dht_lookup_task(h)
  <2>1. UNCHANGED <<planner, runtime, slices, subscribers, todo, queue, ending, dead, faults>>
    BY <1>4 DEF start_dht_lookup_task, Elsewhere
  <2>2. PICK k \in Class : client' = [client EXCEPT ![h] =
                             [at |-> "spawned", sub |-> {}, class |-> k, initial |-> k]]
    BY <1>3, <1>4, Zenon DEF start_dht_lookup_task
  <2>3. [at |-> "spawned", sub |-> {}, class |-> k, initial |-> k] \in Client
    BY Opt DEF Client
  <2>4. client' \in [Hashes -> Client]
    BY <1>0, <2>2, <2>3
  <2> QED BY <1>0, <2>1, <2>4, OutsideStep
<1>5. CASE register_demand(h)
  <2>1. /\ UNCHANGED <<planner, runtime, slices, subscribers, todo, ending, dead, faults>>
        /\ Subscribers \ Referred # {}
    BY <1>5 DEF register_demand, Elsewhere
  <2>2. PICK x : x = Min(Subscribers \ Referred)
    OBVIOUS
  <2>3. /\ x \in Subscribers /\ \A k \in Hashes : x \notin subscribers[k]
        /\ \A i \in DOMAIN queue : queue[i].kind \in {"Register", "Unregister"} => queue[i].sub # x
    BY <1>0, <2>1, <2>2, NewSub, Zenon
  <2> DEFINE m == [kind |-> "Register", hash |-> h, sub |-> x, class |-> c.initial]
             d == [c EXCEPT !.at = "asking", !.sub = {x}, !.initial = c.class]
  <2>4. queue' = Append(queue, m) /\ client' = [client EXCEPT ![h] = d]
    BY <1>0, <1>2, <1>5, <2>2, Zenon DEF register_demand, Send
  <2>5. m \in Command /\ m.kind = "Register" /\ m.sub = x
    BY <2>3 DEF Command, Client
  <2>6. d \in Client
    BY <2>3, Opt, Zenon DEF Client
  <2> HIDE DEF m, d
  <2>7. Sends(m)
    BY <2>3, <2>4, <2>5 DEF Sends, OfSlice, IsRegister
  <2>8. client' \in [Hashes -> Client]
    BY <1>0, <2>4, <2>6
  <2> QED BY <1>0, <2>1, <2>7, <2>8, OutsideStep
<1>6. CASE Subscribed(h)
  <2>1. UNCHANGED <<planner, runtime, slices, subscribers, todo, queue, ending, dead, faults>>
    BY <1>6 DEF Subscribed, Elsewhere
  <2> DEFINE d == [c EXCEPT !.at = "on"]
  <2>2. client' = [client EXCEPT ![h] = d]
    BY <1>0, <1>2, <1>6 DEF Subscribed
  <2>3. d \in Client
    BY DEF Client
  <2> HIDE DEF d
  <2>4. client' \in [Hashes -> Client]
    BY <1>0, <2>2, <2>3
  <2> QED BY <1>0, <2>1, <2>4, OutsideStep
<1>7. CASE sync_dht_demand(h)
  <2>1. /\ UNCHANGED <<planner, runtime, slices, subscribers, todo, ending, dead>>
        /\ faults < MaxFaults /\ faults' = faults + 1
    BY <1>7 DEF sync_dht_demand, Elsewhere, Fault
  <2>2. PICK k \in Class :
          /\ client' = [client EXCEPT ![h].class = k,
               ![h].initial = IF client[h].at = "spawned" THEN @ ELSE k]
          /\ queue' = Append(queue, [kind |-> "Update", hash |-> h, class |-> k])
    BY <1>3, <1>7, Zenon DEF sync_dht_demand, Send
  <2> DEFINE m == [kind |-> "Update", hash |-> h, class |-> k]
             d == [c EXCEPT !.class = k, !.initial = IF c.at = "spawned" THEN @ ELSE k]
  <2>3. client' = [client EXCEPT ![h] = d]
    BY <1>0, <1>2, <2>2, Zenon
  <2>4. d \in Client
    BY ZenonT(30) DEF Client
  <2>5. m \in Command /\ m.kind = "Update"
    BY DEF Command
  <2>6. queue' = Append(queue, m)
    BY <2>2
  <2> HIDE DEF m, d
  <2>7. Sends(m)
    BY <2>5, <2>6 DEF Sends, OfSlice, IsRegister
  <2>8. client' \in [Hashes -> Client] /\ faults' \in 0 .. MaxFaults
    BY <1>0, <2>1, <2>3, <2>4
  <2> QED BY <1>0, <2>1, <2>7, <2>8, OutsideStep
<1>8. CASE stop_dht_lookup_task(h)
  <2>1. /\ UNCHANGED <<planner, runtime, slices, subscribers, todo, queue, dead>>
        /\ faults < MaxFaults /\ faults' = faults + 1
        /\ client' = [client EXCEPT ![h] = NoClient]
        /\ ending' = ending \cup
             {[hash |-> h, sub |-> x, subscribed |-> client[h].at = "on"] : x \in client[h].sub}
    BY <1>8 DEF stop_dht_lookup_task, Elsewhere, Fault
  <2>2. NoClient \in Client
    BY Opt DEF NoClient, Client, Class
  <2>3. c.sub \in SUBSET Subscribers
    BY Opt DEF Client
  <2>4. \A x \in client[h].sub :
          [hash |-> h, sub |-> x, subscribed |-> client[h].at = "on"] \in Ending
    BY <1>2, <2>3 DEF Ending
  <2>5. client' \in [Hashes -> Client] /\ faults' \in 0 .. MaxFaults
    BY <1>0, <2>1, <2>2
  <2>6. ending' \in SUBSET Ending
    BY <1>0, <2>1, <2>4
  <2> QED BY <1>0, <2>1, <2>5, <2>6, OutsideStep
<1> QED BY <1>1, <1>4, <1>5, <1>6, <1>7, <1>8

LEMMA DroppedStep ==
  ASSUME SetFacts, DemandInv, NEW e \in ending, TaskDropped(e)
  PROVE  DemandInv'
<1>0. /\ Types /\ client \in [Hashes -> Client] /\ ending \in SUBSET Ending
      /\ dead \in SUBSET Subscribers /\ faults \in 0 .. MaxFaults
  BY DEF DemandInv, Types
<1>1. /\ UNCHANGED <<planner, runtime, slices, subscribers, todo, client, faults>>
      /\ ending' = ending \ {e} /\ dead' = dead \cup {e.sub}
  BY DEF TaskDropped, Elsewhere
<1>2. e \in Ending /\ e.hash \in Hashes /\ e.sub \in Subscribers
  BY <1>0 DEF Ending
<1> DEFINE m == [kind |-> "Unregister", hash |-> e.hash, sub |-> e.sub]
<1>3. queue' = queue \/ queue' = Append(queue, m)
  BY DEF TaskDropped, Send
<1>4. m \in Command /\ m.kind = "Unregister"
  BY <1>2 DEF Command
<1> HIDE DEF m
<1>5. queue' = Append(queue, m) => Sends(m)
  BY <1>4 DEF Sends, OfSlice, IsRegister
<1>6. ending' \in SUBSET Ending /\ dead' \in SUBSET Subscribers
  BY <1>0, <1>1, <1>2
<1>7. queue' = queue \/ \E q : Sends(q)
  BY <1>3, <1>5
<1> QED BY <1>0, <1>1, <1>6, <1>7, OutsideStep

LEMMA ConfigStep ==
  ASSUME SetFacts, DemandInv, ConfigChanged
  PROVE  DemandInv'
<1>0. /\ Types /\ client \in [Hashes -> Client] /\ ending \in SUBSET Ending
      /\ dead \in SUBSET Subscribers /\ faults \in 0 .. MaxFaults /\ MaxFaults \in Nat
  BY DemandAssumption DEF DemandInv, Types
<1>1. /\ UNCHANGED <<planner, runtime, slices, subscribers, todo, client, ending, dead>>
      /\ faults < MaxFaults /\ faults' = faults + 1
      /\ queue' = Append(queue, [kind |-> "Reconfigure"])
  BY DEF ConfigChanged, Elsewhere, Fault, Send, torrents
<1> DEFINE m == [kind |-> "Reconfigure"]
<1>2. m \in Command /\ m.kind = "Reconfigure"
  BY DEF Command
<1>3. queue' = Append(queue, m)
  BY <1>1
<1> HIDE DEF m
<1>4. Sends(m)
  BY <1>2, <1>3 DEF Sends, OfSlice, IsRegister
<1>5. faults' \in 0 .. MaxFaults
  BY <1>0, <1>1
<1> QED BY <1>0, <1>1, <1>4, <1>5, OutsideStep

-----------------------------------------------------------------------------
(* A rebuilt runtime, and the lookups that are planned and started.        *)

LEMMA SlottedLess ==
  ASSUME SetFacts, NEW p, NEW q, NEW S, NEW T, Slotted(p, S), Busy(q) \in SUBSET Busy(p),
         \A c \in Class : BusyIn(q, T, c) \in SUBSET BusyIn(p, S, c)
  PROVE  Slotted(q, T)
<1>1. Cardinality(Busy(q)) <= SlotCount
  <2>1. Busy(p) \in SUBSET Hashes
    BY DEF Busy
  <2>2. Cardinality(Busy(p)) <= SlotCount /\ SlotCount \in Nat
    BY DemandAssumption DEF Slotted
  <2>3. /\ Cardinality(Busy(q)) \in Nat /\ Cardinality(Busy(p)) \in Nat
        /\ Cardinality(Busy(q)) <= Cardinality(Busy(p))
    BY <2>1, Fewer
  <2> QED BY <2>2, <2>3
<1>2. ASSUME NEW c \in Class PROVE Cardinality(BusyIn(q, T, c)) <= ClassCap[c]
  <2>1. BusyIn(q, T, c) \in SUBSET BusyIn(p, S, c) /\ BusyIn(p, S, c) \in SUBSET Hashes
    BY Zenon DEF BusyIn
  <2>2. Cardinality(BusyIn(p, S, c)) <= ClassCap[c] /\ ClassCap[c] \in Nat
    BY DemandAssumption DEF Slotted
  <2>3. /\ Cardinality(BusyIn(q, T, c)) \in Nat /\ Cardinality(BusyIn(p, S, c)) \in Nat
        /\ Cardinality(BusyIn(q, T, c)) <= Cardinality(BusyIn(p, S, c))
    BY <2>1, Fewer, Zenon
  <2> QED BY <2>2, <2>3
<1> QED BY <1>1, <1>2 DEF Slotted

(* A planner with nothing active, starting or draining.                    *)
LEMMA NewPlannerIs ==
  ASSUME SetFacts, NEW E, IsEntries(E), \A h \in DOMAIN E : ~E[h].in_progress, NEW S, NEW t
  PROVE  /\ IsPlanner(NewPlanner(E)) /\ NewPlanner(E).entries = E
         /\ Owned(NewPlanner(E), S) /\ Starting(NewPlanner(E), t) /\ Slotted(NewPlanner(E), S)
         /\ Followed(NewPlanner(E))
<1> DEFINE q == NewPlanner(E)
           none == [h \in Hashes |-> {}]
<1>1. q = [entries |-> E, active |-> none, pending_starts |-> none, draining |-> none,
           tokens |-> Burst]
  BY Zenon DEF NewPlanner
<1>2. /\ none \in [Hashes -> Optional(Slices)] /\ none \in [Hashes -> Optional(Class)]
      /\ none \in [Hashes -> Optional(Drain)]
  BY Opt
<1>3. \A h \in Hashes : none[h] = {}
  OBVIOUS
<1>4. Burst \in [Class -> Nat]
  BY DemandAssumption, Zenon
<1> HIDE DEF q, none
<1>5. /\ IsPlanner(q) /\ q.entries = E /\ q.active = none /\ q.pending_starts = none
  BY <1>1, <1>2, <1>4, PlannerIs
<1>6. Owned(q, S) /\ Starting(q, t) /\ Followed(q)
  BY <1>3, <1>5, Zenon DEF Owned, Starting, Followed
<1>7. Slotted(q, S)
  <2>1. Busy(q) = {} /\ \A c \in Class : BusyIn(q, S, c) = {}
    BY <1>3, <1>5 DEF Busy, BusyIn
  <2>2. Cardinality({}) = 0
    BY DEF SetFacts
  <2>3. SlotCount >= 0 /\ \A c \in Class : ClassCap[c] >= 0
    BY DemandAssumption
  <2> QED BY <2>1, <2>2, <2>3 DEF Slotted
<1> QED BY <1>5, <1>6, <1>7, Zenon DEF q

LEMMA ReconfigureStep ==
  ASSUME SetFacts, DemandInv, Reconfigure
  PROVE  DemandInv' /\ Keeps(planner.entries, planner'.entries)
<1>0. Receive("Reconfigure") /\ UNCHANGED <<subscribers, client, ending, dead, faults>>
  BY DEF Reconfigure, torrents
<1>1. /\ queue \in Seq(Command) /\ queue # <<>> /\ queue' = Tail(queue)
      /\ queue' \in Seq(Command) /\ todo = "loop"
  BY <1>0, Received
<1>2. /\ Types /\ IsPlanner(planner) /\ IsSlices(slices) /\ Counted(planner.entries, subscribers)
      /\ SliceCommands(queue, slices) /\ Registers(queue, subscribers)
  BY DEF DemandInv, Types
<1>3. Registers(queue', subscribers')
  BY <1>0, <1>1, <1>2, RegistersTail
<1>4. CASE UNCHANGED <<runtime, planner, slices, todo>>
  <2>1. SliceCommands(queue', slices')
    BY <1>1, <1>2, <1>4, CommandsTail
  <2>2. Types'
    BY <1>0, <1>1, <1>2, <1>4 DEF Types
  <2>3. SameSlices(slices, slices')
    BY <1>2, <1>4, SameIsSame
  <2>4. DemandInv'
    BY <1>0, <1>3, <1>4, <2>1, <2>2, <2>3, PlannerStays
  <2> QED BY <1>4, <2>4 DEF Keeps
<1>5. CASE \E up \in BOOLEAN :
             /\ runtime' = [up |-> up, lookups |-> [n \in {} |-> {}]]
             /\ planner' = NewPlanner(reset_active(planner.entries))
             /\ slices' = [s \in DOMAIN slices |->
                  [slices[s] EXCEPT !.ids = {[i EXCEPT !.old = TRUE] : i \in @}]]
             /\ todo' = "plan"
  <2>1. PICK up \in BOOLEAN :
             /\ runtime' = [up |-> up, lookups |-> [n \in {} |-> {}]]
             /\ planner' = NewPlanner(reset_active(planner.entries))
             /\ slices' = [s \in DOMAIN slices |->
                  [slices[s] EXCEPT !.ids = {[i EXCEPT !.old = TRUE] : i \in @}]]
             /\ todo' = "plan"
    BY <1>5
  <2> DEFINE E == reset_active(planner.entries)
  <2>2. IsEntries(E) /\ Keeps(planner.entries, E) /\ \A h \in DOMAIN E : ~E[h].in_progress
    BY <1>2, PlannerFacts, ResetIs, Zenon DEF Keeps
  <2>3. planner' = NewPlanner(E)
    BY <2>1
  <2> HIDE DEF E
  <2>4. /\ IsPlanner(planner') /\ planner'.entries = E /\ Owned(planner', slices')
        /\ Starting(planner', todo') /\ Slotted(planner', slices') /\ Followed(planner')
    BY <2>2, <2>3, NewPlannerIs, Zenon
  <2>5. Counted(planner'.entries, subscribers')
    BY <1>0, <1>2, <2>2, <2>4, CountedKept
  <2>6. IsRuntime(runtime')
    <3> DEFINE f == [n \in {} |-> {}]
    <3>1. f \in [{} -> Lookup] /\ DOMAIN f = {}
      OBVIOUS
    <3>2. runtime' = [up |-> up, lookups |-> f]
      BY <2>1
    <3> HIDE DEF f
    <3>3. /\ runtime'.up = up /\ runtime'.lookups = f
          /\ runtime' = [up |-> runtime'.up, lookups |-> runtime'.lookups]
      BY <3>2
    <3> QED BY <3>1, <3>3 DEF IsRuntime
  <2>7. SameSlices(slices, slices')
    <3>1. DOMAIN slices' = DOMAIN slices /\ slices' = [s \in DOMAIN slices |-> slices'[s]]
      BY <2>1
    <3>2. ASSUME NEW s \in DOMAIN slices
          PROVE  /\ slices'[s] \in Slice /\ slices'[s].class = slices[s].class
                 /\ slices'[s].hash = slices[s].hash
                 /\ Stopped(slices[s]) => Stopped(slices'[s])
      <4>1. PICK x \in Slice : x = slices[s]
        BY <1>2 DEF IsSlices
      <4> DEFINE j == {[i EXCEPT !.old = TRUE] : i \in x.ids}
      <4>2. slices'[s] = [x EXCEPT !.ids = j]
        BY <2>1, <4>1
      <4>3. j \in SUBSET Id
        <5>1. \A i \in Id : [i EXCEPT !.old = TRUE] \in Id
          BY Zenon DEF Id
        <5>2. x.ids \in SUBSET Id
          BY DEF Slice
        <5> QED BY <5>1, <5>2
      <4> HIDE DEF j
      <4> QED BY <4>1, <4>2, <4>3 DEF Slice, Stopped
    <3>3. IsSlices(slices')
      BY <1>2, <3>1, <3>2 DEF IsSlices
    <3> QED BY <3>1, <3>2, <3>3 DEF SameSlices
  <2>8. SliceCommands(queue', slices') /\ IsSlices(slices')
    <3>1. SliceCommands(queue, slices') /\ IsSlices(slices')
      BY <2>7, SlicesKept
    <3> QED BY <1>1, <3>1, CommandsTail
  <2>9. Types'
    BY <1>0, <1>1, <1>2, <2>1, <2>4, <2>6, <2>8 DEF Types
  <2> QED BY <1>3, <2>2, <2>4, <2>5, <2>8, <2>9 DEF DemandInv
<1> QED BY <1>4, <1>5 DEF Reconfigure

(* What is planned fits beside what is active.                             *)
LEMMA BudgetIs ==
  ASSUME SetFacts, Types
  PROVE  demand_lookup_launch_budget # 0 =>
           /\ demand_lookup_launch_budget \in Nat
           /\ demand_lookup_launch_budget + Cardinality(Tracked(planner.active)) <= SlotCount
<1> DEFINE a == Cardinality(Tracked(planner.active))
           d == Cardinality(Tracked(planner.draining))
           v == drain_virtual_slot_count(d)
           m == Max({0, SlotCount - (a + v)})
<1>1. a \in Nat /\ d \in Nat
  <2>1. Tracked(planner.active) \in SUBSET Hashes /\ Tracked(planner.draining) \in SUBSET Hashes
    BY DEF Tracked
  <2> QED BY <2>1, Fewer
<1> HIDE DEF a, d
<1>2. v \in Nat
  <2>1. DrainsPerSlot \in Nat /\ DrainsPerSlot > 0
    BY DemandAssumption
  <2>2. d + DrainsPerSlot - 1 \in Nat
    BY <1>1, <2>1
  <2>3. \A x \in Nat : x \div DrainsPerSlot \in Nat
    BY <2>1
  <2> QED BY <2>2, <2>3 DEF drain_virtual_slot_count
<1> HIDE DEF v
<1>3. SlotCount \in Nat /\ FillPerTick \in Nat
  BY DemandAssumption
<1>4. m = IF 0 >= SlotCount - (a + v) THEN 0 ELSE SlotCount - (a + v)
  BY <1>1, <1>2, <1>3, MaxOfTwo
<1>5. demand_lookup_launch_budget = Min({FillPerTick, m})
  BY DEF demand_lookup_launch_budget, m, v, a, d
<1> HIDE DEF m
<1>6. m \in Nat /\ (m > 0 => m + a <= SlotCount)
  BY <1>1, <1>2, <1>3, <1>4
<1>7. Min({FillPerTick, m}) = IF FillPerTick <= m THEN FillPerTick ELSE m
  BY <1>3, <1>6, MinOfTwo
<1> DEFINE b == demand_lookup_launch_budget
<1>8. b = IF FillPerTick <= m THEN FillPerTick ELSE m
  BY <1>5, <1>7
<1> HIDE DEF b
<1>9. b # 0 => b \in Nat /\ b + a <= SlotCount
  BY <1>1, <1>3, <1>6, <1>8
<1> QED BY <1>9 DEF a, b

LEMMA PlanStep ==
  ASSUME SetFacts, DemandInv, PlanDue
  PROVE  DemandInv' /\ Keeps(planner.entries, planner'.entries)
<1>0. /\ Types /\ IsPlanner(planner) /\ Followed(planner) /\ Counted(planner.entries, subscribers)
      /\ SliceCommands(queue, slices) /\ Registers(queue, subscribers)
      /\ Owned(planner, slices) /\ Starting(planner, todo) /\ Slotted(planner, slices)
  BY DEF DemandInv, Types
<1>1. /\ UNCHANGED <<subscribers, runtime, slices, queue, client, ending, dead, faults>>
      /\ todo # "start"
  BY ZenonT(30) DEF PlanDue, torrents
<1>2. \A h \in Hashes : planner.pending_starts[h] = {}
  BY <1>0, <1>1 DEF Starting
<1>3. CASE todo' = "loop" /\ UNCHANGED planner
  <2>1. Owned(planner', slices') /\ Starting(planner', todo') /\ Slotted(planner', slices')
    BY <1>0, <1>1, <1>2, <1>3, Zenon DEF Starting
  <2>2. Types'
    BY <1>0, <1>1, <1>3 DEF Types
  <2> QED BY <1>0, <1>1, <1>3, <2>1, <2>2 DEF DemandInv, Keeps
<1>4. CASE /\ demand_lookup_launch_budget # 0
           /\ \E L \in Selection :
                /\ planner' = [planner EXCEPT
                     !.entries = mark_in_progress(@, L),
                     !.pending_starts = [h \in Hashes |->
                        IF h \in L THEN {planner.entries[h].class} ELSE @[h]],
                     !.tokens = [c \in Class |-> @[c] -
                        Cardinality({h \in L : planner.entries[h].class = c})]]
                /\ todo' = IF L = {} THEN "loop" ELSE "start"
  <2>1. PICK L \in Selection :
          /\ planner' = [planner EXCEPT
               !.entries = mark_in_progress(@, L),
               !.pending_starts = [h \in Hashes |->
                  IF h \in L THEN {planner.entries[h].class} ELSE @[h]],
               !.tokens = [c \in Class |-> @[c] -
                  Cardinality({h \in L : planner.entries[h].class = c})]]
          /\ todo' = IF L = {} THEN "loop" ELSE "start"
    BY <1>4, ZenonT(30)
  <2> DEFINE E == planner.entries
             F == mark_in_progress(E, L)
             of(c) == {h \in L : E[h].class = c}
             B == [h \in Hashes |-> IF h \in L THEN {E[h].class} ELSE planner.pending_starts[h]]
             t == [c \in Class |-> planner.tokens[c] - Cardinality(of(c))]
  <2>2. L \in SUBSET DOMAIN E /\ Fits(L)
    BY Zenon DEF Selection
  <2>3. DOMAIN E \in SUBSET Hashes /\ IsEntries(E) /\ \A h \in DOMAIN E : E[h].class \in Class
    BY <1>0, PlannerFacts, Zenon DEF IsEntries, Entry
  <2>4. L \in SUBSET Hashes /\ \A h \in L : E[h].class \in Class
    BY <2>2, <2>3, Zenon
  <2>5. /\ IsFiniteSet(L) /\ Cardinality(L) \in Nat
        /\ \A c \in Class : IsFiniteSet(of(c)) /\ Cardinality(of(c)) \in Nat
    BY <2>4, Fewer
  <2>6. /\ Cardinality(L) <= demand_lookup_launch_budget
        /\ \A c \in Class : Cardinality(of(c)) > 0 =>
             /\ Cardinality(of(c)) + Cardinality(ActiveOf(planner, c)) <= ClassCap[c]
             /\ Cardinality(of(c)) <= planner.tokens[c]
    BY <2>2 DEF Fits
  <2>7. t \in [Class -> Nat]
    <3>1. planner.tokens \in [Class -> Nat]
      BY <1>0, PlannerFacts, Zenon
    <3>2. ASSUME NEW c \in Class PROVE planner.tokens[c] - Cardinality(of(c)) \in Nat
      <4>1. planner.tokens[c] \in Nat /\ Cardinality(of(c)) \in Nat
        BY <2>5, <3>1, Zenon
      <4>2. Cardinality(of(c)) > 0 => Cardinality(of(c)) <= planner.tokens[c]
        BY <2>6
      <4> HIDE DEF of
      <4> QED BY <4>1, <4>2
    <3> HIDE DEF of
    <3> QED BY <3>2
  <2>8. B \in [Hashes -> Optional(Class)]
    <3>1. planner.pending_starts \in [Hashes -> Optional(Class)]
      BY <1>0, PlannerFacts, ZenonT(30)
    <3>2. ASSUME NEW h \in Hashes
          PROVE  (IF h \in L THEN {E[h].class} ELSE planner.pending_starts[h]) \in Optional(Class)
      <4>1. h \in L => {E[h].class} \in Optional(Class)
        BY <2>4, Opt, Zenon
      <4>2. planner.pending_starts[h] \in Optional(Class)
        BY <3>1, Zenon
      <4> QED BY <4>1, <4>2, Zenon
    <3> QED BY <3>2, Zenon
  <2>9. \A h \in Hashes : B[h] = IF h \in L THEN {E[h].class} ELSE {}
    BY <1>2, Zenon
  <2>10. IsEntries(F) /\ Keeps(E, F) /\ \A h \in DOMAIN E : h \notin L => F[h] = E[h]
    BY <2>3, MarkIs
  <2>11. planner' = [planner EXCEPT !.entries = F, !.pending_starts = B, !.tokens = t]
    BY <2>1
  <2> HIDE DEF F, B, t, of
  <2>12. planner' = [entries |-> F, active |-> planner.active, pending_starts |-> B,
                     draining |-> planner.draining, tokens |-> t]
    BY <1>0, <2>11, ZenonT(30) DEF IsPlanner
  <2>13. /\ IsPlanner(planner') /\ planner'.entries = F /\ planner'.active = planner.active
         /\ planner'.pending_starts = B /\ planner'.draining = planner.draining
    <3>1. /\ planner.active \in [Hashes -> Optional(Slices)]
          /\ planner.draining \in [Hashes -> Optional(Drain)]
      BY <1>0, PlannerFacts, ZenonT(30)
    <3> QED BY <2>7, <2>8, <2>10, <2>12, <3>1, PlannerIs
  <2>14. Owned(planner', slices')
    BY <1>0, <1>1, <2>13, Zenon DEF Owned
  <2>15. Starting(planner', todo')
    BY <2>1, <2>9, <2>13 DEF Starting
  <2>16. Followed(planner')
    <3>1. DOMAIN planner'.entries = DOMAIN E
      BY <2>10, <2>13 DEF Keeps
    <3>2. ASSUME NEW h \in DOMAIN E, planner'.entries[h].in_progress PROVE Behind(planner', h)
      <4>1. h \in Hashes
        BY <2>3
      <4>2. CASE h \in L
        <5>1. planner'.pending_starts[h] # {}
          BY <2>9, <2>13, <4>1, <4>2, ZenonT(30)
        <5> QED BY <5>1 DEF Behind
      <4>3. CASE h \notin L
        <5>1. E[h].in_progress
          BY <2>10, <2>13, <3>2, <4>3, Zenon
        <5>2. planner.active[h] # {} \/ planner.draining[h] # {}
          BY <1>0, <1>2, <4>1, <5>1, Zenon DEF Followed, Behind
        <5> QED BY <2>13, <5>2, Zenon DEF Behind
      <4> QED BY <4>2, <4>3
    <3> QED BY <3>1, <3>2 DEF Followed
  <2>17. Cardinality(Busy(planner')) <= SlotCount
    <3> DEFINE A == Tracked(planner.active)
    <3>1. Busy(planner') = A \cup L
      BY <2>4, <2>9, <2>13, Zenon DEF Busy, Tracked
    <3>2. IsFiniteSet(A) /\ Cardinality(A) \in Nat
      <4>1. A \in SUBSET Hashes
        BY DEF Tracked
      <4> QED BY <4>1, Fewer
    <3>3. /\ demand_lookup_launch_budget \in Nat
          /\ demand_lookup_launch_budget + Cardinality(A) <= SlotCount
      BY <1>0, <1>4, BudgetIs, Zenon
    <3> HIDE DEF A
    <3>4. Cardinality(A \cup L) = Cardinality(A) + Cardinality(L) - Cardinality(A \cap L)
      BY <2>5, <3>2, UnionIs
    <3>5. Cardinality(A \cap L) \in Nat
      BY <2>5, <3>2, UnionIs, Zenon
    <3>6. SlotCount \in Nat
      BY DemandAssumption, Zenon
    <3> QED BY <2>5, <2>6, <3>1, <3>2, <3>3, <3>4, <3>5, <3>6
  <2>18. ASSUME NEW c \in Class PROVE Cardinality(BusyIn(planner', slices', c)) <= ClassCap[c]
    <3> DEFINE A == ActiveOf(planner, c)
    <3>1. BusyIn(planner', slices', c) = A \cup of(c)
      BY <1>1, <2>4, <2>9, <2>13, Zenon DEF BusyIn, ActiveOf, of
    <3>2. BusyIn(planner, slices, c) = A
      BY <1>2, Zenon DEF BusyIn, ActiveOf
    <3>3. IsFiniteSet(A) /\ Cardinality(A) \in Nat /\ Cardinality(A) <= ClassCap[c]
      <4>1. A \in SUBSET Hashes
        BY Zenon DEF ActiveOf
      <4> QED BY <1>0, <3>2, <4>1, Fewer DEF Slotted
    <3>4. Cardinality(of(c)) > 0 => Cardinality(of(c)) + Cardinality(A) <= ClassCap[c]
      BY <2>6, Zenon
    <3> HIDE DEF A
    <3>5. Cardinality(A \cup of(c)) = Cardinality(A) + Cardinality(of(c)) - Cardinality(A \cap of(c))
      BY <2>5, <3>3, UnionIs
    <3>6. Cardinality(A \cap of(c)) \in Nat
      BY <2>5, <3>3, UnionIs, Zenon
    <3>7. ClassCap[c] \in Nat /\ Cardinality(of(c)) \in Nat
      BY <2>5, DemandAssumption, Zenon
    <3> QED BY <3>1, <3>3, <3>4, <3>5, <3>6, <3>7
  <2>19. Counted(planner'.entries, subscribers')
    BY <1>0, <1>1, <2>10, <2>13, CountedKept
  <2>20. todo' \in {"loop", "plan", "start"}
    BY <2>1, Zenon
  <2>21. Types'
    BY <1>0, <1>1, <2>13, <2>20, Zenon DEF Types
  <2>22. Slotted(planner', slices')
    BY <2>17, <2>18, Zenon DEF Slotted
  <2> QED BY <1>0, <1>1, <2>10, <2>13, <2>14, <2>15, <2>16, <2>19, <2>21, <2>22 DEF DemandInv
<1> QED BY <1>3, <1>4, Zenon DEF PlanDue

LEMMA StartedStep ==
  ASSUME SetFacts, DemandInv, NEW h \in Hashes, StartLookup(h)
  PROVE  DemandInv' /\ Keeps(planner.entries, planner'.entries)
<1>0. /\ Types /\ IsPlanner(planner) /\ IsRuntime(runtime) /\ IsSlices(slices)
      /\ Followed(planner) /\ Counted(planner.entries, subscribers)
      /\ SliceCommands(queue, slices) /\ Registers(queue, subscribers)
      /\ Owned(planner, slices) /\ Starting(planner, todo) /\ Slotted(planner, slices)
  BY DEF DemandInv, Types
<1>1. /\ UNCHANGED <<subscribers, queue, client, ending, dead, faults>>
      /\ todo = "start" /\ planner.pending_starts[h] # {}
      /\ todo' = IF Tracked(planner'.pending_starts) = {} THEN "loop" ELSE todo
  BY Zenon DEF StartLookup, torrents
<1>2. Starting(planner', todo') /\ todo' \in {"loop", "plan", "start"}
  BY <1>1 DEF Starting, Tracked
<1>3. /\ IsEntries(planner.entries) /\ DOMAIN planner.entries \in SUBSET Hashes
      /\ planner.active \in [Hashes -> Optional(Slices)]
      /\ planner.pending_starts \in [Hashes -> Optional(Class)]
      /\ planner.draining \in [Hashes -> Optional(Drain)] /\ planner.tokens \in [Class -> Nat]
  BY <1>0, PlannerFacts, Zenon
<1> DEFINE B == [planner.pending_starts EXCEPT ![h] = {}]
<1>4. /\ B \in [Hashes -> Optional(Class)] /\ B[h] = {}
      /\ \A k \in Hashes : k # h => B[k] = planner.pending_starts[k]
  BY <1>3, Opt
<1>5. CASE LookupStartFailed(h)
  <2>1. PICK c \in planner.pending_starts[h] :
          planner' = [planner EXCEPT !.pending_starts[h] = {},
                        !.tokens[c] = Min({Burst[c], @ + 1}), !.entries = finish(@, {h})]
    BY <1>5, Zenon DEF LookupStartFailed
  <2>2. UNCHANGED <<runtime, slices>>
    BY <1>5, Zenon DEF LookupStartFailed
  <2>3. c \in Class
    BY <1>3, Opt
  <2> DEFINE F == finish(planner.entries, {h})
             t == [planner.tokens EXCEPT ![c] = Min({Burst[c], @ + 1})]
  <2>4. t \in [Class -> Nat]
    <3>1. planner.tokens[c] \in Nat /\ Burst[c] \in Nat
      BY <1>3, <2>3, DemandAssumption, Zenon
    <3>2. Min({Burst[c], planner.tokens[c] + 1}) \in Nat
      BY <3>1, MinOfTwo
    <3> QED BY <1>3, <3>2, Zenon
  <2>5. /\ IsEntries(F) /\ Keeps(planner.entries, F)
        /\ \A k \in DOMAIN planner.entries :
             IF k \in {h} THEN ~F[k].in_progress ELSE F[k] = planner.entries[k]
    BY <1>3, FinishIs
  <2>6. planner' = [planner EXCEPT !.pending_starts = B, !.tokens = t, !.entries = F]
    BY <2>1
  <2> HIDE DEF B, F, t
  <2>7. planner' = [entries |-> F, active |-> planner.active, pending_starts |-> B,
                    draining |-> planner.draining, tokens |-> t]
    BY <1>0, <2>6, Zenon DEF IsPlanner
  <2>8. /\ IsPlanner(planner') /\ planner'.entries = F /\ planner'.active = planner.active
        /\ planner'.pending_starts = B /\ planner'.draining = planner.draining
    <3>1. /\ IsEntries(F) /\ planner.active \in [Hashes -> Optional(Slices)]
          /\ B \in [Hashes -> Optional(Class)]
          /\ planner.draining \in [Hashes -> Optional(Drain)] /\ t \in [Class -> Nat]
      BY <1>3, <1>4, <2>4, <2>5, Zenon
    <3>2. /\ planner'.entries = F /\ planner'.active = planner.active
          /\ planner'.pending_starts = B /\ planner'.draining = planner.draining
          /\ planner'.tokens = t
      BY <2>7, Zenon
    <3>3. IsPlanner(planner')
      BY <2>7, <3>1, <3>2, Zenon DEF IsPlanner
    <3> QED BY <3>2, <3>3, Zenon
  <2>9. Owned(planner', slices') /\ Slotted(planner', slices')
    <3>1. Shrinks(planner, slices, planner', slices')
      BY <1>0, <1>4, <2>2, <2>8, Zenon DEF Shrinks, Owned
    <3>2. "start" = "start" \/ todo # "start"
      OBVIOUS
    <3> QED BY <1>0, <3>1, <3>2, Quiet, Zenon
  <2>10. Followed(planner')
    BY <1>0, <1>3, <1>4, <2>5, <2>8, ZenonT(30) DEF Followed, Behind, Keeps
  <2>11. Counted(planner'.entries, subscribers')
    BY <1>0, <1>1, <2>5, <2>8, CountedKept, ZenonT(30)
  <2>12. Types'
    BY <1>0, <1>1, <1>2, <2>2, <2>8, ZenonT(30) DEF Types
  <2> QED BY <1>0, <1>1, <1>2, <2>2, <2>5, <2>8, <2>9, <2>10, <2>11, <2>12, ZenonT(30) DEF DemandInv
<1>6. ASSUME Slices \ DOMAIN slices # {}, LookupStarted(h, Min(Slices \ DOMAIN slices))
      PROVE  DemandInv' /\ Keeps(planner.entries, planner'.entries)
  <2>1. PICK s : s = Min(Slices \ DOMAIN slices)
    OBVIOUS
  <2>2. s \in Slices /\ s \notin DOMAIN slices
    <3>1. Slices \ DOMAIN slices \in SUBSET Nat
      BY DemandAssumption, Zenon
    <3>2. s \in Slices \ DOMAIN slices
      BY <1>6, <2>1, <3>1, LeastOf
    <3> QED BY <3>2
  <2>3. LookupStarted(h, s)
    BY <1>6, <2>1
  <2>4. PICK n \in FreshLookups, class \in planner.pending_starts[h],
             hedge \in IF Families = {"v4", "v6"} THEN {"armed", "none"} ELSE {"none"} :
          /\ planner' = [planner EXCEPT !.pending_starts[h] = {}, !.active[h] = {s}]
          /\ runtime' = attach_lookup_family(h, s, n)
          /\ slices' = With(slices, s,
               [hash |-> h, class |-> class, running |-> TRUE,
                ids |-> {[n |-> n, old |-> FALSE]}, hedge |-> hedge])
    BY <2>3, Zenon DEF LookupStarted
  <2>5. n \in LookupIds /\ class \in Class /\ hedge \in {"armed", "none"}
    BY <1>0, <1>3, FreshIs, Opt, ZenonT(30)
  <2> DEFINE A == [planner.active EXCEPT ![h] = {s}]
             x == [hash |-> h, class |-> class, running |-> TRUE,
                   ids |-> {[n |-> n, old |-> FALSE]}, hedge |-> hedge]
  <2>6. /\ A \in [Hashes -> Optional(Slices)] /\ A[h] = {s}
        /\ \A k \in Hashes : k # h => A[k] = planner.active[k]
    BY <1>3, <2>2, Opt, Zenon
  <2>7. x \in Slice /\ x.hash = h /\ x.class = class
    <3>1. [n |-> n, old |-> FALSE] \in Id
      BY <2>5 DEF Id
    <3> QED BY <2>5, <3>1 DEF Slice
  <2>8. planner' = [planner EXCEPT !.pending_starts = B, !.active = A]
    BY <2>4
  <2> HIDE DEF A, B
  <2>9. planner' = [entries |-> planner.entries, active |-> A, pending_starts |-> B,
                    draining |-> planner.draining, tokens |-> planner.tokens]
    BY <1>0, <2>8, Zenon DEF IsPlanner
  <2>10. /\ IsPlanner(planner') /\ planner'.entries = planner.entries /\ planner'.active = A
         /\ planner'.pending_starts = B /\ planner'.draining = planner.draining
    BY <1>3, <1>4, <2>6, <2>9, PlannerIs
  <2>11. slices' = With(slices, s, x)
    BY <2>4
  <2> HIDE DEF x
  <2>12. /\ DOMAIN slices' = DOMAIN slices \cup {s} /\ slices'[s] = x
         /\ \A r \in DOMAIN slices : slices'[r] = slices[r]
         /\ slices' = [r \in DOMAIN slices' |-> slices'[r]]
    BY <2>2, <2>11 DEF With
  <2>13. IsSlices(slices')
    BY <1>0, <2>2, <2>7, <2>12 DEF IsSlices
  <2>14. IsRuntime(runtime')
    BY <1>0, <2>2, <2>4, <2>5, AttachIs
  <2>15. Owned(planner', slices')
    BY <1>0, <2>6, <2>7, <2>10, <2>12 DEF Owned
  <2>16. Slotted(planner', slices')
    <3>1. Busy(planner') \in SUBSET Busy(planner)
      BY <1>1, <1>4, <2>6, <2>10, ZenonT(30) DEF Busy
    <3>2. ASSUME NEW c \in Class, NEW k \in BusyIn(planner', slices', c)
          PROVE  k \in BusyIn(planner, slices, c)
      <4>1. k \in Hashes /\ ((\E r \in planner'.active[k] : slices'[r].class = c)
                              \/ c \in planner'.pending_starts[k])
        BY DEF BusyIn
      <4>2. CASE k = h
        <5>1. \E r \in planner'.active[h] : slices'[r].class = c
          BY <1>4, <2>10, <4>1, <4>2
        <5>2. c = class
          BY <2>6, <2>7, <2>10, <2>12, <5>1
        <5> QED BY <4>2, <5>2 DEF BusyIn
      <4>3. CASE k # h
        <5>1. planner'.active[k] = planner.active[k]
              /\ planner'.pending_starts[k] = planner.pending_starts[k]
          BY <1>4, <2>6, <2>10, <4>1, <4>3
        <5>2. \A r \in planner.active[k] : slices'[r] = slices[r]
          BY <1>0, <2>12, <4>1 DEF Owned
        <5> QED BY <4>1, <5>1, <5>2, ZenonT(30) DEF BusyIn
      <4> QED BY <4>2, <4>3, Zenon
    <3>3. \A c \in Class : BusyIn(planner', slices', c) \in SUBSET BusyIn(planner, slices, c)
      BY <3>2
    <3> QED BY <1>0, <3>1, <3>3, SlottedLess, ZenonT(30)
  <2>17. SliceCommands(queue', slices')
    <3>1. \A r \in DOMAIN slices : r \in DOMAIN slices' /\ (Stopped(slices[r]) => Stopped(slices'[r]))
      BY <2>12
    <3> QED BY <1>0, <1>1, <3>1, CommandsKept, Zenon
  <2>18. Followed(planner')
    BY <1>0, <1>3, <1>4, <2>6, <2>10, ZenonT(30) DEF Followed, Behind
  <2>19. Types'
    BY <1>0, <1>1, <1>2, <2>10, <2>13, <2>14, ZenonT(30) DEF Types
  <2> QED BY <1>0, <1>1, <1>2, <2>10, <2>15, <2>16, <2>17, <2>18, <2>19, Zenon DEF DemandInv, Keeps
<1>7. \/ Slices \ DOMAIN slices # {} /\ LookupStarted(h, Min(Slices \ DOMAIN slices))
      \/ LookupStartFailed(h)
  BY DEF StartLookup
<1> QED BY <1>5, <1>6, <1>7, Zenon

-----------------------------------------------------------------------------
(* The invariant holds from the start and is kept by every step.           *)

LEMMA DemandInit ==
  ASSUME SetFacts, Init
  PROVE  DemandInv
<1> DEFINE E == [h \in {} |-> NewEntry("RoutineRefresh")]
<1>1. IsEntries(E) /\ DOMAIN E = {}
  BY DEF IsEntries
<1>2. planner = NewPlanner(E)
  BY DEF Init
<1> HIDE DEF E
<1>3. \A h \in DOMAIN E : ~E[h].in_progress
  BY <1>1
<1>4. /\ IsPlanner(planner) /\ planner.entries = E
      /\ Owned(planner, slices) /\ Starting(planner, todo) /\ Slotted(planner, slices)
      /\ Followed(planner)
  BY <1>1, <1>2, <1>3, NewPlannerIs
<1>5. /\ queue = <<>> /\ todo = "loop" /\ ending = {} /\ dead = {} /\ faults = 0
      /\ subscribers = [h \in Hashes |-> {}] /\ client = [h \in Hashes |-> NoClient]
      /\ slices = [s \in {} |-> {}] /\ runtime = [up |-> TRUE, lookups |-> [n \in {} |-> {}]]
  BY Zenon DEF Init
<1>6. IsRuntime(runtime) /\ IsSlices(slices)
  <2> DEFINE f == [n \in {} |-> {}]
  <2>1. f \in [{} -> Lookup] /\ f \in [{} -> Slice] /\ DOMAIN f = {}
    OBVIOUS
  <2>2. runtime = [up |-> TRUE, lookups |-> f] /\ slices = f
    BY <1>5
  <2> HIDE DEF f
  <2>3. /\ runtime.up = TRUE /\ runtime.lookups = f
        /\ runtime = [up |-> runtime.up, lookups |-> runtime.lookups]
    BY <2>2
  <2> QED BY <2>1, <2>2, <2>3 DEF IsRuntime, IsSlices
<1>7. NoClient \in Client
  BY Opt DEF NoClient, Client, Class
<1>8. queue \in Seq(Command) /\ DOMAIN queue = {}
  BY <1>5
<1>9. Counted(planner.entries, subscribers)
  BY <1>1, <1>4, <1>5 DEF Counted
<1>10. SliceCommands(queue, slices)
  BY <1>8 DEF SliceCommands
<1>11. Registers(queue, subscribers)
  <2>1. \A h \in Hashes : IsFiniteSet(subscribers[h])
    BY <1>5, Zenon DEF SetFacts
  <2> QED BY <1>8, <2>1 DEF Registers
<1>12. Types
  <2>1. faults \in 0 .. MaxFaults
    BY <1>5, DemandAssumption
  <2> QED BY <1>4, <1>5, <1>6, <1>7, <1>8, <2>1 DEF Types
<1> QED BY <1>4, <1>9, <1>10, <1>11, <1>12 DEF DemandInv

LEMMA DemandNext ==
  ASSUME SetFacts, DemandInv, [Next]_vars
  PROVE  DemandInv'
<1>1. CASE HandleCommand
  <2>1. CASE RegisterDemand
    BY <2>1, RegisterStep
  <2>2. CASE UpdateDemand
    BY <2>2, UpdateStep
  <2>3. CASE UnregisterDemand
    BY <2>3, UnregisterStep
  <2>4. CASE DemandLookupFinished
    BY <2>4, FinishedStep
  <2>5. CASE ParkDemandLookups
    BY <2>5, ParkStep, Zenon
  <2>6. CASE StartGetPeersFamily
    BY <2>6, FamilyStep
  <2>7. CASE Reconfigure
    BY <2>7, ReconfigureStep
  <2>8. CASE \E h \in Hashes : DemandPeers(h)
    BY <2>8, PeersStep, Zenon
  <2> QED BY <1>1, <2>1, <2>2, <2>3, <2>4, <2>5, <2>6, <2>7, <2>8 DEF HandleCommand
<1>2. CASE StartDueDemands
  BY <1>2, PlanStep, StartedStep DEF StartDueDemands
<1>3. CASE DrainTick
  BY <1>3, DrainsStep DEF DrainTick
<1>4. CASE FinalizeDrainedDemandLookups
  BY <1>4, DrainsStep DEF FinalizeDrainedDemandLookups
<1>5. CASE SliceTask
  BY <1>5, SliceTaskStep DEF SliceTask
<1>6. CASE RuntimeStep
  BY <1>6, RuntimeLemma
<1>7. CASE TimePasses
  BY <1>7, DueStep, RefillStep DEF TimePasses
<1>8. CASE Torrent
  BY <1>8, TorrentStep
<1>9. CASE ConfigChanged
  BY <1>9, ConfigStep
<1>10. CASE \E e \in ending : TaskDropped(e)
  BY <1>10, DroppedStep
<1>11. CASE UNCHANGED vars
  <2>1. UNCHANGED <<planner, subscribers, runtime, todo, slices, queue, client, ending, dead, faults>>
    BY <1>11 DEF vars, service, torrents
  <2>2. /\ Types /\ IsSlices(slices) /\ SliceCommands(queue, slices) /\ Registers(queue, subscribers)
    BY DEF DemandInv, Types
  <2>3. SameSlices(slices, slices')
    BY <2>1, <2>2, SameIsSame
  <2>4. Types'
    BY <2>1, <2>2 DEF Types
  <2> QED BY <2>1, <2>2, <2>3, <2>4, PlannerStays
<1> QED BY <1>1, <1>2, <1>3, <1>4, <1>5, <1>6, <1>7, <1>8, <1>9, <1>10, <1>11 DEF Next

-----------------------------------------------------------------------------
(* What follows from the invariants.                                       *)

LEMMA InvTyped ==
  ASSUME DemandInv
  PROVE  TypeOK
<1>1. Types /\ Owned(planner, slices)
  BY DEF DemandInv
<1>2. IsPlanner(planner) /\ IsRuntime(runtime) /\ IsSlices(slices)
  BY <1>1 DEF Types
<1>3. planner.active \in [Hashes -> Optional(DOMAIN slices)]
  <2>1. planner.active \in [Hashes -> Optional(Slices)]
    BY <1>2 DEF IsPlanner
  <2>2. ASSUME NEW h \in Hashes PROVE planner.active[h] \in Optional(DOMAIN slices)
    <3>1. planner.active[h] = {} \/ \E s \in Slices : planner.active[h] = {s}
      BY <2>1 DEF Optional
    <3>2. \A s \in planner.active[h] : s \in DOMAIN slices
      BY <1>1 DEF Owned
    <3> QED BY <3>1, <3>2 DEF Optional
  <2> QED BY <2>1, <2>2
<1>4. /\ DOMAIN planner.entries \subseteq Hashes
      /\ \A h \in DOMAIN planner.entries : planner.entries[h] \in Entry
      /\ planner.pending_starts \in [Hashes -> Optional(Class)]
      /\ planner.draining \in [Hashes -> Optional(Drain)]
      /\ planner.tokens \in [Class -> Nat]
  BY <1>2 DEF IsPlanner, IsEntries
<1>5. /\ runtime.up \in BOOLEAN /\ DOMAIN runtime.lookups \subseteq LookupIds
      /\ \A n \in DOMAIN runtime.lookups : runtime.lookups[n] \in Lookup
  BY <1>2 DEF IsRuntime
<1>6. DOMAIN slices \subseteq Slices /\ \A s \in DOMAIN slices : slices[s] \in Slice
  BY <1>2 DEF IsSlices
<1>7. \A i \in DOMAIN queue : queue[i] \in Command
  BY <1>1 DEF Types
<1>8. /\ subscribers \in [Hashes -> SUBSET Subscribers] /\ todo \in {"loop", "plan", "start"}
      /\ client \in [Hashes -> Client] /\ faults \in 0 .. MaxFaults
      /\ ending \subseteq Ending /\ dead \subseteq Subscribers
  BY <1>1 DEF Types
<1> QED BY <1>3, <1>4, <1>5, <1>6, <1>7, <1>8 DEF TypeOK

-----------------------------------------------------------------------------
(* The class a torrent reported last, on its way.                          *)

LEMMA SaidTail ==
  ASSUME NEW q \in Seq(Command), q # <<>>, NEW h, NEW k, NEW c, SaidLast(q, h, k, c), k # 1
  PROVE  SaidLast(Tail(q), h, k - 1, c) /\ k \in Nat /\ k - 1 \in DOMAIN Tail(q)
<1>1. /\ DOMAIN Tail(q) \in SUBSET Nat /\ DOMAIN q \in SUBSET Nat
      /\ \A i \in DOMAIN Tail(q) : i + 1 \in DOMAIN q /\ Tail(q)[i] = q[i + 1]
      /\ \A i \in DOMAIN q : i # 1 => i - 1 \in DOMAIN Tail(q) /\ Tail(q)[i - 1] = q[i]
  BY TailIs
<1>2. k \in DOMAIN q /\ Speaks(q[k], h) /\ q[k].class = c
      /\ \A j \in DOMAIN q : j > k => ~Speaks(q[j], h)
  BY DEF SaidLast
<1>3. k \in Nat /\ k - 1 \in DOMAIN Tail(q) /\ Tail(q)[k - 1] = q[k]
  BY <1>1, <1>2
<1>4. ASSUME NEW j \in DOMAIN Tail(q), j > k - 1 PROVE ~Speaks(Tail(q)[j], h)
  <2>1. j \in Nat /\ j + 1 > k /\ j + 1 \in DOMAIN q /\ Tail(q)[j] = q[j + 1]
    BY <1>1, <1>3, <1>4
  <2> QED BY <1>2, <2>1
<1> QED BY <1>2, <1>3, <1>4 DEF SaidLast

(* A command that does not speak for h is taken.                           *)
LEMMA SaysTail ==
  ASSUME NEW q \in Seq(Command), q # <<>>, NEW h, NEW c, NEW E, NEW F
  PROVE  /\ (Asking(q, h, c) /\ ~(IsRegister(Head(q)) /\ c.sub = {Head(q).sub}))
              => Asking(Tail(q), h, c)
         /\ /\ Known(q, E, h, c) /\ ~Speaks(Head(q), h)
            /\ h \in DOMAIN E => h \in DOMAIN F /\ F[h].class = E[h].class
            => Known(Tail(q), F, h, c)
<1>1. /\ DOMAIN Tail(q) \in SUBSET Nat /\ DOMAIN q \in SUBSET Nat /\ Head(q) = q[1]
      /\ \A i \in DOMAIN Tail(q) : i + 1 \in DOMAIN q /\ Tail(q)[i] = q[i + 1]
      /\ \A i \in DOMAIN q : i # 1 => i - 1 \in DOMAIN Tail(q) /\ Tail(q)[i - 1] = q[i]
      /\ \A i \in DOMAIN q : i >= 1
  <2>1. DOMAIN q = 1 .. Len(q)
    OBVIOUS
  <2> QED BY <2>1, TailIs
<1>2. ASSUME Asking(q, h, c), ~(IsRegister(Head(q)) /\ c.sub = {Head(q).sub})
      PROVE  Asking(Tail(q), h, c)
  <2>1. PICK i \in DOMAIN q :
          /\ IsRegister(q[i]) /\ q[i].hash = h /\ c.sub = {q[i].sub}
          /\ \A j \in DOMAIN q : j > i => ~(IsRegister(q[j]) /\ q[j].hash = h)
          /\ \E k \in DOMAIN q : k >= i /\ SaidLast(q, h, k, c.class)
    BY <1>2 DEF Asking
  <2>2. PICK k \in DOMAIN q : k >= i /\ SaidLast(q, h, k, c.class)
    BY <2>1
  <2>3. i # 1 /\ i \in Nat /\ k \in Nat /\ i >= 1
    BY <1>1, <1>2, <2>1
  <2>4. k # 1
    BY <2>2, <2>3
  <2>5. SaidLast(Tail(q), h, k - 1, c.class) /\ k - 1 \in DOMAIN Tail(q)
    BY <2>2, <2>4, SaidTail
  <2>6. i - 1 \in DOMAIN Tail(q) /\ Tail(q)[i - 1] = q[i] /\ k - 1 >= i - 1
    BY <1>1, <2>2, <2>3
  <2>7. \A j \in DOMAIN Tail(q) : j > i - 1 => ~(IsRegister(Tail(q)[j]) /\ Tail(q)[j].hash = h)
    <3> SUFFICES ASSUME NEW j \in DOMAIN Tail(q), j > i - 1
                 PROVE  ~(IsRegister(Tail(q)[j]) /\ Tail(q)[j].hash = h)
      OBVIOUS
    <3>1. j + 1 > i /\ j + 1 \in DOMAIN q /\ Tail(q)[j] = q[j + 1]
      BY <1>1, <2>3
    <3> QED BY <2>1, <3>1
  <2> QED BY <2>1, <2>5, <2>6, <2>7 DEF Asking
<1>3. ASSUME Known(q, E, h, c), ~Speaks(Head(q), h),
             h \in DOMAIN E => h \in DOMAIN F /\ F[h].class = E[h].class
      PROVE  Known(Tail(q), F, h, c)
  <2>1. \A j \in DOMAIN Tail(q) : ~(IsRegister(Tail(q)[j]) /\ Tail(q)[j].hash = h)
    BY <1>1, <1>3 DEF Known
  <2>2. CASE \E k \in DOMAIN q : SaidLast(q, h, k, c.class)
    <3>1. PICK k \in DOMAIN q : SaidLast(q, h, k, c.class)
      BY <2>2
    <3>2. k # 1
      BY <1>1, <1>3, <3>1 DEF SaidLast
    <3>3. SaidLast(Tail(q), h, k - 1, c.class) /\ k - 1 \in DOMAIN Tail(q)
      BY <3>1, <3>2, SaidTail
    <3> QED BY <2>1, <3>3 DEF Known
  <2>3. CASE /\ \A j \in DOMAIN q : ~Speaks(q[j], h)
             /\ h \in DOMAIN E /\ E[h].class = c.class
    <3>1. \A j \in DOMAIN Tail(q) : ~Speaks(Tail(q)[j], h)
      BY <1>1, <2>3
    <3>2. h \in DOMAIN F /\ F[h].class = c.class
      BY <1>3, <2>3
    <3> QED BY <2>1, <3>1, <3>2 DEF Known
  <2> QED BY <1>3, <2>2, <2>3 DEF Known
<1> QED BY <1>2, <1>3

(* A command is sent that does not speak for h, or one that does.          *)
LEMMA SaysAppend ==
  ASSUME NEW q \in Seq(Command), NEW m \in Command, NEW h, NEW c, ~Speaks(m, h),
         NEW E, NEW F
  PROVE  /\ Asking(q, h, c) => Asking(Append(q, m), h, c)
         /\ /\ Known(q, E, h, c)
            /\ h \in DOMAIN E => h \in DOMAIN F /\ F[h].class = E[h].class
            => Known(Append(q, m), F, h, c)
<1> DEFINE a == Append(q, m)
<1>1. PICK n \in Nat : /\ n \in DOMAIN a /\ a[n] = m
                       /\ DOMAIN a = DOMAIN q \cup {n}
                       /\ \A i \in DOMAIN q : i < n /\ i # n /\ a[i] = q[i]
  BY AppendIs
<1> HIDE DEF a
<1>2. \A k : SaidLast(q, h, k, c.class) => SaidLast(a, h, k, c.class) /\ k \in DOMAIN a
  BY <1>1 DEF SaidLast
<1>3. ~(IsRegister(m) /\ m.hash = h)
  BY DEF IsRegister, Speaks
<1>4. ASSUME Asking(q, h, c) PROVE Asking(a, h, c)
  <2>1. PICK i \in DOMAIN q :
          /\ IsRegister(q[i]) /\ q[i].hash = h /\ c.sub = {q[i].sub}
          /\ \A j \in DOMAIN q : j > i => ~(IsRegister(q[j]) /\ q[j].hash = h)
          /\ \E k \in DOMAIN q : k >= i /\ SaidLast(q, h, k, c.class)
    BY <1>4 DEF Asking
  <2>2. \A j \in DOMAIN a : j > i => ~(IsRegister(a[j]) /\ a[j].hash = h)
    BY <1>1, <1>3, <2>1
  <2>3. \E k \in DOMAIN a : k >= i /\ SaidLast(a, h, k, c.class)
    BY <1>2, <2>1
  <2>4. i \in DOMAIN a /\ a[i] = q[i]
    BY <1>1
  <2> QED BY <2>1, <2>2, <2>3, <2>4 DEF Asking
<1>5. ASSUME Known(q, E, h, c), h \in DOMAIN E => h \in DOMAIN F /\ F[h].class = E[h].class
      PROVE  Known(a, F, h, c)
  <2>1. \A j \in DOMAIN a : ~(IsRegister(a[j]) /\ a[j].hash = h)
    BY <1>1, <1>3, <1>5 DEF Known
  <2>2. CASE \E k \in DOMAIN q : SaidLast(q, h, k, c.class)
    BY <1>2, <2>1, <2>2 DEF Known
  <2>3. CASE /\ \A j \in DOMAIN q : ~Speaks(q[j], h)
             /\ h \in DOMAIN E /\ E[h].class = c.class
    <3>1. \A j \in DOMAIN a : ~Speaks(a[j], h)
      BY <1>1, <2>3
    <3> QED BY <1>5, <2>1, <2>3, <3>1 DEF Known
  <2> QED BY <1>5, <2>2, <2>3 DEF Known
<1> QED BY <1>4, <1>5 DEF a

(* a is q and, last, at n, the command m, which speaks for h.              *)
SaidAt(a, q, m, h, n) ==
  /\ n \in DOMAIN a /\ n \in Nat /\ a[n] = m /\ SaidLast(a, h, n, m.class)
  /\ DOMAIN a = DOMAIN q \cup {n}
  /\ \A i \in DOMAIN q : i < n /\ a[i] = q[i]

LEMMA SaysNow ==
  ASSUME NEW q \in Seq(Command), NEW m \in Command, NEW h, Speaks(m, h)
  PROVE  \E n : SaidAt(Append(q, m), q, m, h, n)
<1> DEFINE a == Append(q, m)
<1>1. PICK n \in Nat : /\ n \in DOMAIN a /\ a[n] = m
                       /\ DOMAIN a = DOMAIN q \cup {n}
                       /\ \A i \in DOMAIN q : i < n /\ i # n /\ a[i] = q[i]
  BY AppendIs
<1>2. DOMAIN q \in SUBSET Nat
  BY AppendIs
<1> HIDE DEF a
<1>3. \A j \in DOMAIN a : ~(j > n)
  BY <1>1, <1>2
<1>4. SaidLast(a, h, n, m.class)
  BY <1>1, <1>3 DEF SaidLast
<1>5. SaidAt(a, q, m, h, n)
  BY <1>1, <1>4, Zenon DEF SaidAt
<1> QED BY <1>5, Zenon DEF a

(* The service's steps, and what else speaks for no torrent.               *)
Passes ==
  \/ queue' = queue
  \/ queue # <<>> /\ queue' = Tail(queue) /\ Head(queue).kind \notin {"Register", "Update"}
  \/ \E m \in Command : /\ queue' = Append(queue, m)
                        /\ m.kind \notin {"Register", "Update", "Unregister"}
SameClasses ==
  \A k \in DOMAIN planner'.entries :
    k \in DOMAIN planner.entries /\ planner'.entries[k].class = planner.entries[k].class
StillIn == \A h \in Hashes : \A x \in client[h].sub : x \in subscribers[h] => x \in subscribers'[h]

LEMMA ClientKept ==
  ASSUME DemandInv, DemandInv', ClientInv, client' = client, ending' \in SUBSET ending,
         dead' \in SUBSET dead, Passes, SameClasses, StillIn
  PROVE  ClientInv'
<1>0. queue \in Seq(Command) /\ Counted(planner.entries, subscribers)
      /\ Counted(planner'.entries, subscribers')
  BY DEF DemandInv, Types
<1> SUFFICES ASSUME NEW h \in Hashes
             PROVE  /\ Own(h, client', queue', ending', dead')
                    /\ Placed(h, client'[h], queue', planner'.entries, subscribers')
  BY Zenon DEF ClientInv
<1>1. /\ Own(h, client, queue, ending, dead)
      /\ Placed(h, client[h], queue, planner.entries, subscribers)
  BY DEF ClientInv
<1>2. PICK c : c = client[h]
  OBVIOUS
<1>3. \A i \in DOMAIN queue' : queue'[i].kind = "Unregister" =>
        \E j \in DOMAIN queue : queue'[i] = queue[j]
  <2>1. CASE queue' = queue
    BY <2>1
  <2>2. CASE queue # <<>> /\ queue' = Tail(queue)
    BY <1>0, <2>2, TailIs
  <2>3. CASE \E m \in Command : /\ queue' = Append(queue, m)
                                /\ m.kind \notin {"Register", "Update", "Unregister"}
    <3>1. PICK m \in Command : queue' = Append(queue, m) /\ m.kind # "Unregister"
      BY <2>3
    <3> QED BY <1>0, <3>1, AppendIs
  <2> QED BY <2>1, <2>2, <2>3 DEF Passes
<1>4. Own(h, client', queue', ending', dead')
  BY <1>1, <1>3 DEF Own
<1>5. c.at = "asking" => Asking(queue', h, c)
  <2> SUFFICES ASSUME Asking(queue, h, c) PROVE Asking(queue', h, c)
    BY <1>1, <1>2 DEF Placed
  <2>1. CASE queue' = queue
    BY <2>1
  <2>2. CASE queue # <<>> /\ queue' = Tail(queue) /\ Head(queue).kind \notin {"Register", "Update"}
    BY <1>0, <2>2, SaysTail DEF IsRegister
  <2>3. CASE \E m \in Command : /\ queue' = Append(queue, m)
                                /\ m.kind \notin {"Register", "Update", "Unregister"}
    BY <1>0, <2>3, SaysAppend DEF Speaks
  <2> QED BY <2>1, <2>2, <2>3 DEF Passes
<1>6. ASSUME c.at \in {"answered", "on"}
      PROVE  (\E x \in subscribers'[h] : c.sub = {x}) /\ Known(queue', planner'.entries, h, c)
  <2>1. PICK x \in subscribers[h] : c.sub = {x}
    BY <1>1, <1>2, <1>6, Zenon DEF Placed
  <2>2. x \in subscribers'[h]
    BY <1>2, <2>1 DEF StillIn
  <2>3. h \in DOMAIN planner'.entries
    BY <1>0, <2>2 DEF Counted
  <2>4. h \in DOMAIN planner.entries => h \in DOMAIN planner'.entries
                                        /\ planner'.entries[h].class = planner.entries[h].class
    BY <2>3 DEF SameClasses
  <2>5. Known(queue, planner.entries, h, c)
    BY <1>1, <1>2, <1>6, ZenonT(30) DEF Placed
  <2>6. CASE queue' = queue
    BY <2>1, <2>2, <2>4, <2>5, <2>6 DEF Known
  <2>7. CASE queue # <<>> /\ queue' = Tail(queue) /\ Head(queue).kind \notin {"Register", "Update"}
    <3>1. ~Speaks(Head(queue), h)
      BY <2>7 DEF Speaks
    <3> QED BY <1>0, <2>1, <2>2, <2>4, <2>5, <2>7, <3>1, SaysTail
  <2>8. CASE \E m \in Command : /\ queue' = Append(queue, m)
                                /\ m.kind \notin {"Register", "Update", "Unregister"}
    <3>1. PICK m \in Command : queue' = Append(queue, m) /\ ~Speaks(m, h)
      BY <2>8 DEF Speaks
    <3> QED BY <1>0, <2>1, <2>2, <2>4, <2>5, <3>1, SaysAppend, Zenon
  <2> QED BY <2>6, <2>7, <2>8 DEF Passes
<1>7. Placed(h, c, queue', planner'.entries, subscribers')
  BY <1>1, <1>2, <1>5, <1>6, ZenonT(30) DEF Placed
<1> QED BY <1>2, <1>4, <1>7

(* A command of a torrent is taken: what it says is the planner's now.     *)
LEMMA OwnTail ==
  ASSUME NEW q \in Seq(Command), q # <<>>, NEW h, NEW C, NEW en, NEW d, Own(h, C, q, en, d)
  PROVE  Own(h, C, Tail(q), en, d)
<1>1. \A i \in DOMAIN Tail(q) : i + 1 \in DOMAIN q /\ Tail(q)[i] = q[i + 1]
  BY TailIs
<1> QED BY <1>1 DEF Own

LEMMA TakenIs ==
  ASSUME NEW q \in Seq(Command), q # <<>>, NEW h, NEW c, Speaks(Head(q), h),
         NEW F, h \in DOMAIN F, F[h].class = Head(q).class,
         \A j \in DOMAIN Tail(q) : ~(IsRegister(Tail(q)[j]) /\ Tail(q)[j].hash = h),
         \E k \in DOMAIN q : SaidLast(q, h, k, c.class)
  PROVE  Known(Tail(q), F, h, c)
<1>1. PICK k \in DOMAIN q : SaidLast(q, h, k, c.class)
  OBVIOUS
<1>2. CASE k # 1
  <2>1. SaidLast(Tail(q), h, k - 1, c.class) /\ k - 1 \in DOMAIN Tail(q)
    BY <1>1, <1>2, SaidTail
  <2> QED BY <2>1 DEF Known
<1>3. CASE k = 1
  <2>1. q[1].class = c.class /\ \A j \in DOMAIN q : j > 1 => ~Speaks(q[j], h)
    BY <1>1, <1>3 DEF SaidLast
  <2>2. /\ Head(q) = q[1]
        /\ \A i \in DOMAIN Tail(q) : i + 1 \in DOMAIN q /\ Tail(q)[i] = q[i + 1] /\ i + 1 > 1
    BY TailIs
  <2>3. \A j \in DOMAIN Tail(q) : ~Speaks(Tail(q)[j], h)
    BY <2>1, <2>2
  <2> QED BY <2>1, <2>2, <2>3 DEF Known
<1> QED BY <1>2, <1>3

LEMMA ClientRegister ==
  ASSUME SetFacts, DemandInv, ClientInv, RegisterDemand
  PROVE  ClientInv'
<1> DEFINE m == Head(queue)
           g == m.hash
<1>1. /\ subscribers' = [subscribers EXCEPT ![g] = @ \cup {m.sub}]
      /\ client' = IF client[g].sub = {m.sub}
                   THEN [client EXCEPT ![g].at = "answered"] ELSE client
      /\ UNCHANGED <<ending, dead>> /\ Receive("Register")
  BY DEF RegisterDemand
<1>2. /\ queue \in Seq(Command) /\ queue # <<>> /\ m \in Command /\ queue' = Tail(queue)
      /\ m.kind = "Register" /\ m = queue[1] /\ 1 \in DOMAIN queue
  BY <1>1, Received
<1>3. g \in Hashes
  BY <1>2, CommandIs
<1>4. /\ Registers(queue, subscribers) /\ client \in [Hashes -> Client]
      /\ subscribers \in [Hashes -> SUBSET Subscribers]
  BY DEF DemandInv, Types
<1>5. DemandInv' /\ Reclassed(g, m.class)
  BY RegisterStep
<1>6. \A h \in Hashes : subscribers[h] \in SUBSET subscribers'[h]
  BY <1>1, <1>4
<1>7. m.sub \in subscribers'[g]
  BY <1>1, <1>3, <1>4
<1> HIDE DEF m
<1>8. \A h \in Hashes : client'[h].sub = client[h].sub
  <2>1. \A h \in Hashes : client[h] \in Client
    BY <1>4
  <2>2. [client[g] EXCEPT !.at = "answered"].sub = client[g].sub
    BY <1>3, <2>1 DEF Client
  <2> QED BY <1>1, <1>3, <1>4, <2>2
<1> SUFFICES ASSUME NEW h \in Hashes
             PROVE  /\ Own(h, client', queue', ending', dead')
                    /\ Placed(h, client'[h], queue', planner'.entries, subscribers')
  BY DEF ClientInv
<1>9. /\ Own(h, client, queue, ending, dead)
      /\ Placed(h, client[h], queue, planner.entries, subscribers)
  BY DEF ClientInv
<1>10. Own(h, client', queue', ending', dead')
  <2>1. Own(h, client, queue', ending, dead)
    BY <1>2, <1>9, OwnTail
  <2> QED BY <1>1, <1>8, <2>1 DEF Own
<1>11. PICK c : c = client[h] /\ c \in Client
  BY <1>4
<1>12. CASE h = g /\ c.sub = {m.sub}
  <2>1. c.at \notin {"off", "spawned"}
    BY <1>9, <1>11, <1>12, ZenonT(30) DEF Placed
  <2>2. c.at \notin {"answered", "on"}
    <3>1. IsRegister(queue[1]) /\ queue[1].hash = h
      BY <1>2, <1>12 DEF IsRegister
    <3>2. c.at \in {"answered", "on"} => Known(queue, planner.entries, h, c)
      BY <1>9, <1>11 DEF Placed
    <3> QED BY <1>2, <3>1, <3>2, ZenonT(30) DEF Known
  <2>3. c.at = "asking"
    BY <1>11, <2>1, <2>2 DEF Client
  <2>4. Asking(queue, h, c)
    BY <1>9, <1>11, <2>3 DEF Placed
  <2>5. PICK i \in DOMAIN queue :
          /\ IsRegister(queue[i]) /\ queue[i].hash = h /\ c.sub = {queue[i].sub}
          /\ \A j \in DOMAIN queue : j > i => ~(IsRegister(queue[j]) /\ queue[j].hash = h)
          /\ \E k \in DOMAIN queue : k >= i /\ SaidLast(queue, h, k, c.class)
    BY <2>4 DEF Asking
  <2>6. i = 1
    <3>1. queue[i].sub = m.sub /\ IsRegister(m)
      BY <1>2, <1>12, <2>5, Zenon DEF IsRegister
    <3> QED BY <1>2, <1>4, <2>5, <3>1 DEF Registers
  <2>7. \A j \in DOMAIN Tail(queue) : ~(IsRegister(Tail(queue)[j]) /\ Tail(queue)[j].hash = h)
    <3>1. \A j \in DOMAIN Tail(queue) : j + 1 \in DOMAIN queue /\ Tail(queue)[j] = queue[j + 1] /\ j + 1 > 1
      BY <1>2, TailIs
    <3> QED BY <2>5, <2>6, <3>1
  <2>8. Counted(planner'.entries, subscribers')
    BY <1>5 DEF DemandInv
  <2>9. h \in DOMAIN planner'.entries /\ planner'.entries[h].class = m.class
    BY <1>5, <1>7, <1>12, <2>8 DEF Counted, Reclassed
  <2>10. Speaks(Head(queue), h) /\ m = Head(queue)
    BY <1>2, <1>12 DEF Speaks, m
  <2>11. \E k \in DOMAIN queue : SaidLast(queue, h, k, c.class)
    BY <2>5
  <2>12. Known(Tail(queue), planner'.entries, h, c)
    BY <1>2, <2>7, <2>9, <2>10, <2>11, TakenIs
  <2> DEFINE d == [c EXCEPT !.at = "answered"]
  <2>13. client'[h] = d
    BY <1>1, <1>4, <1>11, <1>12
  <2>14. d.at = "answered" /\ d.class = c.class /\ d.sub = c.sub
    BY <1>11 DEF Client
  <2> HIDE DEF d
  <2>15. Known(queue', planner'.entries, h, d)
    BY <1>2, <2>12, <2>14, ZenonT(30) DEF Known
  <2>16. \E x \in subscribers'[h] : d.sub = {x}
    BY <1>7, <1>12, <2>14
  <2>17. Placed(h, d, queue', planner'.entries, subscribers')
    BY <2>14, <2>15, <2>16 DEF Placed
  <2> QED BY <1>10, <2>13, <2>17
<1>13. CASE ~(h = g /\ c.sub = {m.sub})
  <2>1. client'[h] = c
    BY <1>1, <1>3, <1>4, <1>11, <1>13
  <2>2. c.at = "asking" => Asking(queue', h, c)
    <3> SUFFICES ASSUME Asking(queue, h, c) PROVE Asking(queue', h, c)
      BY <1>9, <1>11 DEF Placed
    <3>1. PICK i \in DOMAIN queue : IsRegister(queue[i]) /\ queue[i].hash = h /\ c.sub = {queue[i].sub}
      BY DEF Asking
    <3>2. c.sub # {m.sub}
      <4>1. SUFFICES ASSUME c.sub = {m.sub} PROVE FALSE
        OBVIOUS
      <4>2. queue[i].sub = queue[1].sub /\ IsRegister(queue[1])
        BY <1>2, <3>1, <4>1, Zenon DEF IsRegister
      <4>3. i = 1
        BY <1>2, <1>4, <3>1, <4>2 DEF Registers
      <4> QED BY <1>2, <1>13, <3>1, <4>1, <4>3
    <3>3. m = Head(queue)
      BY DEF m
    <3> QED BY <1>2, <3>2, <3>3, SaysTail, ZenonT(30)
  <2>3. ASSUME c.at \in {"answered", "on"}
        PROVE  (\E x \in subscribers'[h] : c.sub = {x}) /\ Known(queue', planner'.entries, h, c)
    <3>1. (\E x \in subscribers[h] : c.sub = {x}) /\ Known(queue, planner.entries, h, c)
      BY <1>9, <1>11, <2>3 DEF Placed
    <3>2. h # g
      BY <1>2, <3>1 DEF Known, IsRegister
    <3>3. ~Speaks(Head(queue), h)
      BY <3>2 DEF Speaks, m
    <3>4. h \in DOMAIN planner.entries =>
            h \in DOMAIN planner'.entries /\ planner'.entries[h].class = planner.entries[h].class
      BY <1>5, <3>2 DEF Reclassed
    <3>5. Known(queue', planner'.entries, h, c)
      BY <1>2, <3>1, <3>3, <3>4, SaysTail, ZenonT(30)
    <3> QED BY <1>6, <3>1, <3>5, ZenonT(30)
  <2>4. Placed(h, c, queue', planner'.entries, subscribers')
    BY <1>9, <1>11, <2>2, <2>3, Zenon DEF Placed
  <2> QED BY <1>10, <2>1, <2>4
<1> QED BY <1>12, <1>13, Zenon

LEMMA ClientUpdate ==
  ASSUME SetFacts, DemandInv, ClientInv, UpdateDemand
  PROVE  ClientInv'
<1> DEFINE m == Head(queue)
           g == m.hash
<1>1. UNCHANGED <<subscribers, client, ending, dead>> /\ Receive("Update")
  BY DEF UpdateDemand, torrents
<1>2. /\ queue \in Seq(Command) /\ queue # <<>> /\ queue' = Tail(queue)
      /\ m.kind = "Update" /\ m = queue[1] /\ 1 \in DOMAIN queue
  BY <1>1, Received
<1>3. DemandInv' /\ Reclassed(g, m.class)
  BY UpdateStep
<1>4. Counted(planner'.entries, subscribers')
  BY <1>3 DEF DemandInv
<1> HIDE DEF m
<1> SUFFICES ASSUME NEW h \in Hashes
             PROVE  /\ Own(h, client', queue', ending', dead')
                    /\ Placed(h, client'[h], queue', planner'.entries, subscribers')
  BY DEF ClientInv
<1>5. /\ Own(h, client, queue, ending, dead)
      /\ Placed(h, client[h], queue, planner.entries, subscribers)
  BY DEF ClientInv
<1>6. Own(h, client', queue', ending', dead')
  BY <1>1, <1>2, <1>5, OwnTail
<1>7. PICK c : c = client[h]
  OBVIOUS
<1>8. c.at = "asking" => Asking(queue', h, c)
  <2> SUFFICES ASSUME Asking(queue, h, c) PROVE Asking(queue', h, c)
    BY <1>5, <1>7 DEF Placed
  <2>1. ~IsRegister(Head(queue))
    BY <1>2 DEF IsRegister, m
  <2> QED BY <1>2, <2>1, SaysTail
<1>9. ASSUME c.at \in {"answered", "on"}
      PROVE  (\E x \in subscribers'[h] : c.sub = {x}) /\ Known(queue', planner'.entries, h, c)
  <2>1. (\E x \in subscribers'[h] : c.sub = {x}) /\ Known(queue, planner.entries, h, c)
    BY <1>1, <1>5, <1>7, <1>9 DEF Placed
  <2>2. CASE h # g
    <3>1. ~Speaks(Head(queue), h)
      BY <2>2 DEF Speaks, m
    <3>2. h \in DOMAIN planner.entries =>
            h \in DOMAIN planner'.entries /\ planner'.entries[h].class = planner.entries[h].class
      BY <1>3, <2>2 DEF Reclassed
    <3>3. Known(queue', planner'.entries, h, c)
      BY <1>2, <2>1, <3>1, <3>2, SaysTail, ZenonT(30)
    <3> QED BY <2>1, <3>3
  <2>3. CASE h = g
    <3>1. Speaks(Head(queue), h) /\ Speaks(queue[1], h) /\ m = Head(queue)
      BY <1>2, <2>3 DEF Speaks, m
    <3>2. h \in DOMAIN planner'.entries /\ planner'.entries[h].class = Head(queue).class
      BY <1>3, <1>4, <2>1, <2>3, <3>1 DEF Counted, Reclassed
    <3>3. \A j \in DOMAIN Tail(queue) : ~(IsRegister(Tail(queue)[j]) /\ Tail(queue)[j].hash = h)
      <4>1. \A j \in DOMAIN Tail(queue) : j + 1 \in DOMAIN queue /\ Tail(queue)[j] = queue[j + 1]
        BY <1>2, TailIs
      <4> QED BY <2>1, <4>1 DEF Known
    <3>4. \E k \in DOMAIN queue : SaidLast(queue, h, k, c.class)
      BY <1>2, <2>1, <3>1 DEF Known
    <3>5. Known(Tail(queue), planner'.entries, h, c)
      BY <1>2, <3>1, <3>2, <3>3, <3>4, TakenIs
    <3> QED BY <1>2, <2>1, <3>5
  <2> QED BY <2>2, <2>3
<1>10. Placed(h, c, queue', planner'.entries, subscribers')
  BY <1>5, <1>7, <1>8, <1>9, ZenonT(30) DEF Placed
<1> QED BY <1>1, <1>6, <1>7, <1>10

(* A torrent's own steps change its client, h, and may send a command that *)
(* speaks for no other.                                                    *)
SpeaksFor(h) ==
  \/ queue' = queue
  \/ \E m \in Command : /\ queue' = Append(queue, m) /\ m.kind \in {"Register", "Update"}
                        /\ m.hash = h

LEMMA ClientsElse ==
  ASSUME DemandInv, ClientInv, NEW h \in Hashes, NEW d \in Client,
         client' = [client EXCEPT ![h] = d],
         UNCHANGED <<planner, subscribers, dead>>, SpeaksFor(h),
         \A e \in ending' : e \in ending \/ e.sub \in client[h].sub,
         \A x \in d.sub : \A k \in Hashes : k # h => x \notin client[k].sub
  PROVE  /\ \A k \in Hashes : k # h =>
              /\ Own(k, client', queue', ending', dead')
              /\ Placed(k, client'[k], queue', planner'.entries, subscribers')
         /\ \A i \in DOMAIN queue' : queue'[i].kind = "Unregister" =>
              \E j \in DOMAIN queue : queue'[i] = queue[j]
         /\ client'[h] = d /\ \A k \in Hashes : k # h => client'[k] = client[k]
<1>0. queue \in Seq(Command) /\ client \in [Hashes -> Client]
  BY Zenon DEF DemandInv, Types
<1>1. client'[h] = d /\ \A k \in Hashes : k # h => client'[k] = client[k]
  BY <1>0
<1>2. \A i \in DOMAIN queue' : queue'[i].kind = "Unregister" =>
        \E j \in DOMAIN queue : queue'[i] = queue[j]
  <2>1. CASE queue' = queue
    BY <2>1
  <2>2. CASE \E m \in Command : queue' = Append(queue, m) /\ m.kind \in {"Register", "Update"}
    <3>1. PICK m \in Command : queue' = Append(queue, m) /\ m.kind # "Unregister"
      BY <2>2
    <3> QED BY <1>0, <3>1, AppendIs
  <2> QED BY <2>1, <2>2 DEF SpeaksFor
<1>3. ASSUME NEW k \in Hashes, k # h
      PROVE  /\ Own(k, client', queue', ending', dead')
             /\ Placed(k, client'[k], queue', planner'.entries, subscribers')
  <2>1. /\ Own(k, client, queue, ending, dead)
        /\ Placed(k, client[k], queue, planner.entries, subscribers)
    BY Zenon DEF ClientInv
  <2>2. Own(k, client', queue', ending', dead')
    <3> SUFFICES ASSUME NEW x \in client[k].sub
                 PROVE  /\ x \notin dead' /\ \A e \in ending' : e.sub # x
                        /\ \A i \in DOMAIN queue' : queue'[i].kind = "Unregister" => queue'[i].sub # x
                        /\ \A j \in Hashes : j # k => x \notin client'[j].sub
      BY <1>1, <1>3 DEF Own
    <3>1. /\ x \notin dead /\ \A e \in ending : e.sub # x
          /\ \A i \in DOMAIN queue : queue[i].kind = "Unregister" => queue[i].sub # x
          /\ \A j \in Hashes : j # k => x \notin client[j].sub
      BY <2>1 DEF Own
    <3>2. \A j \in Hashes : j # k => x \notin client'[j].sub
      BY <1>1, <1>3, <3>1
    <3>3. \A e \in ending' : e.sub # x
      BY <1>3, <3>1
    <3> QED BY <1>2, <3>1, <3>2, <3>3
  <2>3. PICK c : c = client[k]
    OBVIOUS
  <2>4. CASE queue' = queue
    BY <1>1, <1>3, <2>1, <2>2, <2>4, ZenonT(30)
  <2>5. CASE \E m \in Command : /\ queue' = Append(queue, m) /\ m.kind \in {"Register", "Update"}
                                /\ m.hash = h
    <3>1. PICK m \in Command : queue' = Append(queue, m) /\ ~Speaks(m, k)
      BY <1>3, <2>5 DEF Speaks
    <3>2. Asking(queue, k, c) => Asking(queue', k, c)
      BY <1>0, <3>1, SaysAppend, ZenonT(30)
    <3>3. Known(queue, planner.entries, k, c) => Known(queue', planner.entries, k, c)
      BY <1>0, <3>1, SaysAppend, ZenonT(30)
    <3>4. Placed(k, c, queue', planner.entries, subscribers)
      BY <2>1, <2>3, <3>2, <3>3, Zenon DEF Placed
    <3> QED BY <1>1, <1>3, <2>2, <2>3, <3>4, ZenonT(30)
  <2> QED BY <2>4, <2>5, ZenonT(30) DEF SpeaksFor
<1> QED BY <1>1, <1>2, <1>3, ZenonT(30)

LEMMA ClientTorrent ==
  ASSUME SetFacts, "early" \notin FaultKinds, DemandInv, ClientInv, Torrent
  PROVE  ClientInv'
<1>0. Types /\ queue \in Seq(Command) /\ client \in [Hashes -> Client] /\ Classes \in SUBSET Class
  BY DemandAssumption DEF DemandInv, Types
<1>1. PICK h \in Hashes :
        \/ start_dht_lookup_task(h) \/ register_demand(h) \/ Subscribed(h)
        \/ sync_dht_demand(h) \/ stop_dht_lookup_task(h)
  BY DEF Torrent
<1>2. PICK c \in Client : c = client[h]
  BY <1>0
<1>3. /\ Own(h, client, queue, ending, dead)
      /\ Placed(h, c, queue, planner.entries, subscribers)
  BY <1>2 DEF ClientInv
<1>4. \A x \in c.sub : \A k \in Hashes : k # h => x \notin client[k].sub
  BY <1>2, <1>3 DEF Own
<1>5. \A x : \A k \in Hashes : k # h => x \notin client[k].sub <=> ~(x \in client[k].sub)
  OBVIOUS
<1>6. CASE start_dht_lookup_task(h)
  <2>1. UNCHANGED <<planner, subscribers, dead, queue, ending>>
    BY <1>6 DEF start_dht_lookup_task, Elsewhere
  <2>2. PICK t \in Class : client' = [client EXCEPT ![h] =
                             [at |-> "spawned", sub |-> {}, class |-> t, initial |-> t]]
    BY <1>0, <1>6, Zenon DEF start_dht_lookup_task
  <2> DEFINE d == [at |-> "spawned", sub |-> {}, class |-> t, initial |-> t]
  <2>3. d \in Client /\ d.sub = {} /\ d.at = "spawned" /\ d.initial = d.class
    BY Opt DEF Client
  <2>4. client' = [client EXCEPT ![h] = d] /\ SpeaksFor(h)
    BY <2>1, <2>2 DEF SpeaksFor
  <2> HIDE DEF d
  <2>5. /\ \A k \in Hashes : k # h =>
              /\ Own(k, client', queue', ending', dead')
              /\ Placed(k, client'[k], queue', planner'.entries, subscribers')
        /\ client'[h] = d
    BY <2>1, <2>3, <2>4, ClientsElse, ZenonT(30)
  <2>6. Own(h, client', queue', ending', dead')
    BY <2>3, <2>5, Zenon DEF Own
  <2>7. Placed(h, client'[h], queue', planner'.entries, subscribers')
    BY <2>3, <2>5, ZenonT(30) DEF Placed
  <2> QED BY <2>5, <2>6, <2>7, Zenon DEF ClientInv
<1>7. CASE register_demand(h)
  <2>1. /\ UNCHANGED <<planner, subscribers, dead, ending>> /\ c.at = "spawned"
        /\ Subscribers \ Referred # {}
    BY <1>2, <1>7 DEF register_demand, Elsewhere
  <2>2. PICK x : x = Min(Subscribers \ Referred)
    OBVIOUS
  <2>3. /\ x \in Subscribers /\ x \notin dead
        /\ \A k \in Hashes : x \notin subscribers[k] /\ x \notin client[k].sub
        /\ \A e \in ending : e.sub # x
        /\ \A i \in DOMAIN queue : queue[i].kind \in {"Register", "Unregister"} => queue[i].sub # x
    BY <1>0, <2>1, <2>2, NewSub, Zenon
  <2> DEFINE m == [kind |-> "Register", hash |-> h, sub |-> x, class |-> c.initial]
             d == [c EXCEPT !.at = "asking", !.sub = {x}, !.initial = c.class]
  <2>4. queue' = Append(queue, m) /\ client' = [client EXCEPT ![h] = d]
    BY <1>0, <1>2, <1>7, <2>2, Zenon DEF register_demand, Send
  <2>5. m \in Command /\ m.kind = "Register" /\ m.sub = x /\ m.hash = h /\ m.class = c.initial
    BY <2>3 DEF Command, Client
  <2>6. d \in Client /\ d.at = "asking" /\ d.sub = {x} /\ d.class = c.class
    BY <2>3, Opt, ZenonT(30) DEF Client
  <2>7. c.initial = c.class
    BY <1>3, <2>1, Zenon DEF Placed
  <2> HIDE DEF m, d
  <2>8. SpeaksFor(h)
    BY <2>4, <2>5 DEF SpeaksFor
  <2>9. \A y \in d.sub : \A k \in Hashes : k # h => y \notin client[k].sub
    BY <2>3, <2>6
  <2>10. /\ \A k \in Hashes : k # h =>
              /\ Own(k, client', queue', ending', dead')
              /\ Placed(k, client'[k], queue', planner'.entries, subscribers')
         /\ \A i \in DOMAIN queue' : queue'[i].kind = "Unregister" =>
              \E j \in DOMAIN queue : queue'[i] = queue[j]
         /\ client'[h] = d /\ \A k \in Hashes : k # h => client'[k] = client[k]
    BY <2>1, <2>4, <2>6, <2>8, <2>9, ClientsElse, ZenonT(30)
  <2>11. Own(h, client', queue', ending', dead')
    <3>1. \A i \in DOMAIN queue' : queue'[i].kind = "Unregister" => queue'[i].sub # x
      <4> SUFFICES ASSUME NEW i \in DOMAIN queue', queue'[i].kind = "Unregister"
                   PROVE  queue'[i].sub # x
        OBVIOUS
      <4>1. PICK j \in DOMAIN queue : queue'[i] = queue[j]
        BY <2>10, Zenon
      <4>2. queue[j].kind \in {"Register", "Unregister"}
        BY <4>1, Zenon
      <4> QED BY <2>3, <4>1, <4>2, Zenon
    <3>2. x \notin dead' /\ \A e \in ending' : e.sub # x
      BY <2>1, <2>3, Zenon
    <3>3. \A k \in Hashes : k # h => x \notin client'[k].sub
      BY <2>3, <2>10, Zenon
    <3>4. client'[h].sub = {x}
      BY <2>6, <2>10, Zenon
    <3> QED BY <3>1, <3>2, <3>3, <3>4, Zenon DEF Own
  <2>12. Asking(queue', h, d)
    <3>1. Speaks(m, h) /\ IsRegister(m)
      BY <2>5 DEF Speaks, IsRegister
    <3>2. PICK n \in DOMAIN queue' :
            /\ queue'[n] = m /\ SaidLast(queue', h, n, m.class) /\ n \in Nat
            /\ DOMAIN queue' = DOMAIN queue \cup {n}
            /\ \A i \in DOMAIN queue : i < n /\ queue'[i] = queue[i]
      <4>1. \E n : SaidAt(Append(queue, m), queue, m, h, n)
        BY <1>0, <2>4, <2>5, <3>1, SaysNow, Zenon
      <4>2. \E n : SaidAt(queue', queue, m, h, n)
        BY <4>1, <2>4, Zenon
      <4> QED BY <4>2, Zenon DEF SaidAt
    <3>3. \A j \in DOMAIN queue' : j > n => ~(IsRegister(queue'[j]) /\ queue'[j].hash = h)
      <4>1. DOMAIN queue \in SUBSET Nat
        BY <1>0, <2>5, AppendIs
      <4> QED BY <3>2, <4>1
    <3>4. n >= n /\ SaidLast(queue', h, n, d.class)
      BY <2>5, <2>6, <2>7, <3>2
    <3> QED BY <2>5, <2>6, <3>1, <3>2, <3>3, <3>4, ZenonT(30) DEF Asking
  <2>13. Placed(h, client'[h], queue', planner'.entries, subscribers')
    BY <2>6, <2>10, <2>12, ZenonT(30) DEF Placed
  <2> QED BY <2>10, <2>11, <2>13, Zenon DEF ClientInv
<1>8. CASE Subscribed(h)
  <2>1. UNCHANGED <<planner, subscribers, dead, queue, ending>> /\ c.at = "answered"
    BY <1>2, <1>8 DEF Subscribed, Elsewhere
  <2> DEFINE d == [c EXCEPT !.at = "on"]
  <2>2. client' = [client EXCEPT ![h] = d] /\ SpeaksFor(h)
    BY <1>0, <1>2, <1>8, <2>1 DEF Subscribed, SpeaksFor
  <2>3. d \in Client /\ d.at = "on" /\ d.sub = c.sub /\ d.class = c.class
    BY DEF Client
  <2> HIDE DEF d
  <2>4. /\ \A k \in Hashes : k # h =>
              /\ Own(k, client', queue', ending', dead')
              /\ Placed(k, client'[k], queue', planner'.entries, subscribers')
        /\ client'[h] = d /\ \A k \in Hashes : k # h => client'[k] = client[k]
    BY <1>4, <2>1, <2>2, <2>3, ClientsElse, ZenonT(30)
  <2>5. Own(h, client', queue', ending', dead')
    BY <1>2, <1>3, <2>1, <2>3, <2>4 DEF Own
  <2>6. Placed(h, client'[h], queue', planner'.entries, subscribers')
    <3>1. (\E x \in subscribers[h] : c.sub = {x}) /\ Known(queue, planner.entries, h, c)
      BY <1>3, <2>1, ZenonT(30) DEF Placed
    <3>2. Known(queue, planner.entries, h, d)
      BY <2>3, <3>1, Zenon DEF Known
    <3> QED BY <2>1, <2>3, <2>4, <3>1, <3>2, ZenonT(30) DEF Placed
  <2> QED BY <2>4, <2>5, <2>6, Zenon DEF ClientInv
<1>9. CASE sync_dht_demand(h)
  <2>1. /\ UNCHANGED <<planner, subscribers, ending, dead>> /\ c.at # "off"
        /\ (IF c.at = "spawned" THEN "early" ELSE "demand") \in FaultKinds
    BY <1>2, <1>9 DEF sync_dht_demand, Elsewhere, Fault
  <2>2. c.at \in {"asking", "answered", "on"}
    BY <2>1 DEF Client
  <2>3. PICK t \in Class :
          /\ client' = [client EXCEPT ![h].class = t,
               ![h].initial = IF client[h].at = "spawned" THEN @ ELSE t]
          /\ queue' = Append(queue, [kind |-> "Update", hash |-> h, class |-> t])
    BY <1>0, <1>9, Zenon DEF sync_dht_demand, Send
  <2> DEFINE m == [kind |-> "Update", hash |-> h, class |-> t]
             d == [c EXCEPT !.class = t, !.initial = IF c.at = "spawned" THEN @ ELSE t]
  <2>4. client' = [client EXCEPT ![h] = d] /\ queue' = Append(queue, m)
    BY <1>0, <1>2, <2>3, Zenon
  <2>5. d \in Client /\ d.at = c.at /\ d.sub = c.sub /\ d.class = t
    BY Zenon DEF Client
  <2>6. m \in Command /\ m.kind = "Update" /\ m.hash = h /\ m.class = t
    BY DEF Command
  <2> HIDE DEF m, d
  <2>7. SpeaksFor(h)
    BY <2>4, <2>6 DEF SpeaksFor
  <2>8. /\ \A k \in Hashes : k # h =>
              /\ Own(k, client', queue', ending', dead')
              /\ Placed(k, client'[k], queue', planner'.entries, subscribers')
        /\ \A i \in DOMAIN queue' : queue'[i].kind = "Unregister" =>
             \E j \in DOMAIN queue : queue'[i] = queue[j]
        /\ client'[h] = d /\ \A k \in Hashes : k # h => client'[k] = client[k]
    BY <1>4, <2>1, <2>4, <2>5, <2>7, ClientsElse, ZenonT(30)
  <2>9. Own(h, client', queue', ending', dead')
    BY <1>2, <1>3, <2>1, <2>5, <2>8, ZenonT(30) DEF Own
  <2>10. Speaks(m, h) /\ ~IsRegister(m)
    BY <2>6 DEF Speaks, IsRegister
  <2>11. PICK n \in DOMAIN queue' :
          /\ queue'[n] = m /\ SaidLast(queue', h, n, m.class) /\ n \in Nat
          /\ DOMAIN queue' = DOMAIN queue \cup {n}
          /\ \A i \in DOMAIN queue : i < n /\ queue'[i] = queue[i]
    <3>1. \E n : SaidAt(Append(queue, m), queue, m, h, n)
      BY <1>0, <2>4, <2>6, <2>10, SaysNow, Zenon
    <3>2. \E n : SaidAt(queue', queue, m, h, n)
      BY <3>1, <2>4, Zenon
    <3> QED BY <3>2, Zenon DEF SaidAt
  <2>12. DOMAIN queue \in SUBSET Nat
    BY <1>0, <2>6, AppendIs
  <2>13. c.at = "asking" => Asking(queue', h, d)
    <3> SUFFICES ASSUME Asking(queue, h, c) PROVE Asking(queue', h, d)
      BY <1>3 DEF Placed
    <3>1. PICK i \in DOMAIN queue :
            /\ IsRegister(queue[i]) /\ queue[i].hash = h /\ c.sub = {queue[i].sub}
            /\ \A j \in DOMAIN queue : j > i => ~(IsRegister(queue[j]) /\ queue[j].hash = h)
      BY DEF Asking
    <3>2. \A j \in DOMAIN queue' : j > i => ~(IsRegister(queue'[j]) /\ queue'[j].hash = h)
      BY <2>10, <2>11, <3>1, ZenonT(30)
    <3>3. i \in DOMAIN queue' /\ queue'[i] = queue[i] /\ n >= i
      BY <2>11, <2>12
    <3>4. SaidLast(queue', h, n, d.class)
      BY <2>5, <2>6, <2>11
    <3> QED BY <2>5, <3>1, <3>2, <3>3, <3>4, ZenonT(30) DEF Asking
  <2>14. ASSUME c.at \in {"answered", "on"}
         PROVE  (\E x \in subscribers'[h] : d.sub = {x}) /\ Known(queue', planner'.entries, h, d)
    <3>1. (\E x \in subscribers[h] : c.sub = {x}) /\ Known(queue, planner.entries, h, c)
      BY <1>3, <2>14, ZenonT(30) DEF Placed
    <3>2. \A j \in DOMAIN queue' : ~(IsRegister(queue'[j]) /\ queue'[j].hash = h)
      BY <2>10, <2>11, <3>1, Zenon DEF Known
    <3>3. SaidLast(queue', h, n, d.class)
      BY <2>5, <2>6, <2>11
    <3>4. Known(queue', planner'.entries, h, d)
      BY <3>2, <3>3 DEF Known
    <3> QED BY <2>1, <2>5, <3>1, <3>4
  <2>15. Placed(h, d, queue', planner'.entries, subscribers')
    BY <2>2, <2>5, <2>13, <2>14, ZenonT(30) DEF Placed
  <2> QED BY <2>8, <2>9, <2>15, Zenon DEF ClientInv
<1>10. CASE stop_dht_lookup_task(h)
  <2>1. /\ UNCHANGED <<planner, subscribers, queue, dead>>
        /\ client' = [client EXCEPT ![h] = NoClient]
        /\ ending' = ending \cup
             {[hash |-> h, sub |-> x, subscribed |-> client[h].at = "on"] : x \in client[h].sub}
    BY <1>10 DEF stop_dht_lookup_task, Elsewhere
  <2>2. NoClient \in Client /\ NoClient.sub = {} /\ NoClient.at = "off"
    BY Opt DEF NoClient, Client, Class
  <2>3. \A e \in ending' : e \in ending \/ e.sub \in client[h].sub
    BY <2>1
  <2>4. SpeaksFor(h) /\ \A x \in NoClient.sub : \A k \in Hashes : k # h => x \notin client[k].sub
    BY <2>1, <2>2, Zenon DEF SpeaksFor
  <2>5. /\ \A k \in Hashes : k # h =>
              /\ Own(k, client', queue', ending', dead')
              /\ Placed(k, client'[k], queue', planner'.entries, subscribers')
        /\ client'[h] = NoClient
    BY <2>1, <2>2, <2>3, <2>4, ClientsElse, ZenonT(30)
  <2>6. /\ Own(h, client', queue', ending', dead')
        /\ Placed(h, client'[h], queue', planner'.entries, subscribers')
    BY <2>2, <2>5, Zenon DEF Own, Placed
  <2> QED BY <2>5, <2>6, Zenon DEF ClientInv
<1> QED BY <1>1, <1>6, <1>7, <1>8, <1>9, <1>10

LEMMA ClientDropped ==
  ASSUME DemandInv, ClientInv, NEW e \in ending, TaskDropped(e)
  PROVE  ClientInv'
<1>0. queue \in Seq(Command) /\ ending \in SUBSET Ending
  BY DEF DemandInv, Types
<1>1. /\ UNCHANGED <<planner, subscribers, client>>
      /\ ending' = ending \ {e} /\ dead' = dead \cup {e.sub}
  BY DEF TaskDropped, Elsewhere
<1>2. e.hash \in Hashes /\ e.sub \in Subscribers
  BY <1>0 DEF Ending
<1> DEFINE m == [kind |-> "Unregister", hash |-> e.hash, sub |-> e.sub]
<1>3. queue' = queue \/ queue' = Append(queue, m)
  BY DEF TaskDropped, Send
<1>4. m \in Command /\ m.kind = "Unregister" /\ m.sub = e.sub
  BY <1>2 DEF Command
<1> HIDE DEF m
<1>5. \A i \in DOMAIN queue' : queue'[i] = m \/ \E j \in DOMAIN queue : queue'[i] = queue[j]
  <2>1. CASE queue' = queue
    BY <2>1
  <2>2. CASE queue' = Append(queue, m)
    BY <1>0, <1>4, <2>2, AppendIs
  <2> QED BY <1>3, <2>1, <2>2
<1> SUFFICES ASSUME NEW h \in Hashes
             PROVE  /\ Own(h, client', queue', ending', dead')
                    /\ Placed(h, client'[h], queue', planner'.entries, subscribers')
  BY Zenon DEF ClientInv
<1>6. /\ Own(h, client, queue, ending, dead)
      /\ Placed(h, client[h], queue, planner.entries, subscribers)
  BY DEF ClientInv
<1>7. Own(h, client', queue', ending', dead')
  <2> SUFFICES ASSUME NEW x \in client[h].sub
               PROVE  /\ x \notin dead' /\ \A f \in ending' : f.sub # x
                      /\ \A i \in DOMAIN queue' : queue'[i].kind = "Unregister" => queue'[i].sub # x
                      /\ \A k \in Hashes : k # h => x \notin client'[k].sub
    BY <1>1 DEF Own
  <2>1. /\ x \notin dead /\ \A f \in ending : f.sub # x
        /\ \A i \in DOMAIN queue : queue[i].kind = "Unregister" => queue[i].sub # x
        /\ \A k \in Hashes : k # h => x \notin client[k].sub
    BY <1>6 DEF Own
  <2> QED BY <1>1, <1>4, <1>5, <2>1
<1>8. Placed(h, client[h], queue', planner.entries, subscribers)
  <2>1. CASE queue' = queue
    BY <1>6, <2>1
  <2>2. CASE queue' = Append(queue, m)
    <3>1. ~Speaks(m, h)
      BY <1>4 DEF Speaks
    <3>2. PICK c : c = client[h]
      OBVIOUS
    <3>3. Asking(queue, h, c) => Asking(queue', h, c)
      BY <1>0, <1>4, <2>2, <3>1, SaysAppend
    <3>4. Known(queue, planner.entries, h, c) => Known(queue', planner.entries, h, c)
      BY <1>0, <1>4, <2>2, <3>1, SaysAppend, Zenon
    <3> QED BY <1>6, <3>2, <3>3, <3>4, Zenon DEF Placed
  <2> QED BY <1>3, <2>1, <2>2
<1> QED BY <1>1, <1>7, <1>8

(* Subscribers are removed, but none of a running task.                    *)
LEMMA ClientRemoved ==
  ASSUME SetFacts, DemandInv, DemandInv', ClientInv, UnregisterDemand \/ \E g \in Hashes : DemandPeers(g)
  PROVE  ClientInv'
<1>0. client' = client /\ ending' = ending
  BY Zenon DEF UnregisterDemand, DemandPeers
<1>1. PICK g \in Hashes : \E gone \in SUBSET subscribers[g] :
        /\ Removed(g, gone) /\ dead' = dead \ gone /\ Passes
        /\ \A x \in client[g].sub : x \notin gone
  <2>1. CASE UnregisterDemand
    <3> DEFINE m == Head(queue)
    <3>1. Receive("Unregister") /\ RemoveSubscribers(m.hash, {m.sub} \cap subscribers[m.hash])
      BY <2>1 DEF UnregisterDemand
    <3>2. /\ m \in Command /\ m.kind = "Unregister" /\ m = queue[1] /\ 1 \in DOMAIN queue
          /\ queue # <<>> /\ queue' = Tail(queue)
      BY <3>1, Received
    <3>3. m.hash \in Hashes
      BY <3>2, CommandIs
    <3>4. Removed(m.hash, {m.sub} \cap subscribers[m.hash])
      BY <2>1, UnregisterStep
    <3>5. dead' = dead \ ({m.sub} \cap subscribers[m.hash])
      BY <3>1 DEF RemoveSubscribers
    <3>6. Passes
      BY <3>2 DEF Passes
    <3> HIDE DEF m
    <3>7. \A x \in client[m.hash].sub : x # m.sub
      BY <3>2, <3>3 DEF ClientInv, Own
    <3>8. \A x \in client[m.hash].sub : x \notin {m.sub} \cap subscribers[m.hash]
      BY <3>7
    <3>9. {m.sub} \cap subscribers[m.hash] \in SUBSET subscribers[m.hash]
      OBVIOUS
    <3> QED BY <3>3, <3>4, <3>5, <3>6, <3>8, <3>9
  <2>2. CASE \E g \in Hashes : DemandPeers(g)
    <3>1. PICK g \in Hashes : DemandPeers(g)
      BY <2>2
    <3>2. Removed(g, subscribers[g] \cap dead)
      BY <3>1, PeersStep
    <3>3. dead' = dead \ (subscribers[g] \cap dead) /\ Passes
      BY <3>1 DEF DemandPeers, RemoveSubscribers, Passes
    <3>4. \A x \in client[g].sub : x \notin subscribers[g] \cap dead
      BY DEF ClientInv, Own
    <3>5. subscribers[g] \cap dead \in SUBSET subscribers[g]
      OBVIOUS
    <3> QED BY <3>2, <3>3, <3>4, <3>5
  <2> QED BY <2>1, <2>2
<1>2. PICK gone \in SUBSET subscribers[g] :
        /\ Removed(g, gone) /\ dead' = dead \ gone /\ Passes
        /\ \A x \in client[g].sub : x \notin gone
  BY <1>1
<1>4. SameClasses /\ StillIn
  BY <1>2, Zenon DEF Removed, SameClasses, StillIn
<1>3. dead' \in SUBSET dead /\ ending' \in SUBSET ending
  BY <1>0, <1>2, Zenon
<1> QED BY <1>0, <1>2, <1>3, <1>4, ClientKept

LEMMA KeepsClasses ==
  ASSUME Keeps(planner.entries, planner'.entries)
  PROVE  SameClasses
  BY DEF Keeps, SameClasses

(* Every other step leaves the classes, the subscribers and what the       *)
(* torrents have said as they are.                                         *)
LEMMA ClientOther ==
  ASSUME SetFacts, DemandInv, DemandInv', ClientInv,
         \/ DemandLookupFinished \/ ParkDemandLookups \/ StartGetPeersFamily \/ Reconfigure
         \/ StartDueDemands \/ DrainTick \/ FinalizeDrainedDemandLookups
         \/ SliceTask \/ RuntimeStep \/ TimePasses \/ ConfigChanged \/ UNCHANGED vars
  PROVE  ClientInv'
<1>0. planner' = planner => Keeps(planner.entries, planner'.entries)
  BY DEF Keeps
<1>1. planner'.entries = planner.entries => Keeps(planner.entries, planner'.entries)
  BY Zenon DEF Keeps
<1>2. /\ UNCHANGED <<subscribers, client, ending, dead>> /\ Passes
      /\ Keeps(planner.entries, planner'.entries)
  <2>1. CASE DemandLookupFinished
    BY <2>1, FinishedStep DEF DemandLookupFinished, Receive, torrents, Passes
  <2>2. CASE ParkDemandLookups
    BY <2>2, ParkStep, Zenon DEF ParkDemandLookups, Receive, torrents, Passes
  <2>3. CASE StartGetPeersFamily
    BY <1>0, <2>3 DEF StartGetPeersFamily, Receive, torrents, Passes
  <2>4. CASE Reconfigure
    BY <2>4, ReconfigureStep DEF Reconfigure, Receive, torrents, Passes
  <2>5. CASE PlanDue
    BY <2>5, PlanStep, ZenonT(30) DEF PlanDue, torrents, Passes
  <2>6. CASE \E h \in Hashes : StartLookup(h)
    BY <2>6, StartedStep, ZenonT(30) DEF StartLookup, torrents, Passes
  <2>7. CASE DrainTick
    BY <2>7, DrainsStep, Zenon DEF DrainTick, FinalizeDrains, torrents, Passes
  <2>8. CASE FinalizeDrainedDemandLookups
    BY <2>8, DrainsStep, Zenon DEF FinalizeDrainedDemandLookups, FinalizeDrains, torrents, Passes
  <2>9. CASE SliceTask
    <3>1. PICK s \in DOMAIN slices : StopSlice(s) \/ SliceFinishes(s) \/ HedgeDelayOver(s)
      BY <2>9 DEF SliceTask
    <3>2. UNCHANGED <<planner, subscribers, client, ending, dead>>
      BY <3>1 DEF StopSlice, SliceFinishes, HedgeDelayOver, Elsewhere, torrents
    <3>3. s \in Slices
      BY DEF DemandInv, Types, IsSlices
    <3>4. \E k \in {"Park", "Finished", "Family"} : queue' = Append(queue, [kind |-> k, slice |-> s])
      BY <3>1 DEF StopSlice, SliceFinishes, HedgeDelayOver, Send
    <3>5. PICK k \in {"Park", "Finished", "Family"} :
            queue' = Append(queue, [kind |-> k, slice |-> s])
      BY <3>4
    <3> DEFINE m == [kind |-> k, slice |-> s]
    <3>6. m \in Command /\ m.kind = k
      BY <3>3, Zenon DEF Command
    <3>7. queue' = Append(queue, m)
      BY <3>5
    <3> HIDE DEF m
    <3>8. Passes
      BY <3>6, <3>7 DEF Passes
    <3> QED BY <1>0, <3>2, <3>8
  <2>10. CASE RuntimeStep
    BY <1>0, <2>10 DEF RuntimeStep, LookupEnds, LookupCloses, Elsewhere, torrents, Passes
  <2>11. CASE \E h \in DOMAIN planner.entries : DueTimeComes(h)
    BY <2>11, DueStep, Zenon DEF DueTimeComes, Elsewhere, torrents, Passes
  <2>12. CASE \E c \in Class : TokensRefill(c)
    BY <1>1, <2>12, RefillStep DEF TokensRefill, Elsewhere, torrents, Passes
  <2>13. CASE ConfigChanged
    <3>1. /\ UNCHANGED <<planner, subscribers, client, ending, dead>>
          /\ queue' = Append(queue, [kind |-> "Reconfigure"])
      BY <2>13 DEF ConfigChanged, Elsewhere, Send, torrents
    <3>2. PICK m : m = [kind |-> "Reconfigure"]
      BY Zenon
    <3>3. m \in Command /\ m.kind = "Reconfigure"
      BY <3>2 DEF Command
    <3> QED BY <1>0, <3>1, <3>2, <3>3 DEF Passes
  <2>14. CASE UNCHANGED vars
    BY <1>0, <2>14 DEF vars, service, torrents, Passes
  <2> QED BY <2>1, <2>2, <2>3, <2>4, <2>5, <2>6, <2>7, <2>8, <2>9, <2>10, <2>11, <2>12, <2>13,
             <2>14 DEF StartDueDemands, TimePasses
<1>3. SameClasses /\ StillIn
  BY <1>2, KeepsClasses, Zenon DEF StillIn
<1>4. ending' \in SUBSET ending /\ dead' \in SUBSET dead
  BY <1>2
<1> QED BY <1>2, <1>3, <1>4, ClientKept

LEMMA ClientNext ==
  ASSUME SetFacts, "early" \notin FaultKinds, DemandInv, ClientInv, [Next]_vars
  PROVE  ClientInv'
<1>1. DemandInv'
  BY DemandNext
<1>2. CASE RegisterDemand
  BY <1>2, ClientRegister
<1>3. CASE UpdateDemand
  BY <1>3, ClientUpdate
<1>4. CASE UnregisterDemand \/ \E h \in Hashes : DemandPeers(h)
  BY <1>1, <1>4, ClientRemoved
<1>5. CASE Torrent
  BY <1>5, ClientTorrent
<1>6. CASE \E e \in ending : TaskDropped(e)
  BY <1>6, ClientDropped
<1>7. CASE \/ DemandLookupFinished \/ ParkDemandLookups \/ StartGetPeersFamily \/ Reconfigure
           \/ StartDueDemands \/ DrainTick \/ FinalizeDrainedDemandLookups
           \/ SliceTask \/ RuntimeStep \/ TimePasses \/ ConfigChanged \/ UNCHANGED vars
  BY <1>1, <1>7, ClientOther
<1> QED BY <1>2, <1>3, <1>4, <1>5, <1>6, <1>7 DEF Next, HandleCommand

LEMMA ClientInit ==
  ASSUME Init
  PROVE  ClientInv
<1>1. client = [h \in Hashes |-> NoClient] /\ NoClient.sub = {} /\ NoClient.at = "off"
  BY DEF Init, NoClient
<1>2. \A h \in Hashes : client[h].sub = {} /\ client[h].at = "off"
  BY <1>1
<1> QED BY <1>2 DEF ClientInv, Own, Placed

-----------------------------------------------------------------------------
(* The theorems.                                                           *)

INSTANCE FiniteSetTheorems

LEMMA SetFactsHold == SetFacts
<1>1. \A T \in SUBSET Nat : T # {} => \E m \in T : \A k \in T : m <= k
  <2> SUFFICES ASSUME NEW T \in SUBSET Nat, T # {}
               PROVE  \E m \in T : \A k \in T : m <= k
    OBVIOUS
  <2> DEFINE R == OpToRel(<, Nat)
  <2>1. IsWellFoundedOn(R, Nat)
    BY NatLessThanWellFounded, Zenon
  <2>2. \A x, y \in Nat : <<y, x>> \in R <=> y < x
    BY DEF OpToRel
  <2> HIDE DEF R
  <2>3. PICK m \in T : \A k \in T : ~(<<k, m>> \in R)
    BY <2>1, WFMin, Zenon
  <2>4. ASSUME NEW k \in T PROVE m <= k
    <3>1. m \in Nat /\ k \in Nat
      BY Zenon
    <3>2. ~(k < m)
      BY <2>2, <2>3, <3>1, Zenon
    <3> QED BY <3>1, <3>2, SMT
  <2> QED BY <2>4
<1>2. IsFiniteSet({}) /\ Cardinality({}) = 0
  BY FS_EmptySet, Zenon
<1>3. ASSUME NEW S, IsFiniteSet(S)
      PROVE  /\ Cardinality(S) \in Nat
             /\ \A T \in SUBSET S : /\ IsFiniteSet(T) /\ Cardinality(T) <= Cardinality(S)
                                    /\ Cardinality(S) = Cardinality(T) => S = T
  BY <1>3, FS_CardinalityType, FS_Subset, Zenon
<1>4. ASSUME NEW S, IsFiniteSet(S), NEW x
      PROVE  /\ IsFiniteSet(S \cup {x})
             /\ x \notin S => Cardinality(S \cup {x}) = Cardinality(S) + 1
  BY <1>4, FS_AddElement, Zenon
<1>5. ASSUME NEW S, IsFiniteSet(S), NEW T
      PROVE  Cardinality(S \ T) = Cardinality(S) - Cardinality(S \cap T)
  BY <1>5, FS_Difference, Zenon
<1>6. ASSUME NEW S, IsFiniteSet(S), NEW T, IsFiniteSet(T)
      PROVE  Cardinality(S \cup T) = Cardinality(S) + Cardinality(T) - Cardinality(S \cap T)
  BY <1>6, FS_Union, Zenon
<1> QED BY <1>1, <1>2, <1>3, <1>4, <1>5, <1>6, Zenon DEF SetFacts

(* The inductive invariant holds: registrations, goodbyes, finished,       *)
(* parked and drained lookups, plans, starts and rebuilds of the runtime,  *)
(* in any order, keep the planner, the registry, the slices and the queue  *)
(* of the DHT service in step.                                             *)
THEOREM DemandInvariant == Spec => []DemandInv
<1>1. Init => DemandInv
  BY DemandInit, SetFactsHold
<1>2. DemandInv /\ [Next]_vars => DemandInv'
  BY DemandNext, SetFactsHold
<1> QED BY <1>1, <1>2, PTL DEF Spec

(* Every variable keeps its type: what the planner has active is always a  *)
(* slice that has not been let go, whatever replaced or finished it, and   *)
(* launch tokens are never spent below zero.                               *)
THEOREM TypeCorrect == Spec => []TypeOK
  BY DemandInvariant, InvTyped, PTL

(* For any number of torrents and subscriptions, the planner's subscriber  *)
(* count is that of the registry under every order of registrations,       *)
(* goodbyes, dropped tasks and prunes at delivery.                         *)
THEOREM SubscriberCountExactAlways == Spec => []SubscriberCountExact
<1>1. DemandInv => SubscriberCountExact
  BY ZenonT(30) DEF DemandInv, Counted, SubscriberCountExact
<1> QED BY <1>1, DemandInvariant, PTL

(* No demand is ever left in progress with nothing behind it that could    *)
(* finish it, rebuilds of the runtime and commands of replaced slices      *)
(* included.                                                               *)
THEOREM InProgressTrackedAlways == Spec => []InProgressTracked
<1>1. DemandInv => InProgressTracked
  BY Zenon DEF DemandInv, Followed, Behind, InProgressTracked
<1> QED BY <1>1, DemandInvariant, PTL

(* Active and starting slices keep to the slots and to the caps of their   *)
(* classes, for any number of slots, of which the runs have one.           *)
THEOREM SlotsRespectedAlways == Spec => []SlotsRespected
<1>1. ASSUME DemandInv PROVE SlotsRespected
  <2>1. /\ Cardinality(Busy(planner)) <= SlotCount
        /\ \A c \in Class : Cardinality(BusyIn(planner, slices, c)) <= ClassCap[c]
    BY <1>1 DEF DemandInv, Slotted
  <2>2. Tracked(planner.active) \cup Tracked(planner.pending_starts) = Busy(planner)
    BY DEF Tracked, Busy
  <2>3. \A c \in Class :
          ActiveOf(planner, c) \cup {h \in Hashes : c \in planner.pending_starts[h]}
            = BusyIn(planner, slices, c)
    BY DEF ActiveOf, BusyIn
  <2> QED BY <2>1, <2>2, <2>3, Zenon DEF SlotsRespected
<1> QED BY <1>1, DemandInvariant, PTL

(* A torrent whose registration was answered stays known to the planner,   *)
(* with the class its manager reported last as soon as its updates are     *)
(* through, provided no update is sent before the task's first poll: the   *)
(* goodbyes and updates of earlier tasks never undo the registration.      *)
THEOREM ClassFollowsAlways ==
  ASSUME "early" \notin FaultKinds
  PROVE  Spec => []ClassFollows
<1>1. Init => ClientInv
  BY ClientInit
<1>2. DemandInv /\ ClientInv /\ [Next]_vars => ClientInv'
  BY ClientNext, SetFactsHold
<1>3. ASSUME ClientInv PROVE ClassFollows
  <2> SUFFICES ASSUME NEW h \in Hashes, client[h].at \in {"answered", "on"},
                      \A i \in DOMAIN queue : queue[i].kind = "Update" => queue[i].hash # h
               PROVE  /\ h \in DOMAIN planner.entries
                      /\ planner.entries[h].class = client[h].class
    BY DEF ClassFollows
  <2>1. Known(queue, planner.entries, h, client[h])
    BY <1>3 DEF ClientInv, Placed
  <2>2. \A j \in DOMAIN queue : ~Speaks(queue[j], h)
    BY <2>1 DEF Known, Speaks, IsRegister
  <2> QED BY <2>1, <2>2, ZenonT(30) DEF Known, SaidLast
<1> QED BY <1>1, <1>2, <1>3, DemandInvariant, PTL DEF Spec
=============================================================================
