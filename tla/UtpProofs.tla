----------------------------- MODULE UtpProofs ------------------------------
(***************************************************************************)
(* Proofs about the uTP connection, for any streams, first sequence        *)
(* numbers, packet sizes, windows, buffers, budgets and faults: what an    *)
(* application is given is what the other one wrote, in order and each     *)
(* byte once; a byte that a driver has read is with it until the other end *)
(* has it; and a connection that ends without an error has carried         *)
(* everything. The one assumption is ShortStreams: the 16-bit sequence     *)
(* numbers tell packets apart only if none arrives half the number space   *)
(* late, and here a packet may be late without limit.                      *)
(***************************************************************************)
EXTENDS Utp, UtpDriverProofs

USE ZenonT(60)

(* Few enough packets: every packet but the FIN carries a byte.            *)
ShortStreams == \A e \in Ends : Wrote[e] + 2 <= Half

---------------------------------------------------------------------------
(* The connection.  g gives for either end the history of the direction it *)
(* sends in.                                                               *)

(* The two ends, and functions on them.                                    *)
LEMMA TwoEnds ==
  ASSUME NEW e \in Ends
  PROVE  /\ Other(e) \in Ends /\ Other(e) # e /\ Other(Other(e)) = e
         /\ \A x \in Ends : x = e \/ x = Other(e)
  BY DEF Ends, Other

OnEnds(f) == \E S : f \in [Ends -> S]

(* f2 is f but for its value at e.                                         *)
Put(f2, f, e, v) == OnEnds(f2) /\ f2[e] = v /\ f2[Other(e)] = f[Other(e)]

LEMMA Putting ==
  ASSUME NEW f, NEW e \in Ends, NEW v, OnEnds(f)
  PROVE  Put([f EXCEPT ![e] = v], f, e, v)
<1>1. PICK S : f \in [Ends -> S]
  BY DEF OnEnds
<1>2. PICK f2 : f2 = [f EXCEPT ![e] = v]
  OBVIOUS
<1>3. f2 \in [Ends -> S \cup {v}]
  BY <1>1, <1>2
<1>4. f2[e] = v /\ f2[Other(e)] = f[Other(e)]
  BY <1>1, <1>2, TwoEnds
<1> QED BY <1>2, <1>3, <1>4 DEF Put, OnEnds

PacketTo(e, p, g) ==
  \/ p.type = IF e = "server" THEN "SYN" ELSE "RESET"
  \/ Sent(p, g[Other(e)], g[e])

Underway(n, l, g) ==
  \A e \in Ends : /\ IsSeq(n[e])
                  /\ \A p : p \in Range(n[e]) \/ p \in l[e] => PacketTo(e, p, g)

(* One end: its driver's state, what the driver has read from its          *)
(* application, and what it has written to it.                             *)
AtEnd(e, ph, d, total, rcv, g) ==
  /\ WellFormed(g[e], total) /\ total <= Wrote[e] /\ Stopped(g[e])
  /\ DOMAIN d = DriverFields
  /\ rcv = Span(0, g[Other(e)].cut[g[Other(e)].r])
  /\ ph = "open" => SendSide(d, g[e], total) /\ RecvSide(d, g[Other(e)])
  /\ ph # "open" => ~d.remote_eof
  /\ ph = "done" => g[e].r = g[e].n /\ g[e].cut[g[e].n] = total

(* The listener's answer to the SYN.                                       *)
Answer(p, g) ==
  /\ p.type = "STATE" /\ p.seq = Nr(g["server"].base, 1) /\ p.ack = ClientSeq
  /\ p.sack = {}

(* The client has not heard the answer yet.                                *)
Unheard(ph, d, tc, n, l, g) ==
  /\ g["client"].n = 0 /\ tc = 0 /\ g["server"].r = 0 /\ g["server"].h = {}
  /\ \A p : p \in Range(n["server"]) \/ p \in l["server"] => p.type = "SYN"
  /\ \A p : p \in Range(n["client"]) \/ p \in l["client"] =>
              (p.type = "STATE" => p.seq = Nr(g["server"].base, 1))
  /\ ph["server"] = "open" => d["server"].acks = 0

Opening(ph, d, tc, n, l, resp, g) ==
  /\ g["client"].base = ClientSeq
  /\ IsSeq(resp) /\ \A p \in Range(resp) : Answer(p, g)
  /\ ph["client"] = "syn" => Unheard(ph, d, tc, n, l, g)

Linked(ph, d, tots, rcs, n, l, resp, g) ==
  /\ \A e \in Ends : AtEnd(e, ph[e], d[e], tots[e], rcs[e], g)
  /\ Underway(n, l, g)
  /\ Opening(ph, d, tots["client"], n, l, resp, g)

IsLinked(ph, d, tots, rcs, n, l, resp) ==
  \E g : Linked(ph, d, tots, rcs, n, l, resp, g)

---------------------------------------------------------------------------
(* Sending adds packets to what is under way, or drops what is.            *)
Adds(n2, n, x, packets) ==
  /\ OnEnds(n2)
  /\ \A y \in Ends :
       /\ IsSeq(n2[y])
       /\ \A p \in Range(n2[y]) : p \in Range(n[y]) \/ (y = x /\ p \in Range(packets))

(* Packets sent, or dropped where there is no session.                     *)
LEMMA SendAdds ==
  ASSUME NEW n, NEW ph, NEW x, NEW packets, IsSeq(packets), \A y \in Ends : IsSeq(n[y])
  PROVE  Adds(Send(n, ph, x, packets), n, x, packets)
<1>1. PICK n2 : n2 = Send(n, ph, x, packets)
  OBVIOUS
<1>2. n2 = [y \in Ends |-> IF y = "client" /\ ph[y] \in {"done", "failed"} THEN <<>>
                           ELSE IF y = x THEN n[y] \o packets ELSE n[y]]
  BY <1>1 DEF Send
<1>3. OnEnds(n2)
  <2>1. PICK S : S = {n2[y] : y \in Ends}
    OBVIOUS
  <2>2. n2 \in [Ends -> S]
    BY <1>2, <2>1
  <2> QED BY <2>2 DEF OnEnds
<1>4. ASSUME NEW y \in Ends
      PROVE  /\ IsSeq(n2[y])
             /\ \A p \in Range(n2[y]) : p \in Range(n[y]) \/ (y = x /\ p \in Range(packets))
  <2>0. PICK a, b : a = n2[y] /\ b = n[y]
    OBVIOUS
  <2>1. a = <<>> \/ a = b \/ (y = x /\ a = b \o packets)
    BY <1>2, <2>0
  <2>2. IsSeq(<<>>) /\ Range(<<>>) = {}
    BY SeqEmpty
  <2>3. IsSeq(b) /\ IsSeq(b \o packets) /\ Range(b \o packets) = Range(b) \cup Range(packets)
    BY <2>0, SeqConcat
  <2>4. IsSeq(a) /\ \A p \in Range(a) : p \in Range(b) \/ (y = x /\ p \in Range(packets))
    <3>1. CASE a = <<>>
      BY <2>2, <3>1
    <3>2. CASE a = b
      BY <2>3, <3>2
    <3>3. CASE y = x /\ a = b \o packets
      BY <2>3, <3>3
    <3> QED BY <2>1, <3>1, <3>2, <3>3
  <2> QED BY <2>0, <2>4
<1> QED BY <1>1, <1>3, <1>4 DEF Adds

LEMMA UnderwayAdds ==
  ASSUME NEW n, NEW l, NEW g, NEW n2, NEW x, NEW packets,
         Underway(n, l, g), Adds(n2, n, x, packets), \A p \in Range(packets) : PacketTo(x, p, g)
  PROVE  Underway(n2, l, g)
  BY DEF Underway, Adds

(* The histories go on.                                                    *)
GoesOn(g, g2) ==
  \A e \in Ends : Kinds(g[e]) /\ Kinds(g2[e]) /\ Grown(g[e], g2[e])

(* Packets under way stay what they are, and the other end stays in        *)
(* agreement, when the histories go on.                                    *)
LEMMA UnderwayGrown ==
  ASSUME NEW n, NEW l, NEW g, NEW g2, Underway(n, l, g), GoesOn(g, g2)
  PROVE  Underway(n, l, g2)
<1>1. ASSUME NEW e \in Ends, NEW p, PacketTo(e, p, g) PROVE PacketTo(e, p, g2)
  <2>1. Other(e) \in Ends
    BY TwoEnds
  <2>2. /\ Kinds(g[e]) /\ Kinds(g2[e]) /\ Grown(g[e], g2[e])
        /\ Kinds(g[Other(e)]) /\ Kinds(g2[Other(e)]) /\ Grown(g[Other(e)], g2[Other(e)])
    BY <2>1 DEF GoesOn
  <2>3. Sent(p, g[Other(e)], g[e]) => Sent(p, g2[Other(e)], g2[e])
    BY <2>2, SentGrown
  <2> QED BY <1>1, <2>3 DEF PacketTo
<1> QED BY <1>1 DEF Underway

LEMMA AtEndGrown ==
  ASSUME NEW e \in Ends, NEW ph, NEW d, NEW total, NEW rcv, NEW g, NEW g2,
         AtEnd(e, ph, d, total, rcv, g), GoesOn(g, g2), WellFormed(g2[e], total), Stopped(g2[e]),
         g2[e].n = g[e].n,
         g2[Other(e)].r = g[Other(e)].r, g2[Other(e)].h = g[Other(e)].h,
         Taken(g[Other(e)])
  PROVE  AtEnd(e, ph, d, total, rcv, g2)
<1>1. PICK o : o = Other(e)
  OBVIOUS
<1>2. o \in Ends
  BY <1>1, TwoEnds
<1>3. /\ Kinds(g[e]) /\ Kinds(g2[e]) /\ Grown(g[e], g2[e])
      /\ Kinds(g[o]) /\ Kinds(g2[o]) /\ Grown(g[o], g2[o])
  BY <1>2 DEF GoesOn
<1>4. g[o].r \in 0 .. g[o].n
  <2>1. g[o].r \in Nat /\ g[o].n \in Nat /\ g[o].r <= g[o].n
    BY <1>1, <1>3 DEF Kinds, Taken
  <2> QED BY <2>1, SMT
<1>5. g2[o].cut[g2[o].r] = g[o].cut[g[o].r]
  <2>1. g2[o].cut[g[o].r] = g[o].cut[g[o].r]
    BY <1>3, <1>4 DEF Grown
  <2> QED BY <1>1, <2>1
<1>6. ph = "open" => SendSide(d, g2[e], total) /\ RecvSide(d, g2[o])
  BY <1>1, <1>3, SendGrown, RecvGrown DEF AtEnd
<1>7. ph = "done" => g2[e].r = g2[e].n /\ g2[e].cut[g2[e].n] = total
  <2>1. SUFFICES ASSUME ph = "done" PROVE g2[e].r = g2[e].n /\ g2[e].cut[g2[e].n] = total
    OBVIOUS
  <2>2. g[e].r = g[e].n /\ g[e].cut[g[e].n] = total
    BY <2>1 DEF AtEnd
  <2>3. /\ g[e].n \in Nat /\ g2[e].r \in Nat /\ g2[e].r <= g2[e].n /\ g[e].r <= g2[e].r
    BY <1>3 DEF Kinds, Grown, WellFormed, Taken
  <2>4. g2[e].r = g[e].n /\ g[e].n \in 0 .. g[e].n
    BY <2>2, <2>3, SMT
  <2>5. g2[e].cut[g[e].n] = g[e].cut[g[e].n]
    BY <1>3, <2>4 DEF Grown
  <2> QED BY <2>2, <2>4, <2>5
<1> QED BY <1>1, <1>5, <1>6, <1>7 DEF AtEnd

---------------------------------------------------------------------------
(* A driver's turn.                                                        *)

(* End e has done step s; the histories g already say what it took in.     *)
Stepped(e, s, ph, d, tots, rcs, rcv, n, l, resp, g) ==
  /\ ph[e] = "open"
  /\ AtEnd(Other(e), ph[Other(e)], d[Other(e)], tots[Other(e)], rcs[Other(e)], g)
  /\ WellFormed(g[e], tots[e]) /\ tots[e] <= Wrote[e] /\ Stopped(g[e])
  /\ Underway(n, l, g)
  /\ Opening(ph, d, tots["client"], n, l, resp, g)
  /\ s.err => AllSent(s.out, g[e], g[Other(e)])
              /\ rcs[e] = Span(0, g[Other(e)].cut[g[Other(e)].r])
  /\ ~s.err => StepOK(s, g[e], g[Other(e)], tots[e], rcv) /\ rcs[e] = rcv \o s.up
  /\ ph["client"] = "syn" => (~s.err => Mute(s)) /\ \A p \in Range(s.out) : p.type # "STATE"

(* The driver comes to the top of its loop as r.                           *)
Turned(e, s, r, ph, d, n, resp, ph2, d2, n2, resp2) ==
  /\ r = IF s.err THEN [s |-> s, done |-> FALSE] ELSE LoopTop(s)
  /\ Put(d2, d, e, IF s.err \/ r.done THEN Idle ELSE r.s.d)
  /\ Put(ph2, ph, e, IF s.err THEN "failed" ELSE IF r.done THEN "done" ELSE ph[e])
  /\ n2 = Send(n, ph2, Other(e), r.s.out)
  /\ resp2 = IF e = "server" /\ (s.err \/ r.done) THEN <<>> ELSE resp

LEMMA IdleFields == DOMAIN Idle = DriverFields /\ ~Idle.remote_eof
  BY DEF Idle, Driver, DriverFields

(* All was acknowledged, the FIN too: the other end has it all.            *)
LEMMA AllTaken ==
  ASSUME NEW d, NEW g, NEW total, WellFormed(g, total), Stopped(g), SendSide(d, g, total),
         d.unacked = <<>>, d.fin_sent
  PROVE  g.r = g.n /\ g.cut[g.n] = total
<1>1. g.fin
  BY DEF SendSide
<1>2. g.cut[g.n] = total
  BY <1>1 DEF WellFormed, Cuts
<1>3. Range(d.unacked) = {}
  BY SeqEmpty
<1>4. \A k \in 1 .. g.n : k \in g.h
  BY <1>3 DEF SendSide, Covered
<1>5. g.r \in Nat /\ g.n \in Nat /\ g.r <= g.n
  BY ShortDirection
<1>6. g.r + 1 \notin 1 .. g.n
  BY <1>4 DEF Stopped
<1> QED BY <1>2, <1>5, <1>6, SMT

(* The receivers take in nothing, the other end is as before, and while    *)
(* the client is still to hear the answer nothing that it may take for the *)
(* answer is sent.                                                         *)
Keeps(e, ph, ph2, d2, n, n2, out, resp, resp2, g, g2) ==
  /\ \A x \in Ends : g2[x].base = g[x].base /\ g2[x].r = g[x].r /\ g2[x].h = g[x].h
  /\ g2[Other(e)] = g[Other(e)] /\ ph2[Other(e)] = ph[Other(e)] /\ ph2[e] # "syn"
  /\ resp2 \in {<<>>, resp} /\ Adds(n2, n, Other(e), out)
  /\ ph["client"] = "syn" =>
       /\ \A p \in Range(out) : p.type # "STATE"
       /\ ph2[e] = "open" => d2[e].acks = 0

(* A driver's turn while the client may still be connecting.               *)
LEMMA OpeningTurn ==
  ASSUME NEW e \in Ends, NEW ph, NEW d, NEW tc, NEW n, NEW l, NEW resp, NEW g,
         NEW ph2, NEW d2, NEW n2, NEW resp2, NEW g2, NEW out,
         Opening(ph, d, tc, n, l, resp, g),
         Keeps(e, ph, ph2, d2, n, n2, out, resp, resp2, g, g2)
  PROVE  Opening(ph2, d2, tc, n2, l, resp2, g2)
<1>0. "client" \in Ends /\ "server" \in Ends /\ Other("client") = "server" /\ Other("server") = "client"
      /\ (e = "client" \/ e = "server") /\ "client" # "server"
  BY DEF Ends, Other
<1>a. g2[Other(e)] = g[Other(e)] /\ ph2[Other(e)] = ph[Other(e)] /\ (resp2 = <<>> \/ resp2 = resp)
  BY DEF Keeps
<1>1. g2["client"].base = ClientSeq /\ g2["server"].base = g["server"].base
  BY <1>0 DEF Opening, Keeps
<1>2. IsSeq(resp2) /\ \A p \in Range(resp2) : Answer(p, g2)
  <2>1. CASE resp2 = <<>>
    BY <2>1, SeqEmpty
  <2>2. CASE resp2 = resp
    BY <1>1, <2>2 DEF Opening, Answer
  <2> QED BY <1>a, <2>1, <2>2
<1>3. ASSUME ph2["client"] = "syn" PROVE Unheard(ph2, d2, tc, n2, l, g2)
  <2>1. e = "server" /\ Other(e) = "client" /\ ph["client"] = "syn"
    BY <1>0, <1>a, <1>3 DEF Keeps
  <2>2. Unheard(ph, d, tc, n, l, g)
    BY <2>1 DEF Opening
  <2>3. g2["client"].n = 0 /\ tc = 0 /\ g2["server"].r = 0 /\ g2["server"].h = {}
    BY <1>0, <1>a, <2>1, <2>2 DEF Unheard, Keeps
  <2>4. \A p : p \in Range(n2["server"]) \/ p \in l["server"] => p.type = "SYN"
    BY <1>0, <2>1, <2>2 DEF Unheard, Adds, Keeps
  <2>5. \A p : p \in Range(n2["client"]) \/ p \in l["client"] =>
                 (p.type = "STATE" => p.seq = Nr(g2["server"].base, 1))
    BY <1>0, <1>1, <2>1, <2>2 DEF Unheard, Adds, Keeps
  <2>6. ph2["server"] = "open" => d2["server"].acks = 0
    BY <2>1 DEF Keeps
  <2> QED BY <2>3, <2>4, <2>5, <2>6 DEF Unheard
<1> QED BY <1>1, <1>2, <1>3 DEF Opening

LEMMA TurnFailed ==
  ASSUME NEW e \in Ends, NEW s, NEW r, NEW ph, NEW d, NEW tots, NEW rcs, NEW rcv,
         NEW n, NEW l, NEW resp, NEW g, NEW ph2, NEW d2, NEW n2, NEW resp2,
         Stepped(e, s, ph, d, tots, rcs, rcv, n, l, resp, g),
         Turned(e, s, r, ph, d, n, resp, ph2, d2, n2, resp2), s.err
  PROVE  IsLinked(ph2, d2, tots, rcs, n2, l, resp2)
<1>0. PICK o : o = Other(e)
  OBVIOUS
<1>1. o \in Ends /\ o # e /\ Other(o) = e /\ \A x \in Ends : x = e \/ x = o
  BY <1>0, TwoEnds
<1>2. r.s = s
  BY DEF Turned
<1>3. /\ d2[e] = Idle /\ ph2[e] = "failed" /\ d2[o] = d[o] /\ ph2[o] = ph[o]
  BY <1>0 DEF Turned, Put
<1>4. AtEnd(o, ph2[o], d2[o], tots[o], rcs[o], g)
  BY <1>0, <1>3 DEF Stepped
<1>5. AtEnd(e, ph2[e], d2[e], tots[e], rcs[e], g)
  BY <1>3, IdleFields DEF Stepped, AtEnd
<1>6. AllSent(s.out, g[e], g[o]) /\ IsSeq(s.out)
  BY <1>0 DEF Stepped, AllSent
<1>7. Underway(n, l, g)
  BY DEF Stepped
<1>8. Adds(n2, n, o, s.out)
  <2>1. \A y \in Ends : IsSeq(n[y])
    BY <1>7 DEF Underway
  <2>2. n2 = Send(n, ph2, o, s.out)
    BY <1>0, <1>2 DEF Turned
  <2> QED BY <1>6, <2>1, <2>2, SendAdds
<1>9. \A p \in Range(s.out) : PacketTo(o, p, g)
  BY <1>1, <1>6 DEF PacketTo, AllSent
<1>10. Underway(n2, l, g)
  BY <1>7, <1>8, <1>9, UnderwayAdds
<1>11. Opening(ph2, d2, tots["client"], n2, l, resp2, g)
  <2>1. /\ Opening(ph, d, tots["client"], n, l, resp, g)
        /\ ph["client"] = "syn" => \A p \in Range(s.out) : p.type # "STATE"
    BY DEF Stepped
  <2>2. resp2 \in {<<>>, resp}
    BY DEF Turned
  <2>3. Keeps(e, ph, ph2, d2, n, n2, s.out, resp, resp2, g, g)
    BY <1>0, <1>3, <1>8, <2>1, <2>2 DEF Keeps
  <2> QED BY <2>1, <2>3, OpeningTurn
<1>12. \A x \in Ends : AtEnd(x, ph2[x], d2[x], tots[x], rcs[x], g)
  BY <1>1, <1>4, <1>5
<1> QED BY <1>10, <1>11, <1>12 DEF IsLinked, Linked

LEMMA TurnTaken ==
  ASSUME SetFacts, NEW e \in Ends, NEW s, NEW r, NEW ph, NEW d, NEW tots, NEW rcs, NEW rcv,
         NEW n, NEW l, NEW resp, NEW g, NEW ph2, NEW d2, NEW n2, NEW resp2,
         Stepped(e, s, ph, d, tots, rcs, rcv, n, l, resp, g),
         Turned(e, s, r, ph, d, n, resp, ph2, d2, n2, resp2), ~s.err
  PROVE  IsLinked(ph2, d2, tots, rcs, n2, l, resp2)
<1>0. PICK o : o = Other(e)
  OBVIOUS
<1>1. o \in Ends /\ o # e /\ Other(o) = e /\ \A x \in Ends : x = e \/ x = o
  BY <1>0, TwoEnds
<1>2. /\ WellFormed(g[e], tots[e]) /\ Stopped(g[e]) /\ tots[e] <= Wrote[e] /\ ph[e] = "open"
      /\ StepOK(s, g[e], g[o], tots[e], rcv) /\ rcs[e] = rcv \o s.up
      /\ AtEnd(o, ph[o], d[o], tots[o], rcs[o], g) /\ Underway(n, l, g)
  BY <1>0 DEF Stepped
<1>3. WellFormed(g[o], tots[o]) /\ Stopped(g[o])
  BY <1>2 DEF AtEnd
<1>4. r = LoopTop(s)
  BY DEF Turned
<1>5. /\ SentOn(s, r.s, g[e], g[o], tots[e], rcv)
      /\ r.done => r.s.d.unacked = <<>> /\ r.s.d.fin_sent
  BY <1>2, <1>3, <1>4, Topped
<1>6. PICK a : /\ Sends(g[e], a, tots[e]) /\ StepOK(r.s, a, g[o], tots[e], rcv)
               /\ r.s.up = s.up /\ (Mute(s) => Mute(r.s))
  BY <1>5 DEF SentOn
<1>7. PICK g2 : g2[e] = a /\ g2[o] = g[o]
  <2>1. PICK f : f = [x \in Ends |-> IF x = e THEN a ELSE g[o]]
    OBVIOUS
  <2>2. f[e] = a /\ f[o] = g[o]
    BY <1>1, <2>1
  <2> QED BY <2>2
<1>8. /\ WellFormed(a, tots[e]) /\ Grown(g[e], a) /\ a.r = g[e].r /\ a.h = g[e].h
      /\ Kinds(a) /\ Kinds(g[e]) /\ Kinds(g[o]) /\ Taken(g[e])
  BY <1>2, <1>3, <1>6 DEF Sends, WellFormed
<1>9. GoesOn(g, g2)
  BY <1>1, <1>7, <1>8, GrownRefl DEF GoesOn
<1>10. /\ d2[o] = d[o] /\ ph2[o] = ph[o]
       /\ d2[e] = IF r.done THEN Idle ELSE r.s.d
       /\ ph2[e] = IF r.done THEN "done" ELSE "open"
  BY <1>0, <1>2 DEF Turned, Put
<1>11. AtEnd(o, ph2[o], d2[o], tots[o], rcs[o], g2)
  <2>1. WellFormed(g2[o], tots[o]) /\ Stopped(g2[o]) /\ g2[o].n = g[o].n
    BY <1>3, <1>7
  <2>2. g2[Other(o)].r = g[Other(o)].r /\ g2[Other(o)].h = g[Other(o)].h /\ Taken(g[Other(o)])
    BY <1>1, <1>7, <1>8
  <2> QED BY <1>1, <1>2, <1>9, <1>10, <2>1, <2>2, AtEndGrown
<1>12. AtEnd(e, ph2[e], d2[e], tots[e], rcs[e], g2)
  <2>1. Stopped(a)
    BY <1>2, <1>8 DEF Stopped
  <2>2. SendSide(r.s.d, a, tots[e]) /\ RecvSide(r.s.d, g[o]) /\ DOMAIN r.s.d = DriverFields
    BY <1>6 DEF StepOK, IsStep
  <2>3. rcs[e] = Span(0, g[o].cut[g[o].r])
    BY <1>2, <1>6 DEF StepOK
  <2>4. r.done => a.r = a.n /\ a.cut[a.n] = tots[e]
    BY <1>5, <1>8, <2>1, <2>2, AllTaken
  <2>5. CASE r.done
    BY <1>0, <1>2, <1>7, <1>8, <1>10, <2>1, <2>3, <2>4, <2>5, IdleFields DEF AtEnd
  <2>6. CASE ~r.done
    BY <1>0, <1>2, <1>7, <1>8, <1>10, <2>1, <2>2, <2>3, <2>6 DEF AtEnd
  <2> QED BY <2>5, <2>6
<1>13. AllSent(r.s.out, a, g[o]) /\ IsSeq(r.s.out)
  BY <1>6 DEF StepOK, AllSent
<1>14. Adds(n2, n, o, r.s.out)
  <2>1. \A y \in Ends : IsSeq(n[y])
    BY <1>2 DEF Underway
  <2>2. n2 = Send(n, ph2, o, r.s.out)
    BY <1>0 DEF Turned
  <2> QED BY <1>13, <2>1, <2>2, SendAdds
<1>15. \A p \in Range(r.s.out) : PacketTo(o, p, g2)
  BY <1>1, <1>7, <1>13 DEF PacketTo, AllSent
<1>16. Underway(n2, l, g2)
  <2>1. Underway(n, l, g2)
    BY <1>2, <1>9, UnderwayGrown
  <2> QED BY <1>14, <1>15, <2>1, UnderwayAdds
<1>17. Opening(ph2, d2, tots["client"], n2, l, resp2, g2)
  <2>1. Opening(ph, d, tots["client"], n, l, resp, g) /\ (ph["client"] = "syn" => Mute(s))
    BY DEF Stepped
  <2>2. ph["client"] = "syn" => Mute(r.s)
    BY <1>6, <2>1
  <2>3. ph["client"] = "syn" => /\ \A p \in Range(r.s.out) : p.type # "STATE"
                                /\ ph2[e] = "open" => d2[e].acks = 0
    BY <1>10, <2>2 DEF Mute
  <2>4. resp2 \in {<<>>, resp}
    BY DEF Turned
  <2>5. \A x \in Ends : g2[x].base = g[x].base /\ g2[x].r = g[x].r /\ g2[x].h = g[x].h
    BY <1>1, <1>7, <1>8 DEF Grown
  <2>6. Keeps(e, ph, ph2, d2, n, n2, r.s.out, resp, resp2, g, g2)
    BY <1>0, <1>7, <1>10, <1>14, <2>3, <2>4, <2>5 DEF Keeps
  <2>7. PICK tc, out : tc = tots["client"] /\ out = r.s.out
    OBVIOUS
  <2>8. Opening(ph, d, tc, n, l, resp, g) /\ Keeps(e, ph, ph2, d2, n, n2, out, resp, resp2, g, g2)
    BY <2>1, <2>6, <2>7
  <2>9. Opening(ph2, d2, tc, n2, l, resp2, g2)
    BY <2>8, OpeningTurn
  <2> QED BY <2>7, <2>9
<1>18. \A x \in Ends : AtEnd(x, ph2[x], d2[x], tots[x], rcs[x], g2)
  BY <1>1, <1>11, <1>12
<1> QED BY <1>16, <1>17, <1>18 DEF IsLinked, Linked

(* The top of run_utp_driver's loop after a handler: the connection is in  *)
(* agreement with some histories again, also if the driver ends.           *)
LEMMA TurnLinked ==
  ASSUME SetFacts, NEW e \in Ends, NEW s, NEW r, NEW ph, NEW d, NEW tots, NEW rcs, NEW rcv,
         NEW n, NEW l, NEW resp, NEW g, NEW ph2, NEW d2, NEW n2, NEW resp2,
         Stepped(e, s, ph, d, tots, rcs, rcv, n, l, resp, g),
         Turned(e, s, r, ph, d, n, resp, ph2, d2, n2, resp2)
  PROVE  IsLinked(ph2, d2, tots, rcs, n2, l, resp2)
<1>1. CASE s.err
  BY <1>1, TurnFailed
<1>2. CASE ~s.err
  BY <1>2, TurnTaken
<1> QED BY <1>1, <1>2

---------------------------------------------------------------------------
(* Connecting, and what the network does.                                  *)

(* Until the listener accepts there is nothing but SYNs, and refusals.     *)
Before(ph, d, tots, rcs, n, l, resp) ==
  /\ ph["server"] = "none" /\ ph["client"] \in {"syn", "failed"} /\ resp = <<>>
  /\ \A e \in Ends :
       /\ tots[e] = 0 /\ rcs[e] = <<>> /\ DOMAIN d[e] = DriverFields /\ ~d[e].remote_eof
       /\ IsSeq(n[e])
       /\ \A p : p \in Range(n[e]) \/ p \in l[e] =>
                   p.type = IF e = "server" THEN "SYN" ELSE "RESET"

(* Nothing is under way in n and l that is not in n0 and l0.               *)
Fewer(n, l, n0, l0) ==
  \A y \in Ends : /\ IsSeq(n[y])
                  /\ \A p : p \in Range(n[y]) \/ p \in l[y] => p \in Range(n0[y]) \/ p \in l0[y]

LEMMA BothEnds ==
  /\ "client" \in Ends /\ "server" \in Ends /\ "client" # "server"
  /\ Other("client") = "server" /\ Other("server") = "client"
  /\ \A e \in Ends : e = "client" \/ e = "server"
  BY DEF Ends, Other

(* A packet that is lost, or taken from the network, leaves the rest       *)
(* right.                                                                  *)
LEMMA BeforeFewer ==
  ASSUME NEW ph, NEW d, NEW tots, NEW rcs, NEW n, NEW l, NEW resp, NEW n2, NEW l2,
         Before(ph, d, tots, rcs, n, l, resp), Fewer(n2, l2, n, l)
  PROVE  Before(ph, d, tots, rcs, n2, l2, resp)
  BY DEF Before, Fewer

LEMMA LinkedFewer ==
  ASSUME NEW ph, NEW d, NEW tots, NEW rcs, NEW n, NEW l, NEW resp, NEW g, NEW n2, NEW l2,
         Linked(ph, d, tots, rcs, n, l, resp, g), Fewer(n2, l2, n, l)
  PROVE  Linked(ph, d, tots, rcs, n2, l2, resp, g)
<1>1. Underway(n2, l2, g)
  BY DEF Linked, Underway, Fewer
<1>2. PICK tc : tc = tots["client"]
  OBVIOUS
<1>3. Opening(ph, d, tc, n, l, resp, g)
  BY <1>2 DEF Linked
<1>4. ASSUME Unheard(ph, d, tc, n, l, g) PROVE Unheard(ph, d, tc, n2, l2, g)
  <2>1. \A p : p \in Range(n2["server"]) \/ p \in l2["server"] => p.type = "SYN"
    BY <1>4, BothEnds DEF Unheard, Fewer
  <2>2. \A p : p \in Range(n2["client"]) \/ p \in l2["client"] =>
                 (p.type = "STATE" => p.seq = Nr(g["server"].base, 1))
    BY <1>4, BothEnds DEF Unheard, Fewer
  <2> QED BY <1>4, <2>1, <2>2 DEF Unheard
<1>5. Opening(ph, d, tc, n2, l2, resp, g)
  BY <1>3, <1>4 DEF Opening
<1> QED BY <1>1, <1>2, <1>5 DEF Linked

(* The client goes on asking, or gives up.                                 *)
Asks(ph, ph2, n, n2, x, out) ==
  /\ ph["client"] = "syn" /\ ph2["client"] \in {"syn", "failed"} /\ ph2["server"] = ph["server"]
  /\ Adds(n2, n, x, out) /\ \A p \in Range(out) : x = "server" /\ p.type = "SYN"

(* The client's SYN, sent again.                                           *)
LEMMA BeforeAsks ==
  ASSUME NEW ph, NEW d, NEW tots, NEW rcs, NEW n, NEW l, NEW resp, NEW ph2, NEW n2, NEW x, NEW out,
         Before(ph, d, tots, rcs, n, l, resp), Asks(ph, ph2, n, n2, x, out)
  PROVE  Before(ph2, d, tots, rcs, n2, l, resp)
<1>1. ASSUME NEW e \in Ends, NEW p, p \in Range(n2[e]) \/ p \in l[e]
      PROVE  p.type = IF e = "server" THEN "SYN" ELSE "RESET"
  <2>1. p \in Range(n[e]) \/ p \in l[e] \/ (e = x /\ p \in Range(out))
    BY <1>1 DEF Asks, Adds
  <2>2. CASE e = x /\ p \in Range(out)
    BY <2>2 DEF Asks
  <2>3. CASE p \in Range(n[e]) \/ p \in l[e]
    BY <2>3 DEF Before
  <2> QED BY <2>1, <2>2, <2>3
<1>2. \A e \in Ends : IsSeq(n2[e])
  BY DEF Asks, Adds
<1>3. ph2["server"] = "none" /\ ph2["client"] \in {"syn", "failed"}
  BY DEF Asks, Before
<1> QED BY <1>1, <1>2, <1>3 DEF Before

LEMMA LinkedAsks ==
  ASSUME NEW ph, NEW d, NEW tots, NEW rcs, NEW n, NEW l, NEW resp, NEW g, NEW ph2, NEW n2,
         NEW x, NEW out,
         Linked(ph, d, tots, rcs, n, l, resp, g), Asks(ph, ph2, n, n2, x, out)
  PROVE  Linked(ph2, d, tots, rcs, n2, l, resp, g)
<1>1. \A e \in Ends : AtEnd(e, ph2[e], d[e], tots[e], rcs[e], g)
  <2>1. AtEnd("server", ph2["server"], d["server"], tots["server"], rcs["server"], g)
    BY BothEnds DEF Linked, Asks
  <2>2. AtEnd("client", "syn", d["client"], tots["client"], rcs["client"], g)
    BY BothEnds DEF Linked, Asks
  <2>3. ph2["client"] # "open" /\ ph2["client"] # "done"
    BY DEF Asks
  <2>4. AtEnd("client", ph2["client"], d["client"], tots["client"], rcs["client"], g)
    BY <2>2, <2>3 DEF AtEnd
  <2> QED BY <2>1, <2>4, BothEnds
<1>2. Underway(n2, l, g)
  <2>1. \A p \in Range(out) : PacketTo(x, p, g)
    BY DEF Asks, PacketTo
  <2>2. Underway(n, l, g) /\ Adds(n2, n, x, out)
    BY DEF Linked, Asks
  <2> QED BY <2>1, <2>2, UnderwayAdds
<1>3. PICK tc : tc = tots["client"]
  OBVIOUS
<1>4. Opening(ph, d, tc, n, l, resp, g) /\ ph["client"] = "syn"
  BY <1>3 DEF Linked, Asks
<1>5. Unheard(ph, d, tc, n, l, g)
  BY <1>4 DEF Opening
<1>6. Unheard(ph2, d, tc, n2, l, g)
  <2>1. ASSUME NEW p, p \in Range(n2["server"]) \/ p \in l["server"] PROVE p.type = "SYN"
    BY <1>5, <2>1, BothEnds DEF Unheard, Asks, Adds
  <2>2. ASSUME NEW p, p \in Range(n2["client"]) \/ p \in l["client"]
        PROVE  (p.type = "STATE" => p.seq = Nr(g["server"].base, 1))
    <3>1. p \in Range(n["client"]) \/ p \in l["client"]
      BY <2>2, BothEnds DEF Asks, Adds
    <3> QED BY <1>5, <3>1 DEF Unheard
  <2>3. ph2["server"] = "open" => d["server"].acks = 0
    BY <1>5 DEF Unheard, Asks
  <2> QED BY <1>5, <2>1, <2>2, <2>3 DEF Unheard
<1>7. Opening(ph2, d, tc, n2, l, resp, g)
  BY <1>4, <1>6 DEF Opening
<1> QED BY <1>1, <1>2, <1>3, <1>7 DEF Linked

(* The listener's packets: its answer again, or a refusal.                 *)
LEMMA LinkedAnswers ==
  ASSUME NEW ph, NEW d, NEW tots, NEW rcs, NEW n, NEW l, NEW resp, NEW g, NEW n2, NEW out,
         Linked(ph, d, tots, rcs, n, l, resp, g), Adds(n2, n, "client", out),
         \A p \in Range(out) : p.type = "RESET" \/ Answer(p, g)
  PROVE  Linked(ph, d, tots, rcs, n2, l, resp, g)
<1>1. WellFormed(g["client"], tots["client"]) /\ g["client"].base = ClientSeq
  BY BothEnds DEF Linked, AtEnd, Opening
<1>2. /\ g["client"].r \in Nat /\ g["client"].base \in Numbers
  BY <1>1, ShortDirection
<1>3. 0 \in 0 .. g["client"].r
  BY <1>2, SMT
<1>4. Nr(ClientSeq, 0) = ClientSeq
  <2>1. ClientSeq \in Int /\ 0 <= ClientSeq /\ ClientSeq < SeqSpace
    BY <1>1, <1>2, IsNumber
  <2> QED BY <2>1, SpaceInt, SMT DEF Nr, wrapping_add
<1>5. \A p \in Range(out) : PacketTo("client", p, g)
  <2> TAKE p \in Range(out)
  <2>1. CASE p.type = "RESET"
    BY <2>1, BothEnds DEF PacketTo
  <2>2. CASE Answer(p, g)
    <3>1. AcksTo(p, g["client"], 0) /\ p.type = "STATE"
      BY <1>1, <1>4, <2>2 DEF Answer, AcksTo
    <3>2. Sent(p, g["server"], g["client"])
      BY <1>3, <3>1 DEF Sent, Acks
    <3> QED BY <3>2, BothEnds DEF PacketTo
  <2> QED BY <2>1, <2>2
<1>6. Underway(n2, l, g)
  <2>1. Underway(n, l, g)
    BY DEF Linked
  <2> QED BY <1>5, <2>1, UnderwayAdds
<1>7. PICK tc : tc = tots["client"]
  OBVIOUS
<1>8. Opening(ph, d, tc, n, l, resp, g)
  BY <1>7 DEF Linked
<1>9. ASSUME Unheard(ph, d, tc, n, l, g) PROVE Unheard(ph, d, tc, n2, l, g)
  <2>1. ASSUME NEW p, p \in Range(n2["server"]) \/ p \in l["server"] PROVE p.type = "SYN"
    BY <1>9, <2>1, BothEnds DEF Unheard, Adds
  <2>2. ASSUME NEW p, p \in Range(n2["client"]) \/ p \in l["client"], p.type = "STATE"
        PROVE  p.seq = Nr(g["server"].base, 1)
    <3>1. p \in Range(n["client"]) \/ p \in l["client"] \/ p \in Range(out)
      BY <2>2, BothEnds DEF Adds
    <3>2. CASE p \in Range(out)
      BY <2>2, <3>2 DEF Answer
    <3>3. CASE p \in Range(n["client"]) \/ p \in l["client"]
      BY <1>9, <2>2, <3>3 DEF Unheard
    <3> QED BY <3>1, <3>2, <3>3
  <2> QED BY <1>9, <2>1, <2>2 DEF Unheard
<1>10. Opening(ph, d, tc, n2, l, resp, g)
  BY <1>8, <1>9 DEF Opening
<1> QED BY <1>6, <1>7, <1>10 DEF Linked

---------------------------------------------------------------------------
(* The connection is made.                                                 *)

Fresh(g, b) ==
  /\ g.base = b /\ g.n = 0 /\ g.r = 0 /\ g.h = {} /\ g.cut[0] = 0
  /\ WellFormed(g, 0) /\ Stopped(g)

(* The histories and the drivers at the start.                             *)
LEMMA FreshHistory == ASSUME NEW b \in Numbers PROVE \E g : Fresh(g, b)
<1>1. PICK c : c = [k \in Nat |-> 0]
  OBVIOUS
<1>2. c \in [Nat -> Nat] /\ \A k \in Nat : c[k] = 0
  BY <1>1, SMT
<1>3. PICK g : History(g, b, 0, c, FALSE, 0, {})
  BY Ghost
<1>4. /\ g.base = b /\ g.n = 0 /\ g.cut = c /\ g.fin = FALSE /\ g.r = 0 /\ g.h = {}
  BY <1>3 DEF History
<1>5. /\ 0 \in Nat /\ 0 + 2 <= Half /\ 0 <= 0 /\ 0 <= 0 + 0 /\ {} \in SUBSET (1 .. 0)
      /\ \A k \in 0 .. 0 : k \in Nat
      /\ \A k : k \notin 1 .. 0
  BY SpaceInt, SMT
<1>6. Kinds(g)
  BY <1>2, <1>4, <1>5 DEF Kinds
<1>7. Cuts(g, 0)
  <2>1. g.cut[0] = 0 /\ g.cut[g.n] <= 0 /\ g.n <= g.cut[g.n] + 0
    BY <1>2, <1>4, <1>5
  <2>2. \A j \in 0 .. g.n : \A k \in 0 .. g.n : j <= k => g.cut[j] <= g.cut[k]
    BY <1>2, <1>4, <1>5
  <2>3. \A k \in 1 .. g.n : ~IsFin(g, k) => g.cut[k - 1] < g.cut[k]
    BY <1>4, <1>5
  <2>4. g.n <= g.cut[g.n] + (IF g.fin THEN 1 ELSE 0)
    BY <1>4, <2>1
  <2> QED BY <1>4, <1>5, <2>1, <2>2, <2>3, <2>4 DEF Cuts
<1>8. Taken(g) /\ Stopped(g)
  BY <1>4, <1>5 DEF Taken, Stopped
<1> QED BY <1>2, <1>4, <1>5, <1>6, <1>7, <1>8 DEF Fresh, WellFormed

(* A driver at the start, when nothing was sent either way that it has.    *)
Unsent(g) == WellFormed(g, 0) /\ g.n = 0
Untaken(g) == g.r = 0 /\ g.h = {}
Starts(d, gs, gr) ==
  DOMAIN d = DriverFields /\ SendSide(d, gs, 0) /\ RecvSide(d, gr) /\ d.acks = 0

LEMMA FreshDriver ==
  ASSUME NEW ack, NEW wnd, NEW gs, NEW gr, Unsent(gs), Untaken(gr)
  PROVE  Starts(Driver(Nr(gs.base, 1), Nr(gr.base, 0), ack, wnd), gs, gr)
<1>0. PICK next, last : next = Nr(gs.base, 1) /\ last = Nr(gr.base, 0)
  OBVIOUS
<1>1. PICK d : d = Driver(next, last, ack, wnd)
  OBVIOUS
<1>2. /\ DOMAIN d = DriverFields /\ d.next_send = next /\ d.last_remote = last
      /\ d.pending = <<>> /\ d.unacked = <<>> /\ d.ooo = <<>> /\ d.acks = 0
      /\ ~d.fin_sent /\ d.remote_fin = {} /\ ~d.remote_eof /\ d.packet_size = MaxPacket
  BY <1>1 DEF Driver, DriverFields
<1>3. /\ ~(0 >= 1) /\ 0 + 1 = 1 /\ 0 \in Nat /\ \A k : k \notin 1 .. 0
  BY SMT
<1>4. ~gs.fin /\ gs.cut[gs.n] = 0
  BY <1>3 DEF Unsent, WellFormed, Cuts
<1>5. SendSide(d, gs, 0)
  <2>1. d.packet_size \in Nat /\ d.packet_size >= 1
    BY <1>2, Sizes
  <2>2. Queue(d.pending, gs.cut[gs.n], 0)
    BY <1>2, <1>3, <1>4, QueueEmpty
  <2>3. IsSeq(d.unacked) /\ \A u \in Range(d.unacked) : FALSE
    BY <1>2, SeqEmpty
  <2>4. d.next_send = Nr(gs.base, gs.n + 1)
    BY <1>0, <1>2, <1>3 DEF Unsent
  <2>5. \A k \in 1 .. gs.n : Covered(d, gs, k)
    BY <1>3 DEF Unsent
  <2> QED BY <1>2, <1>4, <2>1, <2>2, <2>3, <2>4, <2>5 DEF SendSide
<1>6. RecvSide(d, gr)
  <2>1. DOMAIN d.ooo = {}
    <3>1. DOMAIN <<>> = {}
      BY SMT
    <3> QED BY <1>2, <3>1
  <2> QED BY <1>0, <1>2, <2>1 DEF RecvSide, Untaken
<1> QED BY <1>0, <1>1, <1>2, <1>5, <1>6 DEF Starts

LEMMA FirstNumbers ==
  /\ ClientSeq \in Numbers /\ Nr(ClientSeq, 0) = ClientSeq
  /\ \A q \in Numbers : wrapping_sub(q, 1) \in Numbers /\ Nr(wrapping_sub(q, 1), 1) = q
<1>1. ClientSeq \in Numbers
  BY EndsAssumption DEF Numbers
<1>2. ClientSeq \in Int /\ 0 <= ClientSeq /\ ClientSeq < SeqSpace
  BY <1>1, IsNumber
<1>3. Nr(ClientSeq, 0) = ClientSeq
  BY <1>2, SpaceInt, SMT DEF Nr, wrapping_add
<1>4. ASSUME NEW q \in Numbers
      PROVE  wrapping_sub(q, 1) \in Numbers /\ Nr(wrapping_sub(q, 1), 1) = q
  <2>1. q \in Int /\ 0 <= q /\ q < SeqSpace /\ q - 1 \in Int /\ (q - 1) + 1 = q
    BY IsNumber, SMT
  <2>2. wrapping_sub(q, 1) \in Numbers
    BY <2>1, Quotient DEF wrapping_sub
  <2>3. (((q - 1) % SeqSpace) + 1) % SeqSpace = ((q - 1) + 1) % SeqSpace
    BY <2>1, AddTwice, SMT
  <2>4. q % SeqSpace = q
    BY <2>1, SpaceInt, SMT
  <2>5. Nr(wrapping_sub(q, 1), 1) = q
    BY <2>1, <2>3, <2>4 DEF Nr, wrapping_add, wrapping_sub
  <2> QED BY <2>2, <2>5
<1> QED BY <1>1, <1>3, <1>4

(* The client hears the answer.                                            *)
LEMMA LinkedHeard ==
  ASSUME NEW ph, NEW d, NEW tots, NEW rcs, NEW n, NEW l, NEW resp, NEW g, NEW ph2, NEW d2,
         NEW ack, NEW wnd,
         Linked(ph, d, tots, rcs, n, l, resp, g), ph["client"] = "syn",
         Put(ph2, ph, "client", "open"),
         Put(d2, d, "client", Driver(wrapping_add(ClientSeq, 1),
                                     wrapping_sub(Nr(g["server"].base, 1), 1), ack, wnd))
  PROVE  Linked(ph2, d2, tots, rcs, n, l, resp, g)
<1>1. /\ ph2["client"] = "open" /\ ph2["server"] = ph["server"] /\ d2["server"] = d["server"]
      /\ d2["client"] = Driver(wrapping_add(ClientSeq, 1),
                               wrapping_sub(Nr(g["server"].base, 1), 1), ack, wnd)
  BY BothEnds DEF Put
<1>2. /\ AtEnd("client", "syn", d["client"], tots["client"], rcs["client"], g)
      /\ AtEnd("server", ph["server"], d["server"], tots["server"], rcs["server"], g)
      /\ Opening(ph, d, tots["client"], n, l, resp, g)
  BY BothEnds DEF Linked
<1>3. Unheard(ph, d, tots["client"], n, l, g) /\ g["client"].base = ClientSeq
  BY <1>2 DEF Opening
<1>4. /\ g["client"].n = 0 /\ tots["client"] = 0 /\ g["server"].r = 0 /\ g["server"].h = {}
  BY <1>3 DEF Unheard
<1>5. WellFormed(g["client"], 0) /\ WellFormed(g["server"], tots["server"])
  BY <1>2, <1>4 DEF AtEnd
<1>6. wrapping_add(ClientSeq, 1) = Nr(g["client"].base, 1)
  BY <1>3 DEF Nr
<1>7. wrapping_sub(Nr(g["server"].base, 1), 1) = Nr(g["server"].base, 0)
  <2>1. g["server"].base \in Numbers
    BY <1>5, ShortDirection
  <2>2. 0 \in Nat /\ 0 + 1 = 1
    BY SMT
  <2>3. wrapping_sub(Nr(g["server"].base, 0 + 1), 1) = Nr(g["server"].base, 0)
    BY <2>1, <2>2, NrFacts
  <2> QED BY <2>2, <2>3
<1>8. /\ DOMAIN d2["client"] = DriverFields /\ SendSide(d2["client"], g["client"], 0)
      /\ RecvSide(d2["client"], g["server"])
  <2>1. PICK a, b : a = g["client"] /\ b = g["server"]
    OBVIOUS
  <2>2. Unsent(a) /\ Untaken(b)
    BY <1>4, <1>5, <2>1 DEF Unsent, Untaken
  <2>3. Starts(Driver(Nr(a.base, 1), Nr(b.base, 0), ack, wnd), a, b)
    BY <2>2, FreshDriver
  <2>4. d2["client"] = Driver(Nr(a.base, 1), Nr(b.base, 0), ack, wnd)
    BY <1>1, <1>6, <1>7, <2>1
  <2> QED BY <2>1, <2>3, <2>4 DEF Starts
<1>9. AtEnd("client", ph2["client"], d2["client"], tots["client"], rcs["client"], g)
  BY <1>1, <1>2, <1>4, <1>8, BothEnds DEF AtEnd
<1>10. \A e \in Ends : AtEnd(e, ph2[e], d2[e], tots[e], rcs[e], g)
  BY <1>1, <1>2, <1>9, BothEnds
<1>11. Opening(ph2, d2, tots["client"], n, l, resp, g)
  BY <1>1, <1>2 DEF Opening
<1> QED BY <1>10, <1>11 DEF Linked

(* The listener accepts.                                                   *)
LEMMA LinkedFirst ==
  ASSUME NEW ph, NEW d, NEW tots, NEW rcs, NEW n, NEW l, NEW resp, NEW ph2, NEW d2, NEW tots2,
         NEW rcs2, NEW n2, NEW p, NEW q \in Numbers,
         Before(ph, d, tots, rcs, n, l, resp),
         p.type = "STATE", p.seq = q, p.ack = ClientSeq, p.sack = {},
         Put(d2, d, "server", Driver(q, ClientSeq, 0, ReceiveWindow)),
         Put(ph2, ph, "server", "open"), Put(tots2, tots, "server", 0),
         Put(rcs2, rcs, "server", <<>>), Adds(n2, n, "client", <<p>>)
  PROVE  IsLinked(ph2, d2, tots2, rcs2, n2, l, <<p>>)
<1>1. PICK a, b : Fresh(a, ClientSeq) /\ Fresh(b, wrapping_sub(q, 1))
  BY FreshHistory, FirstNumbers
<1>2. PICK g : g["client"] = a /\ g["server"] = b
  <2>1. PICK f : f = [x \in Ends |-> IF x = "client" THEN a ELSE b]
    OBVIOUS
  <2>2. f["client"] = a /\ f["server"] = b
    BY <2>1, BothEnds
  <2> QED BY <2>2
<1>3. /\ ph2["server"] = "open" /\ ph2["client"] \in {"syn", "failed"}
      /\ d2["client"] = d["client"] /\ d2["server"] = Driver(q, ClientSeq, 0, ReceiveWindow)
      /\ tots2["server"] = 0 /\ tots2["client"] = 0
      /\ rcs2["server"] = <<>> /\ rcs2["client"] = <<>>
      /\ DOMAIN d["client"] = DriverFields /\ ~d["client"].remote_eof
  <2>1. /\ ph["client"] \in {"syn", "failed"} /\ tots["client"] = 0 /\ rcs["client"] = <<>>
        /\ DOMAIN d["client"] = DriverFields /\ ~d["client"].remote_eof
    BY BothEnds DEF Before
  <2>2. /\ ph2["server"] = "open" /\ ph2["client"] = ph["client"]
        /\ tots2["server"] = 0 /\ tots2["client"] = tots["client"]
    BY BothEnds DEF Put
  <2>3. /\ d2["client"] = d["client"] /\ d2["server"] = Driver(q, ClientSeq, 0, ReceiveWindow)
        /\ rcs2["server"] = <<>> /\ rcs2["client"] = rcs["client"]
    BY BothEnds DEF Put
  <2> QED BY <2>1, <2>2, <2>3
<1>4. /\ a.base = ClientSeq /\ a.n = 0 /\ a.r = 0 /\ a.h = {} /\ a.cut[0] = 0
      /\ WellFormed(a, 0) /\ Stopped(a)
      /\ b.base = wrapping_sub(q, 1) /\ b.n = 0 /\ b.r = 0 /\ b.h = {} /\ b.cut[0] = 0
      /\ WellFormed(b, 0) /\ Stopped(b)
  BY <1>1 DEF Fresh
<1>5. Span(0, 0) = <<>> /\ 0 <= Wrote["client"] /\ 0 <= Wrote["server"]
  <2>1. Span(0, 0) = <<>>
    BY SpanEmpty, SMT
  <2>2. Wrote["client"] \in Nat /\ Wrote["server"] \in Nat
    BY EndsAssumption, BothEnds
  <2> QED BY <2>1, <2>2, SMT
<1>6. q = Nr(b.base, 1) /\ ClientSeq = Nr(a.base, 0)
  BY <1>4, FirstNumbers
<1>7. /\ DOMAIN d2["server"] = DriverFields /\ SendSide(d2["server"], b, 0)
      /\ RecvSide(d2["server"], a) /\ d2["server"].acks = 0
  <2>1. Unsent(b) /\ Untaken(a)
    BY <1>4 DEF Unsent, Untaken
  <2>2. Starts(Driver(Nr(b.base, 1), Nr(a.base, 0), 0, ReceiveWindow), b, a)
    BY <2>1, FreshDriver
  <2>3. d2["server"] = Driver(Nr(b.base, 1), Nr(a.base, 0), 0, ReceiveWindow)
    BY <1>3, <1>6
  <2> QED BY <2>2, <2>3 DEF Starts
<1>8. AtEnd("server", ph2["server"], d2["server"], tots2["server"], rcs2["server"], g)
  BY <1>2, <1>3, <1>4, <1>5, <1>7, BothEnds DEF AtEnd
<1>9. AtEnd("client", ph2["client"], d2["client"], tots2["client"], rcs2["client"], g)
  <2>1. ph2["client"] # "open" /\ ph2["client"] # "done"
    BY <1>3
  <2> QED BY <1>2, <1>3, <1>4, <1>5, <2>1, BothEnds DEF AtEnd
<1>10. Underway(n, l, g)
  BY BothEnds DEF Underway, PacketTo, Before
<1>11. IsSeq(<<p>>) /\ \A x \in Range(<<p>>) : x = p
  <2>1. <<p>> \in Seq({p})
    BY SMT
  <2>2. Range(<<p>>) = {p}
    BY SMT DEF Range
  <2> QED BY <2>1, <2>2 DEF IsSeq
<1>12. Answer(p, g)
  BY <1>2, <1>6 DEF Answer
<1>13. Unheard(ph2, d2, 0, n, l, g)
  <2>1. \A x : x \in Range(n["server"]) \/ x \in l["server"] => x.type = "SYN"
    BY BothEnds DEF Before
  <2>2. \A x : x \in Range(n["client"]) \/ x \in l["client"] => x.type = "RESET"
    BY BothEnds DEF Before
  <2>3. \A x : x \in Range(n["client"]) \/ x \in l["client"] =>
                 (x.type = "STATE" => x.seq = Nr(g["server"].base, 1))
    BY <2>2
  <2> QED BY <1>2, <1>4, <1>7, <2>1, <2>3 DEF Unheard
<1>14. Opening(ph2, d2, tots2["client"], n, l, <<p>>, g)
  BY <1>2, <1>3, <1>4, <1>11, <1>12, <1>13 DEF Opening
<1>15. \A e \in Ends : AtEnd(e, ph2[e], d2[e], tots2[e], rcs2[e], g)
  BY <1>8, <1>9, BothEnds
<1>16. Linked(ph2, d2, tots2, rcs2, n, l, <<p>>, g)
  BY <1>10, <1>14, <1>15 DEF Linked
<1>17. \A x \in Range(<<p>>) : x.type = "RESET" \/ Answer(x, g)
  BY <1>11, <1>12
<1>18. Linked(ph2, d2, tots2, rcs2, n2, l, <<p>>, g)
  BY <1>16, <1>17, LinkedAnswers
<1> QED BY <1>18 DEF IsLinked

---------------------------------------------------------------------------
(* The steps a driver takes on an open connection.                         *)

(* What is known of an end that is open.                                   *)
OpenAt(e, ph, d, tots, rcs, g) ==
  /\ WellFormed(g[e], tots[e]) /\ Stopped(g[e]) /\ tots[e] <= Wrote[e]
  /\ WellFormed(g[Other(e)], tots[Other(e)]) /\ Stopped(g[Other(e)])
  /\ DOMAIN d[e] = DriverFields /\ SendSide(d[e], g[e], tots[e]) /\ RecvSide(d[e], g[Other(e)])
  /\ rcs[e] = Span(0, g[Other(e)].cut[g[Other(e)].r]) /\ IsSeq(rcs[e]) /\ rcs[e] \o <<>> = rcs[e]
  /\ ph["client"] = "syn" => d[e].acks = 0

(* What the invariant says of an open end.                                 *)
LEMMA OpenFacts ==
  ASSUME NEW e \in Ends, NEW ph, NEW d, NEW tots, NEW rcs, NEW n, NEW l, NEW resp, NEW g,
         Linked(ph, d, tots, rcs, n, l, resp, g), ph[e] = "open"
  PROVE  OpenAt(e, ph, d, tots, rcs, g)
<1>0. PICK o : o = Other(e)
  OBVIOUS
<1>1. o \in Ends
  BY <1>0, TwoEnds
<1>2. AtEnd(e, "open", d[e], tots[e], rcs[e], g) /\ AtEnd(o, ph[o], d[o], tots[o], rcs[o], g)
  BY <1>1 DEF Linked
<1>3. /\ WellFormed(g[e], tots[e]) /\ Stopped(g[e]) /\ tots[e] <= Wrote[e]
      /\ DOMAIN d[e] = DriverFields /\ SendSide(d[e], g[e], tots[e]) /\ RecvSide(d[e], g[o])
      /\ rcs[e] = Span(0, g[o].cut[g[o].r])
  BY <1>0, <1>2 DEF AtEnd
<1>4. WellFormed(g[o], tots[o]) /\ Stopped(g[o])
  BY <1>2 DEF AtEnd
<1>5. PICK c \in Nat : c = g[o].cut[g[o].r]
  BY <1>4 DEF WellFormed, Kinds
<1>6. IsSeq(rcs[e])
  <2>1. 0 \in Nat /\ 0 <= c
    BY <1>5, SMT
  <2>2. IsSeq(Span(0, c))
    BY <2>1, SpanFacts
  <2> QED BY <1>3, <1>5, <2>2
<1>7. rcs[e] \o <<>> = rcs[e]
  BY <1>6, ConcatEmpty
<1>8. ASSUME ph["client"] = "syn" PROVE d[e].acks = 0
  <2>1. e = "server"
    BY <1>8, BothEnds
  <2>2. Unheard(ph, d, tots["client"], n, l, g)
    BY <1>8 DEF Linked, Opening
  <2> QED BY <2>1, <2>2 DEF Unheard
<1> QED BY <1>0, <1>3, <1>4, <1>6, <1>7, <1>8 DEF OpenAt

(* A handler starts with nothing done.                                     *)
LEMMA Starting ==
  ASSUME NEW d, NEW gs, NEW gr, NEW total, NEW rcv,
         DOMAIN d = DriverFields, SendSide(d, gs, total), RecvSide(d, gr),
         rcv \o <<>> = rcv, rcv = Span(0, gr.cut[gr.r])
  PROVE  /\ StepOK(Step(d), gs, gr, total, rcv) /\ ~Step(d).err /\ Step(d).up = <<>>
         /\ d.acks = 0 => Mute(Step(d))
<1>1. PICK s : s = Step(d)
  OBVIOUS
<1>2. /\ DOMAIN s = {"d", "out", "up", "err"} /\ s.d = d /\ s.out = <<>> /\ s.up = <<>> /\ ~s.err
  BY <1>1 DEF Step
<1>3. IsStep(s)
  BY <1>2 DEF IsStep
<1>4. AllSent(<<>>, gs, gr) /\ IsSeq(<<>>)
  BY SeqEmpty DEF AllSent
<1>5. StepOK(s, gs, gr, total, rcv)
  BY <1>2, <1>3, <1>4 DEF StepOK
<1>6. d.acks = 0 => Mute(s)
  BY <1>2, SeqEmpty DEF Mute
<1> QED BY <1>1, <1>2, <1>5, <1>6

(* A step that takes nothing in.                                           *)
Outgoing(e, s, d, tots2, rcs, g) ==
  /\ WellFormed(g[e], tots2[e]) /\ tots2[e] <= Wrote[e] /\ s.up = <<>>
  /\ s.err => AllSent(s.out, g[e], g[Other(e)])
  /\ ~s.err => StepOK(s, g[e], g[Other(e)], tots2[e], rcs[e])
  /\ d[e].acks = 0 => (~s.err => Mute(s)) /\ \A p \in Range(s.out) : p.type # "STATE"

(* A handler that only sends leaves the connection ready for its turn.     *)
LEMMA SteppedOut ==
  ASSUME NEW e \in Ends, NEW s, NEW ph, NEW d, NEW tots, NEW rcs, NEW n, NEW l, NEW resp, NEW g,
         NEW tots2, Linked(ph, d, tots, rcs, n, l, resp, g), ph[e] = "open",
         tots2[Other(e)] = tots[Other(e)], Outgoing(e, s, d, tots2, rcs, g)
  PROVE  Stepped(e, s, ph, d, tots2, rcs, rcs[e], n, l, resp, g)
<1>0. PICK o : o = Other(e)
  OBVIOUS
<1>1. o \in Ends
  BY <1>0, TwoEnds
<1>2. OpenAt(e, ph, d, tots, rcs, g)
  BY OpenFacts
<1>3. /\ Stopped(g[e]) /\ rcs[e] = Span(0, g[o].cut[g[o].r]) /\ rcs[e] \o <<>> = rcs[e]
      /\ ph["client"] = "syn" => d[e].acks = 0
  BY <1>0, <1>2 DEF OpenAt
<1>4. AtEnd(o, ph[o], d[o], tots2[o], rcs[o], g)
  <2>1. AtEnd(o, ph[o], d[o], tots[o], rcs[o], g)
    BY <1>1 DEF Linked
  <2> QED BY <1>0, <2>1
<1>5. Underway(n, l, g)
  BY DEF Linked
<1>6. Opening(ph, d, tots2["client"], n, l, resp, g)
  <2>1. Opening(ph, d, tots["client"], n, l, resp, g)
    BY DEF Linked
  <2>2. CASE e = "client"
    <3>1. ph["client"] # "syn"
      BY <2>2
    <3> QED BY <2>1, <3>1 DEF Opening
  <2>3. CASE e = "server"
    <3>1. tots2["client"] = tots["client"]
      BY <2>3, BothEnds
    <3> QED BY <2>1, <3>1
  <2> QED BY <2>2, <2>3, BothEnds
<1>7. rcs[e] = rcs[e] \o s.up
  BY <1>3 DEF Outgoing
<1>8. ph["client"] = "syn" => (~s.err => Mute(s)) /\ \A p \in Range(s.out) : p.type # "STATE"
  BY <1>3 DEF Outgoing
<1>9. /\ WellFormed(g[e], tots2[e]) /\ tots2[e] <= Wrote[e]
      /\ s.err => AllSent(s.out, g[e], g[o])
      /\ ~s.err => StepOK(s, g[e], g[o], tots2[e], rcs[e])
  BY <1>0 DEF Outgoing
<1> QED BY <1>0, <1>3, <1>4, <1>5, <1>6, <1>7, <1>8, <1>9 DEF Stepped

SteppedOn(e, s, ph, d, tots, rcs, n, l, resp) ==
  \E g, rcv : Stepped(e, s, ph, d, tots, rcs, rcv, n, l, resp, g)

(* A packet has come in.                                                   *)
LEMMA SteppedIn ==
  ASSUME SetFacts, NEW e \in Ends, NEW s, NEW ph, NEW d, NEW tots, NEW rcs, NEW n, NEW l, NEW resp, NEW g,
         NEW rcs2, NEW p, NEW at, NEW due,
         Linked(ph, d, tots, rcs, n, l, resp, g), ph[e] = "open", ph["client"] # "syn",
         PacketTo(e, p, g), p.type # "SYN",
         s \in process_incoming_packet(d[e], p, at, due),
         rcs2[e] = rcs[e] \o s.up, rcs2[Other(e)] = rcs[Other(e)]
  PROVE  SteppedOn(e, s, ph, d, tots, rcs2, n, l, resp)
<1>0. PICK o : o = Other(e)
  OBVIOUS
<1>1. o \in Ends /\ o # e /\ Other(o) = e /\ \A x \in Ends : x = e \/ x = o
  BY <1>0, TwoEnds
<1>2. OpenAt(e, ph, d, tots, rcs, g)
  BY OpenFacts
<1>3. /\ WellFormed(g[e], tots[e]) /\ Stopped(g[e]) /\ tots[e] <= Wrote[e]
      /\ WellFormed(g[o], tots[o]) /\ Stopped(g[o])
      /\ DOMAIN d[e] = DriverFields /\ SendSide(d[e], g[e], tots[e]) /\ RecvSide(d[e], g[o])
      /\ rcs[e] = Span(0, g[o].cut[g[o].r]) /\ IsSeq(rcs[e]) /\ rcs[e] \o <<>> = rcs[e]
  BY <1>0, <1>2 DEF OpenAt
<1>4. p.type = "RESET" \/ Sent(p, g[o], g[e])
  BY <1>0, BothEnds DEF PacketTo
<1>5. Processed(s, g[e], g[o], tots[e], tots[o], rcs[e])
  BY <1>3, <1>4, PacketProcessed
<1>6. AtEnd(o, ph[o], d[o], tots[o], rcs2[o], g)
  <2>1. AtEnd(o, ph[o], d[o], tots[o], rcs[o], g)
    BY <1>1 DEF Linked
  <2> QED BY <1>0, <2>1
<1>7. Underway(n, l, g) /\ Opening(ph, d, tots["client"], n, l, resp, g)
  BY DEF Linked
<1>8. CASE s.err
  <2>1. s.up = <<>> /\ AllSent(s.out, g[e], g[o])
    BY <1>5, <1>8 DEF Processed
  <2>2. rcs2[e] = Span(0, g[o].cut[g[o].r])
    BY <1>3, <2>1
  <2>3. Stepped(e, s, ph, d, tots, rcs2, rcs[e], n, l, resp, g)
    BY <1>0, <1>3, <1>6, <1>7, <1>8, <2>1, <2>2 DEF Stepped
  <2> QED BY <2>3 DEF SteppedOn
<1>9. CASE ~s.err
  <2>1. PICK a : /\ Took(g[o], a, tots[o]) /\ Stopped(a)
                 /\ StepOK(s, g[e], a, tots[e], rcs[e])
    BY <1>5, <1>9 DEF Processed
  <2>2. PICK g2 : g2[e] = g[e] /\ g2[o] = a
    <3>1. PICK f : f = [x \in Ends |-> IF x = e THEN g[e] ELSE a]
      OBVIOUS
    <3>2. f[e] = g[e] /\ f[o] = a
      BY <1>1, <3>1
    <3> QED BY <3>2
  <2>3. /\ WellFormed(a, tots[o]) /\ Grown(g[o], a) /\ a.n = g[o].n /\ a.base = g[o].base
        /\ Kinds(a) /\ Kinds(g[o]) /\ Kinds(g[e]) /\ Taken(g[e])
    BY <1>3, <2>1 DEF Took, WellFormed, Grown
  <2>4. GoesOn(g, g2)
    BY <1>1, <2>2, <2>3, GrownRefl DEF GoesOn
  <2>5. AtEnd(o, ph[o], d[o], tots[o], rcs2[o], g2)
    <3>1. WellFormed(g2[o], tots[o]) /\ Stopped(g2[o]) /\ g2[o].n = g[o].n
      BY <2>1, <2>2, <2>3
    <3>2. g2[Other(o)].r = g[Other(o)].r /\ g2[Other(o)].h = g[Other(o)].h /\ Taken(g[Other(o)])
      BY <1>1, <2>2, <2>3
    <3> QED BY <1>1, <1>6, <2>4, <3>1, <3>2, AtEndGrown
  <2>6. Underway(n, l, g2)
    BY <1>7, <2>4, UnderwayGrown
  <2>7. Opening(ph, d, tots["client"], n, l, resp, g2)
    <3>1. \A x \in Ends : g2[x].base = g[x].base
      BY <1>1, <2>2, <2>3
    <3>2. g2["client"].base = g["client"].base /\ g2["server"].base = g["server"].base
      BY <3>1, BothEnds
    <3>3. \A x : Answer(x, g) => Answer(x, g2)
      BY <3>2 DEF Answer
    <3> QED BY <1>7, <3>2, <3>3 DEF Opening
  <2>8. Stepped(e, s, ph, d, tots, rcs2, rcs[e], n, l, resp, g2)
    BY <1>0, <1>3, <1>9, <2>1, <2>2, <2>5, <2>6, <2>7 DEF Stepped
  <2> QED BY <2>8 DEF SteppedOn
<1> QED BY <1>8, <1>9

(* The application's read changes no more than a count.                    *)
LEMMA LinkedCount ==
  ASSUME NEW e \in Ends, NEW ph, NEW d, NEW tots, NEW rcs, NEW n, NEW l, NEW resp, NEW g,
         NEW d2, NEW x, Linked(ph, d, tots, rcs, n, l, resp, g), Put(d2, d, e, x),
         SameSend(d[e], x), SameRecv(d[e], x), DOMAIN x = DriverFields, x.acks = d[e].acks
  PROVE  Linked(ph, d2, tots, rcs, n, l, resp, g)
<1>0. PICK o : o = Other(e)
  OBVIOUS
<1>1. o \in Ends /\ o # e /\ Other(o) = e /\ \A y \in Ends : y = e \/ y = o
  BY <1>0, TwoEnds
<1>2. d2[e] = x /\ d2[o] = d[o]
  BY <1>0 DEF Put
<1>3. AtEnd(o, ph[o], d2[o], tots[o], rcs[o], g)
  BY <1>1, <1>2 DEF Linked
<1>4. AtEnd(e, ph[e], d2[e], tots[e], rcs[e], g)
  <2>1. AtEnd(e, ph[e], d[e], tots[e], rcs[e], g)
    BY DEF Linked
  <2>2. ph[e] = "open" => SendSide(x, g[e], tots[e]) /\ RecvSide(x, g[Other(e)])
    BY <2>1, SendSame, RecvSame DEF AtEnd
  <2>3. x.remote_eof = d[e].remote_eof
    BY DEF SameRecv
  <2> QED BY <1>2, <2>1, <2>2, <2>3 DEF AtEnd
<1>5. d2["server"].acks = d["server"].acks
  BY <1>1, <1>2, BothEnds
<1>6. Opening(ph, d2, tots["client"], n, l, resp, g)
  BY <1>5 DEF Linked, Opening, Unheard
<1>7. \A y \in Ends : AtEnd(y, ph[y], d2[y], tots[y], rcs[y], g)
  BY <1>1, <1>3, <1>4
<1> QED BY <1>6, <1>7 DEF Linked

---------------------------------------------------------------------------
(* The inductive invariant.  Of a second connection only the shape of the  *)
(* state is said.                                                          *)

Fixed ==
  /\ OnEnds(phase) /\ OnEnds(driver) /\ OnEnds(given) /\ OnEnds(got)
  /\ OnEnds(net) /\ OnEnds(late) /\ accepted \in Nat

Holds(ph, d, tots, rcs, n, l, resp, acc) ==
  /\ acc = 0 => Before(ph, d, tots, rcs, n, l, resp)
  /\ acc = 1 => IsLinked(ph, d, tots, rcs, n, l, resp)

UtpInv == Fixed /\ Holds(phase, driver, given, got, net, late, response, accepted)

(* The state with n and l under way.                                       *)
Left(n, l) ==
  OnEnds(n) /\ OnEnds(l) /\ Holds(phase, driver, given, got, n, l, response, accepted)

LEMMA SendOnEnds ==
  ASSUME NEW n, NEW ph, NEW x, NEW packets
  PROVE  OnEnds(Send(n, ph, x, packets))
<1>1. PICK f : f = Send(n, ph, x, packets)
  OBVIOUS
<1>2. PICK S : S = {f[y] : y \in Ends}
  OBVIOUS
<1>3. f = [y \in Ends |-> f[y]]
  BY <1>1 DEF Send
<1>4. \A y \in Ends : f[y] \in S
  BY <1>2
<1>5. f \in [Ends -> S]
  BY <1>3, <1>4
<1> QED BY <1>1, <1>5 DEF OnEnds

LEMMA NotBefore ==
  ASSUME NEW e \in Ends, NEW ph, NEW d, NEW tots, NEW rcs, NEW n, NEW l, NEW resp,
         Before(ph, d, tots, rcs, n, l, resp), ph[e] = "open"
  PROVE  FALSE
  BY BothEnds DEF Before

(* The action's Turn in the terms used here.                               *)
LEMMA TurnTurned ==
  ASSUME NEW e \in Ends, NEW s, NEW n, Turn(e, s, n), OnEnds(phase), OnEnds(driver)
  PROVE  \E r : Turned(e, s, r, phase, driver, n, response, phase', driver', net', response')
<1>1. PICK r \in {IF s.err THEN [s |-> s, done |-> FALSE] ELSE LoopTop(s)} :
        /\ driver' = [driver EXCEPT ![e] = IF s.err \/ r.done THEN Idle ELSE r.s.d]
        /\ phase' = [phase EXCEPT ![e] = IF s.err THEN "failed"
                                         ELSE IF r.done THEN "done" ELSE phase[e]]
        /\ net' = Send(n, phase', Other(e), r.s.out)
        /\ response' = IF e = "server" /\ (s.err \/ r.done) THEN <<>> ELSE response
  BY DEF Turn
<1>2. r = IF s.err THEN [s |-> s, done |-> FALSE] ELSE LoopTop(s)
  BY <1>1
<1>3. PICK v : v = IF s.err \/ r.done THEN Idle ELSE r.s.d
  OBVIOUS
<1>4. PICK w : w = IF s.err THEN "failed" ELSE IF r.done THEN "done" ELSE phase[e]
  OBVIOUS
<1>5. driver' = [driver EXCEPT ![e] = v] /\ phase' = [phase EXCEPT ![e] = w]
  BY <1>1, <1>3, <1>4
<1>6. Put(driver', driver, e, v) /\ Put(phase', phase, e, w)
  BY <1>5, Putting
<1> QED BY <1>1, <1>2, <1>3, <1>4, <1>6 DEF Turned

(* A turn of end e's driver keeps the invariant.                           *)
LEMMA TurnKeeps ==
  ASSUME SetFacts, NEW e \in Ends, NEW s, NEW n, UtpInv, phase[e] = "open", Turn(e, s, n),
         OnEnds(given'), OnEnds(got'), OnEnds(late'), accepted' = accepted,
         accepted = 1 => SteppedOn(e, s, phase, driver, given', got', n, late', response)
  PROVE  UtpInv'
<1>1. OnEnds(phase) /\ OnEnds(driver) /\ accepted \in Nat
  BY DEF UtpInv, Fixed
<1>2. PICK r : Turned(e, s, r, phase, driver, n, response, phase', driver', net', response')
  BY <1>1, TurnTurned
<1>3. OnEnds(phase') /\ OnEnds(driver') /\ net' = Send(n, phase', Other(e), r.s.out)
  BY <1>2 DEF Turned, Put
<1>4. OnEnds(net')
  BY <1>3, SendOnEnds
<1>5. accepted # 0
  BY NotBefore DEF UtpInv, Holds
<1>6. ASSUME accepted = 1
      PROVE  IsLinked(phase', driver', given', got', net', late', response')
  <2>1. PICK g, rcv : Stepped(e, s, phase, driver, given', got', rcv, n, late', response, g)
    BY <1>6 DEF SteppedOn
  <2> QED BY <1>2, <2>1, TurnLinked
<1>7. Holds(phase', driver', given', got', net', late', response', accepted')
  BY <1>5, <1>6 DEF Holds
<1>8. Fixed'
  BY <1>1, <1>3, <1>4 DEF Fixed
<1> QED BY <1>7, <1>8 DEF UtpInv

(* Nothing but the network changes.                                        *)
LEMMA LeftKeeps ==
  ASSUME UtpInv, UNCHANGED <<phase, driver, given, got, response, accepted>>,
         Left(net', late')
  PROVE  UtpInv'
<1>1. /\ phase' = phase /\ driver' = driver /\ given' = given /\ got' = got
      /\ response' = response /\ accepted' = accepted
  BY SMT
<1>2. Fixed'
  BY <1>1 DEF UtpInv, Fixed, Left
<1>3. Holds(phase', driver', given', got', net', late', response', accepted')
  BY <1>1 DEF Left
<1> QED BY <1>2, <1>3 DEF UtpInv

LEMMA AddsOn ==
  ASSUME NEW n, NEW l, NEW ph, NEW x, NEW packets, Left(n, l), accepted \in {0, 1}, IsSeq(packets)
  PROVE  Adds(Send(n, ph, x, packets), n, x, packets)
<1>1. ASSUME accepted = 0 PROVE \A y \in Ends : IsSeq(n[y])
  BY <1>1 DEF Left, Holds, Before
<1>2. ASSUME accepted = 1 PROVE \A y \in Ends : IsSeq(n[y])
  BY <1>2 DEF Left, Holds, IsLinked, Linked, Underway
<1>3. \A y \in Ends : IsSeq(n[y])
  BY <1>1, <1>2
<1> QED BY <1>3, SendAdds

(* The client asks again, or gives up.                                     *)
LEMMA AsksKeeps ==
  ASSUME NEW n, NEW x, NEW out, UtpInv, Left(n, late'), phase["client"] = "syn",
         Put(phase', phase, "client", phase'["client"]), phase'["client"] \in {"syn", "failed"},
         net' = Send(n, phase', x, out), IsSeq(out),
         \A p \in Range(out) : x = "server" /\ p.type = "SYN",
         UNCHANGED <<driver, given, got, response, accepted>>
  PROVE  UtpInv'
<1>1. driver' = driver /\ given' = given /\ got' = got /\ response' = response /\ accepted' = accepted
  BY SMT
<1>2. OnEnds(net')
  BY SendOnEnds
<1>3. Fixed'
  BY <1>1, <1>2 DEF UtpInv, Fixed, Left, Put
<1>4. ASSUME accepted \in {0, 1} PROVE Asks(phase, phase', n, net', x, out)
  <2>1. Adds(net', n, x, out)
    BY <1>4, AddsOn
  <2>2. phase'["server"] = phase["server"]
    BY BothEnds DEF Put
  <2> QED BY <2>1, <2>2 DEF Asks
<1>5. ASSUME accepted = 0 PROVE Before(phase', driver, given, got, net', late', response)
  <2>1. Before(phase, driver, given, got, n, late', response)
    BY <1>5 DEF Left, Holds
  <2>2. Asks(phase, phase', n, net', x, out)
    BY <1>4, <1>5
  <2> QED BY <2>1, <2>2, BeforeAsks
<1>6. ASSUME accepted = 1 PROVE IsLinked(phase', driver, given, got, net', late', response)
  <2>1. PICK g : Linked(phase, driver, given, got, n, late', response, g)
    BY <1>6 DEF Left, Holds, IsLinked
  <2>2. Asks(phase, phase', n, net', x, out)
    BY <1>4, <1>6
  <2>3. Linked(phase', driver, given, got, net', late', response, g)
    BY <2>1, <2>2, LinkedAsks
  <2> QED BY <2>3 DEF IsLinked
<1>7. Holds(phase', driver', given', got', net', late', response', accepted')
  BY <1>1, <1>5, <1>6 DEF Holds
<1> QED BY <1>3, <1>7 DEF UtpInv

LEMMA SeqOne == ASSUME NEW x PROVE IsSeq(<<x>>) /\ Range(<<x>>) = {x}
<1>1. <<x>> \in Seq({x}) /\ Len(<<x>>) = 1 /\ <<x>>[1] = x
  BY SMT
<1>2. PICK q : q = <<x>>
  OBVIOUS
<1>3. IsSeq(q)
  BY <1>1, <1>2 DEF IsSeq
<1>4. \A y : y \in Range(q) <=> \E i \in 1 .. Len(q) : q[i] = y
  BY <1>3, SeqFacts
<1>5. \A y : y \in Range(q) <=> y = x
  BY <1>1, <1>2, <1>4, SMT
<1> QED BY <1>2, <1>3, <1>5

(* connect_from_port tries again.                                          *)
LEMMA AgainKeeps ==
  ASSUME NEW n, NEW ticks, UtpInv, Left(n, late'), phase["client"] = "syn", Again(n, ticks)
  PROVE  UtpInv'
<1>1. PICK w : w = IF elapsed' >= ConnectRetries THEN "failed" ELSE phase["client"]
  OBVIOUS
<1>2. PICK out : out = IF elapsed' >= ConnectRetries THEN <<>> ELSE <<Syn>>
  OBVIOUS
<1>3. /\ phase' = [phase EXCEPT !["client"] = w] /\ net' = Send(n, phase', "server", out)
      /\ UNCHANGED <<driver, given, got, response, accepted>>
  BY <1>1, <1>2 DEF Again, app
<1>4. Put(phase', phase, "client", w)
  BY <1>3, BothEnds, Putting DEF UtpInv, Fixed
<1>5. phase'["client"] = w /\ w \in {"syn", "failed"}
  BY <1>1, <1>4 DEF Put
<1>6. IsSeq(out) /\ \A p \in Range(out) : p.type = "SYN"
  <2>1. Syn.type = "SYN"
    BY DEF Syn
  <2>2. IsSeq(<<Syn>>) /\ Range(<<Syn>>) = {Syn}
    BY SeqOne
  <2>3. CASE out = <<>>
    BY <2>3, SeqEmpty
  <2>4. CASE out = <<Syn>>
    BY <2>1, <2>2, <2>4
  <2> QED BY <1>2, <2>3, <2>4
<1> QED BY <1>3, <1>4, <1>5, <1>6, AsksKeeps

---------------------------------------------------------------------------
(* A packet p arrives at end e, and n and l are left.                      *)
Arriving(e, p, n, l, g) ==
  /\ Linked(phase, driver, given, got, n, l, response, g) /\ PacketTo(e, p, g)
  /\ phase["client"] = "syn" =>
       /\ e = "server" => p.type = "SYN"
       /\ e = "client" /\ p.type = "STATE" => p.seq = Nr(g["server"].base, 1)

Came(e, p, n, l) ==
  /\ Left(n, l)
  /\ accepted = 0 => p.type = IF e = "server" THEN "SYN" ELSE "RESET"
  /\ accepted = 1 => \E g : Arriving(e, p, n, l, g)

Rest(e, p, n, l) ==
  /\ OnEnds(n) /\ OnEnds(l)
  /\ accepted \in {0, 1} => Fewer(n, l, net, late) /\ (p \in Range(net[e]) \/ p \in late[e])

LEMMA LeftFewer ==
  ASSUME NEW n, NEW l, UtpInv, OnEnds(n), OnEnds(l), accepted \in {0, 1} => Fewer(n, l, net, late)
  PROVE  Left(n, l)
<1>1. ASSUME accepted = 0 PROVE Before(phase, driver, given, got, n, l, response)
  BY <1>1, BeforeFewer DEF UtpInv, Holds
<1>2. ASSUME accepted = 1 PROVE IsLinked(phase, driver, given, got, n, l, response)
  <2>1. PICK g : Linked(phase, driver, given, got, net, late, response, g)
    BY <1>2 DEF UtpInv, Holds, IsLinked
  <2>2. Fewer(n, l, net, late)
    BY <1>2
  <2>3. Linked(phase, driver, given, got, n, l, response, g)
    BY <2>1, <2>2, LinkedFewer
  <2> QED BY <2>3 DEF IsLinked
<1> QED BY <1>1, <1>2 DEF Left, Holds

(* A packet taken from the network belongs to the connection.              *)
LEMMA RestCame ==
  ASSUME NEW e \in Ends, NEW p, NEW n, NEW l, UtpInv, Rest(e, p, n, l)
  PROVE  Came(e, p, n, l)
<1>1. Left(n, l)
  BY LeftFewer DEF Rest
<1>2. ASSUME accepted = 0 PROVE p.type = IF e = "server" THEN "SYN" ELSE "RESET"
  <2>1. Before(phase, driver, given, got, net, late, response)
    BY <1>2 DEF UtpInv, Holds
  <2>2. p \in Range(net[e]) \/ p \in late[e]
    BY <1>2 DEF Rest
  <2> QED BY <2>1, <2>2 DEF Before
<1>3. ASSUME accepted = 1 PROVE \E g : Arriving(e, p, n, l, g)
  <2>1. PICK g : Linked(phase, driver, given, got, net, late, response, g)
    BY <1>3 DEF UtpInv, Holds, IsLinked
  <2>2. Fewer(n, l, net, late) /\ (p \in Range(net[e]) \/ p \in late[e])
    BY <1>3 DEF Rest
  <2>3. Linked(phase, driver, given, got, n, l, response, g)
    BY <2>1, <2>2, LinkedFewer
  <2>4. PacketTo(e, p, g)
    BY <2>1, <2>2 DEF Linked, Underway
  <2>5. ASSUME phase["client"] = "syn"
        PROVE  /\ e = "server" => p.type = "SYN"
               /\ e = "client" /\ p.type = "STATE" => p.seq = Nr(g["server"].base, 1)
    <3>1. Unheard(phase, driver, given["client"], net, late, g)
      BY <2>1, <2>5 DEF Linked, Opening
    <3> QED BY <2>2, <3>1 DEF Unheard
  <2> QED BY <2>3, <2>4, <2>5 DEF Arriving
<1> QED BY <1>1, <1>2, <1>3 DEF Came

(* The listener's packets.                                                 *)
LEMMA BeforeRefused ==
  ASSUME NEW ph, NEW d, NEW tots, NEW rcs, NEW n, NEW l, NEW resp, NEW n2, NEW out,
         Before(ph, d, tots, rcs, n, l, resp), Adds(n2, n, "client", out),
         \A p \in Range(out) : p.type = "RESET"
  PROVE  Before(ph, d, tots, rcs, n2, l, resp)
<1>1. ASSUME NEW e \in Ends
      PROVE  /\ IsSeq(n2[e])
             /\ \A p : p \in Range(n2[e]) \/ p \in l[e] =>
                         p.type = IF e = "server" THEN "SYN" ELSE "RESET"
  <2>1. /\ IsSeq(n2[e])
        /\ \A p \in Range(n2[e]) : p \in Range(n[e]) \/ (e = "client" /\ p \in Range(out))
    BY DEF Adds
  <2>2. \A p : p \in Range(n[e]) \/ p \in l[e] => p.type = IF e = "server" THEN "SYN" ELSE "RESET"
    BY DEF Before
  <2> QED BY <2>1, <2>2, BothEnds
<1> QED BY <1>1 DEF Before

(* handle_inbound_syn for a session that exists: the answer once more.     *)
LEMMA AcceptAgain ==
  ASSUME NEW n, UtpInv, Left(n, late'), phase["server"] = "open",
         net' = Send(n, phase, "client", response), UNCHANGED <<phase, driver, app, setup>>
  PROVE  UtpInv'
<1>1. UNCHANGED <<phase, driver, given, got, response, accepted>>
  BY DEF app, setup
<1>2. OnEnds(net')
  BY SendOnEnds
<1>3. accepted # 0
  BY BothEnds, NotBefore DEF UtpInv, Holds
<1>4. ASSUME accepted = 1 PROVE IsLinked(phase, driver, given, got, net', late', response)
  <2>1. PICK g : Linked(phase, driver, given, got, n, late', response, g)
    BY <1>4 DEF Left, Holds, IsLinked
  <2>2. IsSeq(response) /\ \A p \in Range(response) : Answer(p, g)
    BY <2>1 DEF Linked, Opening
  <2>3. Adds(net', n, "client", response)
    BY <1>4, <2>2, AddsOn
  <2>4. Linked(phase, driver, given, got, net', late', response, g)
    BY <2>1, <2>2, <2>3, LinkedAnswers
  <2> QED BY <2>4 DEF IsLinked
<1>5. Left(net', late')
  BY <1>2, <1>3, <1>4 DEF Left, Holds
<1> QED BY <1>1, <1>5, LeftKeeps

(* handle_inbound_syn with the accept queue full.                          *)
LEMMA AcceptRefused ==
  ASSUME NEW n, NEW p, UtpInv, Left(n, late'), p.type = "RESET",
         net' = Send(n, phase, "client", <<p>>),
         UNCHANGED <<phase, driver, given, got, response, accepted>>
  PROVE  UtpInv'
<1>2. OnEnds(net')
  BY SendOnEnds
<1>3. PICK out : out = <<p>>
  OBVIOUS
<1>4. IsSeq(out) /\ Range(out) = {p}
  BY <1>3, SeqOne
<1>5. \A x \in Range(out) : x.type = "RESET"
  BY <1>4
<1>6. accepted \in {0, 1} => Adds(net', n, "client", out)
  BY <1>3, <1>4, AddsOn
<1>7. ASSUME accepted = 0 PROVE Before(phase, driver, given, got, net', late', response)
  <2>1. Before(phase, driver, given, got, n, late', response)
    BY <1>7 DEF Left, Holds
  <2>2. Adds(net', n, "client", out)
    BY <1>6, <1>7
  <2> QED BY <1>5, <2>1, <2>2, BeforeRefused
<1>8. ASSUME accepted = 1 PROVE IsLinked(phase, driver, given, got, net', late', response)
  <2>1. PICK g : Linked(phase, driver, given, got, n, late', response, g)
    BY <1>8 DEF Left, Holds, IsLinked
  <2>2. Adds(net', n, "client", out)
    BY <1>6, <1>8
  <2>3. Linked(phase, driver, given, got, net', late', response, g)
    BY <1>5, <2>1, <2>2, LinkedAnswers
  <2> QED BY <2>3 DEF IsLinked
<1>9. Left(net', late')
  BY <1>2, <1>7, <1>8 DEF Left, Holds
<1> QED BY <1>9, LeftKeeps

LEMMA MoreThanOne == \A k \in Nat : k + 1 \in Nat /\ k + 1 # 0 /\ (k # 0 => k + 1 # 1)
  BY SMT

(* handle_inbound_syn: the listener opens a session.                       *)
LEMMA AcceptNew ==
  ASSUME NEW n, NEW p, NEW q \in Numbers, UtpInv, Left(n, late'),
         p.type = "STATE", p.seq = q, p.ack = ClientSeq, p.sack = {},
         driver' = [driver EXCEPT !["server"] = Driver(q, ClientSeq, 0, ReceiveWindow)],
         response' = <<p>>, net' = Send(n, phase, "client", <<p>>),
         phase' = [phase EXCEPT !["server"] = "open"], accepted' = accepted + 1,
         given' = [given EXCEPT !["server"] = 0], got' = [got EXCEPT !["server"] = <<>>]
  PROVE  UtpInv'
<1>1. OnEnds(phase) /\ OnEnds(driver) /\ OnEnds(given) /\ OnEnds(got) /\ accepted \in Nat
  BY DEF UtpInv, Fixed
<1>4. /\ Put(driver', driver, "server", Driver(q, ClientSeq, 0, ReceiveWindow))
      /\ Put(phase', phase, "server", "open")
      /\ Put(given', given, "server", 0) /\ Put(got', got, "server", <<>>)
  <2>1. Put(driver', driver, "server", Driver(q, ClientSeq, 0, ReceiveWindow))
    BY <1>1, BothEnds, Putting
  <2>2. Put(phase', phase, "server", "open")
    BY <1>1, BothEnds, Putting
  <2>3. Put(given', given, "server", 0)
    BY <1>1, BothEnds, Putting
  <2>4. Put(got', got, "server", <<>>)
    BY <1>1, BothEnds, Putting
  <2> QED BY <2>1, <2>2, <2>3, <2>4
<1>5. OnEnds(net') /\ OnEnds(late')
  BY SendOnEnds DEF Left
<1>6. accepted' \in Nat /\ accepted' # 0 /\ (accepted' = 1 => accepted = 0)
  BY <1>1, MoreThanOne
<1>7. Fixed'
  BY <1>4, <1>5, <1>6 DEF Fixed, Put
<1>8. ASSUME accepted = 0
      PROVE  IsLinked(phase', driver', given', got', net', late', response')
  <2>1. Before(phase, driver, given, got, n, late', response)
    BY <1>8 DEF Left, Holds
  <2>2. IsSeq(<<p>>)
    BY SeqOne
  <2>3. Adds(net', n, "client", <<p>>)
    BY <1>8, <2>2, AddsOn
  <2> QED BY <1>4, <2>1, <2>3, LinkedFirst
<1>9. Holds(phase', driver', given', got', net', late', response', accepted')
  BY <1>6, <1>8 DEF Holds
<1> QED BY <1>7, <1>9 DEF UtpInv

(* handle_inbound_syn.                                                     *)
LEMMA AcceptKeeps ==
  ASSUME NEW n, UtpInv, Left(n, late'), Accept(n)
  PROVE  UtpInv'
<1>1. CASE /\ phase["server"] = "open" /\ net' = Send(n, phase, "client", response)
           /\ UNCHANGED <<phase, driver, app, setup>>
  BY <1>1, AcceptAgain
<1>2. ASSUME NEW q \in ServerSeqs, NEW p,
             p = [type |-> "STATE", seq |-> q, ack |-> ClientSeq,
                  sack |-> {}, wnd |-> ReceiveWindow, payload |-> <<>>],
             driver' = [driver EXCEPT !["server"] = Driver(q, ClientSeq, 0, ReceiveWindow)],
             response' = <<p>>, net' = Send(n, phase, "client", <<p>>),
             phase' = [phase EXCEPT !["server"] = "open"], accepted' = accepted + 1,
             given' = [given EXCEPT !["server"] = 0], got' = [got EXCEPT !["server"] = <<>>]
      PROVE  UtpInv'
  <2>1. p.type = "STATE" /\ p.seq = q /\ p.ack = ClientSeq /\ p.sack = {}
    BY <1>2
  <2>2. q \in Numbers
    BY <1>2, EndsAssumption DEF Numbers
  <2> QED BY <1>2, <2>1, <2>2, AcceptNew
<1>3. ASSUME NEW p, p = [Syn EXCEPT !.type = "RESET", !.seq = 0, !.ack = ClientSeq],
             net' = Send(n, phase, "client", <<p>>),
             UNCHANGED <<phase, driver, app, elapsed, response, accepted>>
      PROVE  UtpInv'
  <2>1. p.type = "RESET"
    BY <1>3 DEF Syn
  <2>2. UNCHANGED <<phase, driver, given, got, response, accepted>>
    BY <1>3 DEF app
  <2> QED BY <1>3, <2>1, <2>2, AcceptRefused
<1> QED BY <1>1, <1>2, <1>3 DEF Accept

(* The client's connect loop.                                              *)
Hears(d2, d, q, p) ==
  Put(d2, d, "client", Driver(wrapping_add(ClientSeq, 1), wrapping_sub(q, 1), p.ack, p.wnd))

Hearing(ph, d, tots, rcs, n, l, resp, ph2, d2, p) ==
  /\ ph["client"] = "syn" /\ Put(ph2, ph, "client", "open") /\ Hears(d2, d, p.seq, p)
  /\ \E g : Linked(ph, d, tots, rcs, n, l, resp, g) /\ p.seq = Nr(g["server"].base, 1)

LEMMA HearingLinked ==
  ASSUME NEW ph, NEW d, NEW tots, NEW rcs, NEW n, NEW l, NEW resp, NEW ph2, NEW d2, NEW p,
         Hearing(ph, d, tots, rcs, n, l, resp, ph2, d2, p)
  PROVE  IsLinked(ph2, d2, tots, rcs, n, l, resp)
<1>1. PICK g : Linked(ph, d, tots, rcs, n, l, resp, g) /\ p.seq = Nr(g["server"].base, 1)
  BY DEF Hearing
<1>2. /\ ph["client"] = "syn" /\ Put(ph2, ph, "client", "open")
      /\ Hears(d2, d, Nr(g["server"].base, 1), p)
  BY <1>1 DEF Hearing
<1>3. Put(d2, d, "client",
          Driver(wrapping_add(ClientSeq, 1), wrapping_sub(Nr(g["server"].base, 1), 1), p.ack, p.wnd))
  BY <1>2 DEF Hears
<1>4. Linked(ph2, d2, tots, rcs, n, l, resp, g)
  BY <1>1, <1>2, <1>3, LinkedHeard
<1> QED BY <1>4 DEF IsLinked

(* connect_from_port has its answer, which is the listener's: until then   *)
(* the listener's driver sends no other packet that looks like it.         *)
LEMMA HeardKeeps ==
  ASSUME NEW p, NEW n, UtpInv, Came("client", p, n, late'), phase["client"] = "syn",
         p.type = "STATE", phase' = [phase EXCEPT !["client"] = "open"],
         driver' = [driver EXCEPT !["client"] =
                      Driver(wrapping_add(ClientSeq, 1), wrapping_sub(p.seq, 1), p.ack, p.wnd)],
         net' = n, UNCHANGED <<given, got, response, accepted>>
  PROVE  UtpInv'
<1>1. given' = given /\ got' = got /\ response' = response /\ accepted' = accepted
  BY SMT
<1>2. OnEnds(phase) /\ OnEnds(driver)
  BY DEF UtpInv, Fixed
<1>5. Hears(driver', driver, p.seq, p) /\ Put(phase', phase, "client", "open")
  <2>1. Hears(driver', driver, p.seq, p)
    BY <1>2, BothEnds, Putting DEF Hears
  <2>2. Put(phase', phase, "client", "open")
    BY <1>2, BothEnds, Putting
  <2> QED BY <2>1, <2>2
<1>6. Fixed'
  BY <1>1, <1>5 DEF UtpInv, Fixed, Came, Left, Put, Hears
<1>7. accepted # 0
  BY BothEnds DEF Came
<1>8. ASSUME accepted = 1 PROVE IsLinked(phase', driver', given, got, n, late', response)
  <2>1. PICK g : Arriving("client", p, n, late', g)
    BY <1>8 DEF Came
  <2>2. p.seq = Nr(g["server"].base, 1) /\ Linked(phase, driver, given, got, n, late', response, g)
    BY <2>1 DEF Arriving
  <2>3. Hearing(phase, driver, given, got, n, late', response, phase', driver', p)
    BY <1>5, <2>2 DEF Hearing
  <2> QED BY <2>3, HearingLinked
<1>9. Holds(phase', driver', given', got', net', late', response', accepted')
  BY <1>1, <1>7, <1>8 DEF Holds
<1> QED BY <1>6, <1>9 DEF UtpInv

(* connect_from_port gives up.                                             *)
LEMMA GivenUp ==
  ASSUME NEW n, UtpInv, Left(n, late'), phase["client"] = "syn",
         phase' = [phase EXCEPT !["client"] = "failed"], net' = Send(n, phase', "client", <<>>),
         UNCHANGED <<driver, given, got, response, accepted>>
  PROVE  UtpInv'
<1>1. Put(phase', phase, "client", "failed")
  BY BothEnds, Putting DEF UtpInv, Fixed
<1>2. phase'["client"] = "failed"
  BY <1>1 DEF Put
<1>3. PICK out : out = <<>>
  OBVIOUS
<1>4. IsSeq(out) /\ \A p \in Range(out) : "client" = "server" /\ p.type = "SYN"
  BY <1>3, SeqEmpty
<1> QED BY <1>1, <1>2, <1>3, <1>4, AsksKeeps

(* connect_from_port hears a packet.                                       *)
LEMMA ConnectKeeps ==
  ASSUME NEW p, NEW n, NEW isLate, UtpInv, Came("client", p, n, late'), phase["client"] = "syn",
         ConnectReceive(p, n, isLate)
  PROVE  UtpInv'
<1>1. Left(n, late')
  BY DEF Came
<1>2. CASE /\ p.type = "RESET" /\ phase' = [phase EXCEPT !["client"] = "failed"]
           /\ net' = Send(n, phase', "client", <<>>) /\ UNCHANGED <<driver, app, setup>>
  <2>1. UNCHANGED <<driver, given, got, response, accepted>>
    BY <1>2 DEF app, setup
  <2> QED BY <1>1, <1>2, <2>1, GivenUp
<1>3. CASE /\ p.type = "STATE" /\ phase' = [phase EXCEPT !["client"] = "open"]
           /\ driver' = [driver EXCEPT !["client"] =
                Driver(wrapping_add(ClientSeq, 1), wrapping_sub(p.seq, 1), p.ack, p.wnd)]
           /\ net' = n /\ UNCHANGED <<app, setup>>
  <2>1. UNCHANGED <<given, got, response, accepted>>
    BY <1>3 DEF app, setup
  <2> QED BY <1>3, <2>1, HeardKeeps
<1>4. ASSUME NEW ticks, Again(n, ticks) PROVE UtpInv'
  BY <1>1, <1>4, AgainKeeps
<1> QED BY <1>2, <1>3, <1>4 DEF ConnectReceive

(* A driver's packet.                                                      *)
LEMMA DriverKeeps ==
  ASSUME SetFacts, NEW e \in Ends, NEW p, NEW n, NEW isLate, UtpInv, Came(e, p, n, late'),
         p.type # "SYN", phase[e] = "open", DriverReceive(e, p, n, isLate)
  PROVE  UtpInv'
<1>1. PICK at, due, s :
        /\ s \in process_incoming_packet(driver[e], p, at, due) /\ Turn(e, s, n)
        /\ got' = [got EXCEPT ![e] = got[e] \o s.up]
  <2>1. PICK due \in IF isLate THEN BOOLEAN ELSE {FALSE},
             reads \in {"late"} \cup (IF p.type = "DATA" THEN Reading ELSE {}) :
          \E s \in process_incoming_packet(driver[e], p,
                     [closed |-> closed[e], unread |-> Unread(e), reads |-> reads], due) :
            Turn(e, s, n) /\ got' = [got EXCEPT ![e] = got[e] \o s.up]
    BY DEF DriverReceive
  <2>2. PICK at : at = [closed |-> closed[e], unread |-> Unread(e), reads |-> reads]
    OBVIOUS
  <2>3. PICK s \in process_incoming_packet(driver[e], p, at, due) :
          Turn(e, s, n) /\ got' = [got EXCEPT ![e] = got[e] \o s.up]
    BY <2>1, <2>2
  <2> QED BY <2>3
<1>2. given' = given /\ accepted' = accepted
  BY DEF DriverReceive
<1>3. OnEnds(got) /\ OnEnds(given')
  BY <1>2 DEF UtpInv, Fixed
<1>4. PICK v : v = got[e] \o s.up
  OBVIOUS
<1>5. got' = [got EXCEPT ![e] = v]
  BY <1>1, <1>4
<1>6. Put(got', got, e, v)
  BY <1>3, <1>5, Putting
<1>7. OnEnds(got') /\ OnEnds(late') /\ got'[e] = got[e] \o s.up /\ got'[Other(e)] = got[Other(e)]
  BY <1>4, <1>6 DEF Put, Came, Left
<1>8. ASSUME accepted = 1
      PROVE  SteppedOn(e, s, phase, driver, given', got', n, late', response)
  <2>1. PICK g : Arriving(e, p, n, late', g)
    BY <1>8 DEF Came
  <2>2. phase["client"] # "syn"
    BY <2>1, BothEnds DEF Arriving
  <2>3. Linked(phase, driver, given, got, n, late', response, g) /\ PacketTo(e, p, g)
    BY <2>1 DEF Arriving
  <2>4. SteppedOn(e, s, phase, driver, given, got', n, late', response)
    BY <1>1, <1>7, <2>2, <2>3, SteppedIn
  <2> QED BY <1>2, <2>4
<1> QED BY <1>1, <1>2, <1>3, <1>7, <1>8, TurnKeeps

(* A packet arrives.                                                       *)
LEMMA ArriveKeeps ==
  ASSUME SetFacts, NEW e \in Ends, NEW p, NEW n, NEW isLate, UtpInv, Came(e, p, n, late'),
         Arrive(e, p, n, isLate)
  PROVE  UtpInv'
<1>1. Left(n, late')
  BY DEF Came
<1>2. CASE e = "server" /\ p.type = "SYN" /\ Accept(n)
  BY <1>1, <1>2, AcceptKeeps
<1>3. CASE e = "client" /\ phase[e] = "syn" /\ ConnectReceive(p, n, isLate)
  BY <1>3, ConnectKeeps
<1>4. CASE p.type # "SYN" /\ phase[e] = "open" /\ DriverReceive(e, p, n, isLate)
  BY <1>4, DriverKeeps
<1>5. CASE net' = n /\ UNCHANGED <<phase, driver, app, setup>>
  <2>1. UNCHANGED <<phase, driver, given, got, response, accepted>>
    BY <1>5 DEF app, setup
  <2>2. Left(net', late')
    BY <1>1, <1>5
  <2> QED BY <2>1, <2>2, LeftKeeps
<1> QED BY <1>2, <1>3, <1>4, <1>5 DEF Arrive

---------------------------------------------------------------------------
(* What the network does.                                                  *)
LEMMA NetSequences ==
  ASSUME UtpInv, accepted \in {0, 1}
  PROVE  \A y \in Ends : IsSeq(net[y])
<1>1. ASSUME accepted = 0 PROVE \A y \in Ends : IsSeq(net[y])
  BY <1>1 DEF UtpInv, Holds, Before
<1>2. ASSUME accepted = 1 PROVE \A y \in Ends : IsSeq(net[y])
  BY <1>2 DEF UtpInv, Holds, IsLinked, Linked, Underway
<1> QED BY <1>1, <1>2

(* l holds what is late in l0, and of what is in n0.                       *)
Later(l, n0, l0) == \A y \in Ends : \A p \in l[y] : p \in l0[y] \/ p \in Range(n0[y])

(* Taking the packet at the head.                                          *)
LEMMA FewerPop ==
  ASSUME NEW e \in Ends, NEW n, NEW l, NEW n0, NEW l0, \A y \in Ends : IsSeq(n0[y]),
         n0[e] # <<>>, Put(n, n0, e, Tail(n0[e])), Later(l, n0, l0)
  PROVE  Fewer(n, l, n0, l0)
<1>1. IsSeq(n0[e])
  BY SMT
<1>2. IsSeq(Tail(n0[e])) /\ Range(Tail(n0[e])) \subseteq Range(n0[e])
  BY <1>1, SeqTail
<1>3. ASSUME NEW y \in Ends PROVE IsSeq(n[y]) /\ \A p \in Range(n[y]) : p \in Range(n0[y])
  <2>1. CASE y = e
    BY <1>2, <2>1 DEF Put
  <2>2. CASE y = Other(e)
    BY <2>2 DEF Put
  <2> QED BY <2>1, <2>2, TwoEnds
<1> QED BY <1>3 DEF Fewer, Later

LEMMA HeadUnderway ==
  ASSUME NEW e \in Ends, UtpInv, accepted \in {0, 1}, net[e] # <<>>
  PROVE  Head(net[e]) \in Range(net[e])
<1>1. IsSeq(net[e])
  BY NetSequences
<1> QED BY <1>1, SeqTail

LEMMA PopLeft ==
  ASSUME NEW e \in Ends, NEW n, NEW l, UtpInv, net[e] # <<>>, Put(n, net, e, Tail(net[e])),
         OnEnds(l), accepted \in {0, 1} => Later(l, net, late)
  PROVE  /\ OnEnds(n) /\ (accepted \in {0, 1} => Fewer(n, l, net, late))
         /\ Left(n, l)
<1>1. OnEnds(n)
  BY DEF Put
<1>2. ASSUME accepted \in {0, 1} PROVE Fewer(n, l, net, late)
  <2>1. \A y \in Ends : IsSeq(net[y])
    BY <1>2, NetSequences
  <2>2. Later(l, net, late)
    BY <1>2
  <2> QED BY <2>1, <2>2, FewerPop
<1> QED BY <1>1, <1>2, LeftFewer

LEMMA SameLate == Later(late, net, late)
  BY DEF Later

(* The packet at the head arrives.                                         *)
LEMMA ReceiveKeeps == ASSUME SetFacts, NEW e \in Ends, UtpInv, Receive(e) PROVE UtpInv'
<1>1. net[e] # <<>> /\ late' = late
  BY DEF Receive
<1>2. PICK n, p : n = [net EXCEPT ![e] = Tail(net[e])] /\ p = Head(net[e])
  OBVIOUS
<1>3. Arrive(e, p, n, FALSE)
  BY <1>2 DEF Receive
<1>4. OnEnds(net) /\ OnEnds(late)
  BY DEF UtpInv, Fixed
<1>5. Put(n, net, e, Tail(net[e]))
  BY <1>2, <1>4, Putting
<1>6. OnEnds(n) /\ (accepted \in {0, 1} => Fewer(n, late, net, late))
  BY <1>1, <1>4, <1>5, SameLate, PopLeft
<1>7. accepted \in {0, 1} => p \in Range(net[e])
  BY <1>1, <1>2, HeadUnderway
<1>8. Rest(e, p, n, late')
  BY <1>1, <1>4, <1>6, <1>7 DEF Rest
<1>9. Came(e, p, n, late')
  BY <1>8, RestCame
<1> QED BY <1>3, <1>9, ArriveKeeps

(* A late packet arrives.                                                  *)
LEMMA ReceiveLateKeeps == ASSUME SetFacts, NEW e \in Ends, UtpInv, ReceiveLate(e) PROVE UtpInv'
<1>1. PICK p \in late[e] : Arrive(e, p, net, TRUE) /\ late' = [late EXCEPT ![e] = late[e] \ {p}]
  BY DEF ReceiveLate
<1>2. PICK v : v = late[e] \ {p}
  OBVIOUS
<1>3. OnEnds(net) /\ OnEnds(late)
  BY DEF UtpInv, Fixed
<1>4. Put(late', late, e, v)
  <2>1. late' = [late EXCEPT ![e] = v]
    BY <1>1, <1>2
  <2> QED BY <1>3, <2>1, Putting
<1>5. OnEnds(late') /\ \A y \in Ends : \A x \in late'[y] : x \in late[y]
  <2>1. late'[e] = v /\ late'[Other(e)] = late[Other(e)] /\ OnEnds(late')
    BY <1>4 DEF Put
  <2>2. \A x \in v : x \in late[e]
    BY <1>2
  <2> QED BY <2>1, <2>2, TwoEnds
<1>6. ASSUME accepted \in {0, 1} PROVE Fewer(net, late', net, late)
  BY <1>5, <1>6, NetSequences DEF Fewer
<1>7. Rest(e, p, net, late')
  BY <1>1, <1>3, <1>5, <1>6 DEF Rest
<1>8. Came(e, p, net, late')
  BY <1>7, RestCame
<1> QED BY <1>1, <1>8, ArriveKeeps

(* A packet is lost.                                                       *)
LEMMA LoseKeeps == ASSUME NEW e \in Ends, UtpInv, Lose(e) PROVE UtpInv'
<1>1. /\ net[e] # <<>> /\ net' = [net EXCEPT ![e] = Tail(net[e])] /\ late' = late
      /\ UNCHANGED <<phase, driver, given, got, response, accepted>>
  BY DEF Lose, app, setup
<1>2. OnEnds(net) /\ OnEnds(late)
  BY DEF UtpInv, Fixed
<1>3. Put(net', net, e, Tail(net[e]))
  BY <1>1, <1>2, Putting
<1>4. Left(net', late)
  BY <1>1, <1>2, <1>3, SameLate, PopLeft
<1>5. Left(net', late')
  BY <1>1, <1>4
<1> QED BY <1>1, <1>5, LeftKeeps

(* The packet at the head arrives later, or a copy of it does.             *)
LEMMA HeadLater ==
  ASSUME NEW e \in Ends, UtpInv, net[e] # <<>>,
         late' = [late EXCEPT ![e] = late[e] \cup {Head(net[e])}]
  PROVE  OnEnds(late') /\ (accepted \in {0, 1} => Later(late', net, late))
<1>1. PICK p, v : p = Head(net[e]) /\ v = late[e] \cup {p}
  OBVIOUS
<1>2. OnEnds(late)
  BY DEF UtpInv, Fixed
<1>3. Put(late', late, e, late[e] \cup {Head(net[e])})
  BY <1>2, Putting
<1>4. late'[e] = v /\ late'[Other(e)] = late[Other(e)] /\ OnEnds(late')
  BY <1>1, <1>3 DEF Put
<1>5. ASSUME accepted \in {0, 1} PROVE Later(late', net, late)
  <2>1. p \in Range(net[e])
    BY <1>1, <1>5, HeadUnderway
  <2>2. \A x \in v : x \in late[e] \/ x \in Range(net[e])
    BY <1>1, <2>1
  <2> QED BY <1>4, <2>2, TwoEnds DEF Later
<1> QED BY <1>4, <1>5

(* A packet is held up.                                                    *)
LEMMA DelayKeeps == ASSUME NEW e \in Ends, UtpInv, Delay(e) PROVE UtpInv'
<1>1. /\ net[e] # <<>> /\ net' = [net EXCEPT ![e] = Tail(net[e])]
      /\ late' = [late EXCEPT ![e] = late[e] \cup {Head(net[e])}]
      /\ UNCHANGED <<phase, driver, given, got, response, accepted>>
  BY DEF Delay, app, setup
<1>2. OnEnds(net)
  BY DEF UtpInv, Fixed
<1>3. Put(net', net, e, Tail(net[e]))
  BY <1>1, <1>2, Putting
<1>4. OnEnds(late') /\ (accepted \in {0, 1} => Later(late', net, late))
  BY <1>1, HeadLater
<1>5. net[e] # <<>> /\ UNCHANGED <<phase, driver, given, got, response, accepted>>
  BY <1>1
<1>6. Left(net', late')
  BY <1>3, <1>4, <1>5, PopLeft
<1> QED BY <1>5, <1>6, LeftKeeps

(* A packet is doubled.                                                    *)
LEMMA DuplicateKeeps == ASSUME NEW e \in Ends, UtpInv, Duplicate(e) PROVE UtpInv'
<1>1. /\ net[e] # <<>> /\ net' = net
      /\ late' = [late EXCEPT ![e] = late[e] \cup {Head(net[e])}]
      /\ UNCHANGED <<phase, driver, given, got, response, accepted>>
  BY DEF Duplicate, app, setup
<1>2. OnEnds(late') /\ (accepted \in {0, 1} => Later(late', net, late))
  BY <1>1, HeadLater
<1>3. OnEnds(net)
  BY DEF UtpInv, Fixed
<1>4. accepted \in {0, 1} => Fewer(net, late', net, late)
  BY <1>2, NetSequences DEF Fewer, Later
<1>5. Left(net, late')
  BY <1>2, <1>3, <1>4, LeftFewer
<1>6. Left(net', late')
  BY <1>1, <1>5
<1> QED BY <1>1, <1>6, LeftKeeps

LEMMA SameLeft == ASSUME UtpInv PROVE Left(net, late)
  BY DEF UtpInv, Fixed, Left

(* The connect timer, and a connect call that is dropped.                  *)
LEMMA ConnectTimeoutKeeps == ASSUME UtpInv, ConnectTimeout PROVE UtpInv'
<1>1. phase["client"] = "syn" /\ Again(net, 1) /\ late' = late
  BY DEF ConnectTimeout
<1>2. Left(net, late')
  BY <1>1, SameLeft
<1> QED BY <1>1, <1>2, AgainKeeps

LEMMA ConnectAbandonedKeeps == ASSUME UtpInv, ConnectAbandoned PROVE UtpInv'
<1>1. /\ phase["client"] = "syn" /\ phase' = [phase EXCEPT !["client"] = "failed"]
      /\ net' = Send(net, phase', "client", <<>>) /\ late' = late
      /\ UNCHANGED <<driver, given, got, response, accepted>>
  BY DEF ConnectAbandoned, app
<1>2. Left(net, late')
  BY <1>1, SameLeft
<1> QED BY <1>1, <1>2, GivenUp

---------------------------------------------------------------------------
(* A driver's own steps.                                                   *)

(* A step that takes nothing in keeps the invariant.                       *)
LEMMA OutKeeps ==
  ASSUME SetFacts, NEW e \in Ends, NEW s, UtpInv, phase[e] = "open", Turn(e, s, net), OnEnds(given'),
         given'[Other(e)] = given[Other(e)], UNCHANGED <<got, late, accepted>>,
         \A g : Linked(phase, driver, given, got, net, late, response, g)
                  => Outgoing(e, s, driver, given', got, g)
  PROVE  UtpInv'
<1>1. got' = got /\ late' = late /\ accepted' = accepted
  BY SMT
<1>2. OnEnds(got') /\ OnEnds(late')
  BY <1>1 DEF UtpInv, Fixed
<1>3. ASSUME accepted = 1 PROVE SteppedOn(e, s, phase, driver, given', got, net, late, response)
  <2>1. PICK g : Linked(phase, driver, given, got, net, late, response, g)
    BY <1>3 DEF UtpInv, Holds, IsLinked
  <2>2. Outgoing(e, s, driver, given', got, g)
    BY <2>1
  <2>3. Stepped(e, s, phase, driver, given', got, got[e], net, late, response, g)
    BY <2>1, <2>2, SteppedOut
  <2> QED BY <2>3 DEF SteppedOn
<1>4. accepted = 1 => SteppedOn(e, s, phase, driver, given', got', net, late', response)
  BY <1>1, <1>3
<1> QED BY <1>1, <1>2, <1>4, TurnKeeps

(* The driver reads from its application: k bytes more.                    *)
LEMMA TotalMore ==
  ASSUME NEW g, NEW total, NEW k \in Nat, WellFormed(g, total), ~g.fin, total + k + 2 <= Half
  PROVE  WellFormed(g, total + k)
<1>1. total \in Nat /\ g.n \in Nat /\ g.cut[g.n] \in Nat /\ g.cut[g.n] <= total
  BY DEF WellFormed, Kinds, Cuts
<1>2. total + k \in Nat /\ g.cut[g.n] <= total + k /\ (total + k) + 2 <= Half
  BY <1>1, SpaceInt, SMT
<1>3. Cuts(g, total + k)
  BY <1>2 DEF WellFormed, Cuts
<1> QED BY <1>3 DEF WellFormed

LEMMA NewBytes ==
  ASSUME NEW a \in Nat, NEW k \in Nat
  PROVE  [i \in 1 .. k |-> a + i] = Span(a, a + k)
<1>1. (a + k) - a = k
  BY SMT
<1> QED BY <1>1 DEF Span

ReadAs(d, x, bytes) ==
  /\ DOMAIN x = DriverFields /\ SameRecv(d, x) /\ x.acks = d.acks
  /\ x.pending = Append(d.pending, bytes)
  /\ x.next_send = d.next_send /\ x.unacked = d.unacked /\ x.local_eof = d.local_eof
  /\ x.fin_sent = d.fin_sent /\ x.packet_size = d.packet_size

LEMMA ReadingAs ==
  ASSUME NEW d, NEW bytes, DOMAIN d = DriverFields
  PROVE  ReadAs(d, [d EXCEPT !.pending = Append(@, bytes)], bytes)
  BY DEF ReadAs, DriverFields, SameRecv

(* Bytes read are pending behind the others.                               *)
LEMMA ReadSide ==
  ASSUME NEW d, NEW x, NEW g, NEW total, NEW k \in Nat, WellFormed(g, total), SendSide(d, g, total),
         ~d.local_eof, k > 0, ReadAs(d, x, Span(total, total + k))
  PROVE  SendSide(x, g, total + k) /\ ~g.fin
<1>1. ~g.fin
  BY DEF SendSide
<1>2. total \in Nat /\ g.cut[g.n] \in Nat
  BY DEF WellFormed, Kinds, Cuts
<1>3. total + k \in Nat /\ total < total + k
  BY <1>2, SMT
<1>4. Queue(d.pending, g.cut[g.n], total)
  BY DEF SendSide
<1>5. Queue(Append(d.pending, Span(total, total + k)), g.cut[g.n], total + k)
  BY <1>2, <1>3, <1>4, QueueAppend
<1>6. Queue(x.pending, g.cut[g.n], total + k)
  BY <1>5 DEF ReadAs
<1> QED BY <1>1, <1>6 DEF SendSide, ReadAs, Covered

EndAs(d, x) ==
  /\ DOMAIN x = DriverFields /\ SameRecv(d, x) /\ x.acks = d.acks
  /\ x.pending = d.pending /\ x.local_eof
  /\ x.next_send = d.next_send /\ x.unacked = d.unacked
  /\ x.fin_sent = d.fin_sent /\ x.packet_size = d.packet_size

LEMMA EndingAs ==
  ASSUME NEW d, DOMAIN d = DriverFields
  PROVE  EndAs(d, [d EXCEPT !.local_eof = TRUE])
  BY DEF EndAs, DriverFields, SameRecv

(* The handler goes on from driver state x instead of d[e].                *)
LEMMA OutgoingFrom ==
  ASSUME NEW e \in Ends, NEW x, NEW ph, NEW d, NEW tots, NEW rcs, NEW g, NEW tots2,
         OpenAt(e, ph, d, tots, rcs, g), WellFormed(g[e], tots2[e]), tots2[e] <= Wrote[e],
         DOMAIN x = DriverFields, SendSide(x, g[e], tots2[e]), SameRecv(d[e], x), x.acks = d[e].acks
  PROVE  Outgoing(e, Step(x), d, tots2, rcs, g)
<1>1. PICK gs, gr, total, rcv :
        gs = g[e] /\ gr = g[Other(e)] /\ total = tots2[e] /\ rcv = rcs[e]
  OBVIOUS
<1>2. RecvSide(d[e], gr) /\ rcv \o <<>> = rcv /\ rcv = Span(0, gr.cut[gr.r])
  BY <1>1 DEF OpenAt
<1>3. RecvSide(x, gr)
  BY <1>2, RecvSame
<1>4. SendSide(x, gs, total)
  BY <1>1
<1>5. /\ StepOK(Step(x), gs, gr, total, rcv) /\ ~Step(x).err /\ Step(x).up = <<>>
      /\ x.acks = 0 => Mute(Step(x))
  BY <1>2, <1>3, <1>4, Starting
<1>6. d[e].acks = 0 => Mute(Step(x)) /\ \A p \in Range(Step(x).out) : p.type # "STATE"
  BY <1>5 DEF Mute
<1> QED BY <1>1, <1>5, <1>6 DEF Outgoing

MoreRead(x, k, t) == Step([x EXCEPT !.pending = Append(@, [i \in 1 .. k |-> t + i])])

(* The two results of the driver's read: bytes, and the end.               *)
LEMMA ReadsMore ==
  ASSUME NEW e \in Ends, NEW k \in Nat, NEW ph, NEW d, NEW tots, NEW rcs, NEW n, NEW l, NEW resp,
         NEW g, NEW tots2, ShortStreams, Linked(ph, d, tots, rcs, n, l, resp, g), ph[e] = "open",
         ~d[e].local_eof, k > 0, tots[e] + k <= Wrote[e], tots2[e] = tots[e] + k
  PROVE  Outgoing(e, MoreRead(d[e], k, tots[e]), d, tots2, rcs, g)
<1>1. OpenAt(e, ph, d, tots, rcs, g)
  BY OpenFacts
<1>2. PICK t : t = tots[e]
  OBVIOUS
<1>3. WellFormed(g[e], t) /\ SendSide(d[e], g[e], t) /\ DOMAIN d[e] = DriverFields
  BY <1>1, <1>2 DEF OpenAt
<1>4. t \in Nat /\ Wrote[e] \in Nat /\ Wrote[e] + 2 <= Half /\ t + k <= Wrote[e]
  BY <1>2, <1>3, EndsAssumption DEF WellFormed, Cuts, ShortStreams
<1>5. t + k + 2 <= Half
  BY <1>4, SpaceInt, SMT
<1>6. PICK x : x = [d[e] EXCEPT !.pending = Append(@, [i \in 1 .. k |-> t + i])]
  OBVIOUS
<1>7. [i \in 1 .. k |-> t + i] = Span(t, t + k)
  BY <1>4, NewBytes
<1>8. x = [d[e] EXCEPT !.pending = Append(@, Span(t, t + k))]
  BY <1>6, <1>7
<1>9. ReadAs(d[e], x, Span(t, t + k))
  BY <1>3, <1>8, ReadingAs
<1>10. SendSide(x, g[e], t + k) /\ ~g[e].fin
  BY <1>3, <1>9, ReadSide
<1>11. WellFormed(g[e], t + k)
  BY <1>3, <1>5, <1>10, TotalMore
<1>12. tots2[e] = t + k /\ tots2[e] <= Wrote[e]
  BY <1>2
<1>13. WellFormed(g[e], tots2[e]) /\ SendSide(x, g[e], tots2[e])
  BY <1>10, <1>11, <1>12
<1>14. DOMAIN x = DriverFields /\ SameRecv(d[e], x) /\ x.acks = d[e].acks
  BY <1>9 DEF ReadAs
<1>15. Outgoing(e, Step(x), d, tots2, rcs, g)
  BY <1>1, <1>12, <1>13, <1>14, OutgoingFrom
<1>16. MoreRead(d[e], k, tots[e]) = Step(x)
  BY <1>2, <1>6 DEF MoreRead
<1> QED BY <1>15, <1>16

LEMMA ReadsEnd ==
  ASSUME NEW e \in Ends, NEW ph, NEW d, NEW tots, NEW rcs, NEW n, NEW l, NEW resp, NEW g,
         Linked(ph, d, tots, rcs, n, l, resp, g), ph[e] = "open"
  PROVE  Outgoing(e, Step([d[e] EXCEPT !.local_eof = TRUE]), d, tots, rcs, g)
<1>1. OpenAt(e, ph, d, tots, rcs, g)
  BY OpenFacts
<1>2. /\ WellFormed(g[e], tots[e]) /\ SendSide(d[e], g[e], tots[e]) /\ DOMAIN d[e] = DriverFields
      /\ tots[e] <= Wrote[e]
  BY <1>1 DEF OpenAt
<1>3. PICK x : x = [d[e] EXCEPT !.local_eof = TRUE]
  OBVIOUS
<1>4. EndAs(d[e], x)
  BY <1>2, <1>3, EndingAs
<1>5. SendSide(x, g[e], tots[e])
  BY <1>2, <1>4 DEF SendSide, EndAs, Covered
<1>6. DOMAIN x = DriverFields /\ SameRecv(d[e], x) /\ x.acks = d[e].acks
  BY <1>4 DEF EndAs
<1>7. Outgoing(e, Step(x), d, tots, rcs, g)
  BY <1>1, <1>2, <1>5, <1>6, OutgoingFrom
<1> QED BY <1>3, <1>7

---------------------------------------------------------------------------
(* run_utp_driver reads from its application.                              *)
LEMMA ReadKeeps == ASSUME SetFacts, NEW e \in Ends, ShortStreams, UtpInv, Read(e) PROVE UtpInv'
<1>1. phase[e] = "open" /\ ~driver[e].local_eof /\ UNCHANGED <<got, late, accepted>>
  BY DEF Read, CanRead
<1>2. OnEnds(given)
  BY DEF UtpInv, Fixed
<1>3. ASSUME NEW k \in ReadSizes \cup {Wrote[e] - given[e]}, k > 0, given[e] + k <= Wrote[e],
             given' = [given EXCEPT ![e] = given[e] + k],
             Turn(e, Step([driver[e] EXCEPT !.pending =
                             Append(@, [i \in 1 .. k |-> given[e] + i])]), net)
      PROVE  UtpInv'
  <2>1. PICK s : s = MoreRead(driver[e], k, given[e])
    OBVIOUS
  <2>2. Turn(e, s, net)
    BY <1>3, <2>1 DEF MoreRead
  <2>3. Put(given', given, e, given[e] + k)
    BY <1>2, <1>3, Putting
  <2>4. given'[e] = given[e] + k /\ given'[Other(e)] = given[Other(e)] /\ OnEnds(given')
    BY <2>3 DEF Put
  <2>5. ASSUME NEW g, Linked(phase, driver, given, got, net, late, response, g)
        PROVE  Outgoing(e, s, driver, given', got, g)
    <3>1. OpenAt(e, phase, driver, given, got, g)
      BY <1>1, <2>5, OpenFacts
    <3>2. given[e] \in Nat /\ Wrote[e] \in Nat /\ ReadSizes \subseteq Nat
      BY <3>1, EndsAssumption DEF OpenAt, WellFormed, Cuts
    <3>3. k \in Nat
      BY <1>3, <3>2, SMT
    <3>4. Outgoing(e, MoreRead(driver[e], k, given[e]), driver, given', got, g)
      BY <1>1, <1>3, <2>4, <2>5, <3>3, ReadsMore
    <3> QED BY <2>1, <3>4
  <2> QED BY <1>1, <2>2, <2>4, <2>5, OutKeeps
<1>4. ASSUME Turn(e, Step([driver[e] EXCEPT !.local_eof = TRUE]), net), given' = given
      PROVE  UtpInv'
  <2>1. PICK s : s = Step([driver[e] EXCEPT !.local_eof = TRUE])
    OBVIOUS
  <2>2. Turn(e, s, net)
    BY <1>4, <2>1
  <2>3. ASSUME NEW g, Linked(phase, driver, given, got, net, late, response, g)
        PROVE  Outgoing(e, s, driver, given', got, g)
    <3>1. Outgoing(e, Step([driver[e] EXCEPT !.local_eof = TRUE]), driver, given, got, g)
      BY <1>1, <2>3, ReadsEnd
    <3> QED BY <1>4, <2>1, <3>1
  <2>4. OnEnds(given') /\ given'[Other(e)] = given[Other(e)]
    BY <1>2, <1>4
  <2> QED BY <1>1, <2>2, <2>3, <2>4, OutKeeps
<1> QED BY <1>3, <1>4 DEF Read

LEMMA TimedOut ==
  ASSUME SetFacts, NEW e \in Ends, NEW ripe, NEW ph, NEW d, NEW tots, NEW rcs, NEW n, NEW l, NEW resp, NEW g,
         NEW s \in retransmit_due_packets(d[e], ripe),
         Linked(ph, d, tots, rcs, n, l, resp, g), ph[e] = "open"
  PROVE  Outgoing(e, s, d, tots, rcs, g)
<1>1. OpenAt(e, ph, d, tots, rcs, g)
  BY OpenFacts
<1>2. PICK x, gs, gr, total, tr, rcv :
        /\ x = d[e] /\ gs = g[e] /\ gr = g[Other(e)] /\ total = tots[e] /\ tr = tots[Other(e)]
        /\ rcv = rcs[e]
  OBVIOUS
<1>3. /\ WellFormed(gr, tr) /\ DOMAIN x = DriverFields /\ SendSide(x, gs, total)
      /\ RecvSide(x, gr) /\ rcv \o <<>> = Span(0, gr.cut[gr.r])
      /\ WellFormed(gs, total) /\ total <= Wrote[e]
  BY <1>1, <1>2 DEF OpenAt
<1>4. s \in retransmit_due_packets(x, ripe)
  BY <1>2
<1>5. /\ AllSent(s.out, gs, gr) /\ s.up = <<>> /\ s.d.acks = x.acks
      /\ ~s.err => StepOK(s, gs, gr, total, rcv)
      /\ \A p \in Range(s.out) : p.type # "STATE"
  BY <1>3, <1>4, Timed
<1>6. x.acks = 0 => Mute(s)
  BY <1>5 DEF Mute
<1> QED BY <1>2, <1>3, <1>5, <1>6 DEF Outgoing

(* The retransmission timer (retransmit_due_packets).                      *)
LEMMA RetransmitKeeps == ASSUME SetFacts, NEW e \in Ends, UtpInv, Retransmit(e) PROVE UtpInv'
<1>1. phase[e] = "open" /\ given' = given /\ UNCHANGED <<got, late, accepted>>
  BY DEF Retransmit, CanRetransmit, app
<1>2. PICK ripe, s : s \in retransmit_due_packets(driver[e], ripe) /\ Turn(e, s, net)
  BY DEF Retransmit
<1>3. OnEnds(given') /\ given'[Other(e)] = given[Other(e)]
  BY <1>1 DEF UtpInv, Fixed
<1>4. ASSUME NEW g, Linked(phase, driver, given, got, net, late, response, g)
      PROVE  Outgoing(e, s, driver, given', got, g)
  <2>1. Outgoing(e, s, driver, given, got, g)
    BY <1>1, <1>2, <1>4, TimedOut
  <2> QED BY <1>1, <2>1
<1> QED BY <1>1, <1>2, <1>3, <1>4, OutKeeps

LEMMA AckedLate ==
  ASSUME NEW e \in Ends, NEW ph, NEW d, NEW tots, NEW rcs, NEW n, NEW l, NEW resp, NEW g,
         Linked(ph, d, tots, rcs, n, l, resp, g), ph[e] = "open", d[e].acks # 0
  PROVE  Outgoing(e, flush_delayed_ack(Step(d[e])), d, tots, rcs, g)
<1>1. OpenAt(e, ph, d, tots, rcs, g)
  BY OpenFacts
<1>2. PICK x, gs, gr, total, tr, rcv :
        /\ x = d[e] /\ gs = g[e] /\ gr = g[Other(e)] /\ total = tots[e] /\ tr = tots[Other(e)]
        /\ rcv = rcs[e]
  OBVIOUS
<1>3. /\ WellFormed(gr, tr) /\ DOMAIN x = DriverFields /\ SendSide(x, gs, total)
      /\ RecvSide(x, gr) /\ rcv \o <<>> = rcv /\ rcv = Span(0, gr.cut[gr.r])
      /\ WellFormed(gs, total) /\ total <= Wrote[e]
  BY <1>1, <1>2 DEF OpenAt
<1>4. StepOK(Step(x), gs, gr, total, rcv) /\ Step(x).up = <<>>
  BY <1>3, Starting
<1>5. PICK t : t = flush_delayed_ack(Step(x))
  OBVIOUS
<1>6. StepOK(t, gs, gr, total, rcv) /\ t.up = <<>>
  BY <1>3, <1>4, <1>5, Said
<1>7. ~t.err
  BY <1>6 DEF StepOK, IsStep
<1> QED BY <1>2, <1>3, <1>5, <1>6, <1>7 DEF Outgoing

(* The timer of delayed acknowledgements (flush_delayed_ack).              *)
LEMMA AckTimerKeeps == ASSUME SetFacts, NEW e \in Ends, UtpInv, AckTimer(e) PROVE UtpInv'
<1>1. phase[e] = "open" /\ given' = given /\ UNCHANGED <<got, late, accepted>>
  BY DEF AckTimer, CanAck, app
<1>2. driver[e].acks # 0
  <2>1. driver[e].acks > 0
    BY DEF AckTimer, CanAck
  <2> QED BY <2>1, SMT
<1>3. PICK s : s = flush_delayed_ack(Step(driver[e]))
  OBVIOUS
<1>4. Turn(e, s, net)
  BY <1>3 DEF AckTimer
<1>5. OnEnds(given') /\ given'[Other(e)] = given[Other(e)]
  BY <1>1 DEF UtpInv, Fixed
<1>6. ASSUME NEW g, Linked(phase, driver, given, got, net, late, response, g)
      PROVE  Outgoing(e, s, driver, given', got, g)
  <2>1. Outgoing(e, flush_delayed_ack(Step(driver[e])), driver, given, got, g)
    BY <1>1, <1>2, <1>6, AckedLate
  <2> QED BY <1>1, <1>3, <2>1
<1> QED BY <1>1, <1>4, <1>5, <1>6, OutKeeps

(* The application.                                                        *)
Recounted(d, x) ==
  /\ DOMAIN x = DriverFields /\ SameSend(d, x) /\ SameRecv(d, x) /\ x.acks = d.acks

LEMMA Recount ==
  ASSUME NEW d, NEW v, DOMAIN d = DriverFields
  PROVE  Recounted(d, [d EXCEPT !.buffered = v])
  BY DEF Recounted, DriverFields, SameSend, SameRecv

(* TrackedUtpStream::poll_read lowers the count of buffered bytes.         *)
LEMMA AppReadKeeps == ASSUME NEW e \in Ends, UtpInv, AppRead(e) PROVE UtpInv'
<1>1. UNCHANGED <<phase, given, got, net, late, response, accepted>>
  BY DEF AppRead, setup
<1>2. PICK x, v : /\ x = [driver[e] EXCEPT !.buffered = v]
                  /\ driver' = [driver EXCEPT ![e] = x]
  BY DEF AppRead
<1>3. OnEnds(driver)
  BY DEF UtpInv, Fixed
<1>4. Put(driver', driver, e, x)
  BY <1>2, <1>3, Putting
<1>5. Fixed'
  BY <1>1, <1>4 DEF UtpInv, Fixed, Put
<1>6. ASSUME accepted = 0 PROVE Before(phase, driver', given, got, net, late, response)
  <2>1. Before(phase, driver, given, got, net, late, response)
    BY <1>6 DEF UtpInv, Holds
  <2>2. DOMAIN driver[e] = DriverFields /\ ~driver[e].remote_eof
    BY <2>1 DEF Before
  <2>3. DOMAIN x = DriverFields /\ ~x.remote_eof
    <3>1. Recounted(driver[e], x)
      BY <1>2, <2>2, Recount
    <3> QED BY <2>2, <3>1 DEF Recounted, SameRecv
  <2>4. driver'[e] = x /\ driver'[Other(e)] = driver[Other(e)]
    BY <1>4 DEF Put
  <2>5. \A y \in Ends : DOMAIN driver[y] = DriverFields /\ ~driver[y].remote_eof
    BY <2>1 DEF Before
  <2>6. ASSUME NEW y \in Ends PROVE DOMAIN driver'[y] = DriverFields /\ ~driver'[y].remote_eof
    <3>1. CASE y = e
      BY <2>3, <2>4, <3>1
    <3>2. CASE y = Other(e)
      BY <2>4, <2>5, <3>2
    <3> QED BY <3>1, <3>2, TwoEnds
  <2> QED BY <2>1, <2>6 DEF Before
<1>7. ASSUME accepted = 1 PROVE IsLinked(phase, driver', given, got, net, late, response)
  <2>1. PICK g : Linked(phase, driver, given, got, net, late, response, g)
    BY <1>7 DEF UtpInv, Holds, IsLinked
  <2>2. DOMAIN driver[e] = DriverFields
    BY <2>1 DEF Linked, AtEnd
  <2>3. Recounted(driver[e], x)
    BY <1>2, <2>2, Recount
  <2>4. /\ SameSend(driver[e], x) /\ SameRecv(driver[e], x) /\ DOMAIN x = DriverFields
        /\ x.acks = driver[e].acks
    BY <2>3 DEF Recounted
  <2>5. Linked(phase, driver', given, got, net, late, response, g)
    BY <1>4, <2>1, <2>4, LinkedCount
  <2> QED BY <2>5 DEF IsLinked
<1>8. Holds(phase', driver', given', got', net', late', response', accepted')
  BY <1>1, <1>6, <1>7 DEF Holds
<1> QED BY <1>5, <1>8 DEF UtpInv

(* The application closes, and steps that change nothing here.             *)
LEMMA StutterKeeps ==
  ASSUME UtpInv, UNCHANGED <<phase, driver, given, got, net, late, response, accepted>>
  PROVE  UtpInv'
  BY DEF UtpInv, Fixed, Holds

(* The invariant holds at the start.                                       *)
LEMMA InitHolds == Init => UtpInv
<1> SUFFICES ASSUME Init PROVE UtpInv
  BY SMT
<1>1. /\ phase = [e \in Ends |-> IF e = "client" THEN "syn" ELSE "none"]
      /\ driver = [e \in Ends |-> Idle] /\ given = [e \in Ends |-> 0] /\ got = [e \in Ends |-> <<>>]
      /\ net = [e \in Ends |-> IF e = "server" THEN <<Syn>> ELSE <<>>]
      /\ late = [e \in Ends |-> {}] /\ response = <<>> /\ accepted = 0
  BY DEF Init
<1>2. OnEnds(phase)
  <2>1. phase \in [Ends -> {"syn", "none"}]
    BY <1>1
  <2> QED BY <2>1 DEF OnEnds
<1>3. OnEnds(driver) /\ OnEnds(given) /\ OnEnds(got) /\ OnEnds(late)
  <2>1. driver \in [Ends -> {Idle}] /\ given \in [Ends -> {0}]
    BY <1>1
  <2>2. got \in [Ends -> {<<>>}] /\ late \in [Ends -> {{}}]
    BY <1>1
  <2> QED BY <2>1, <2>2 DEF OnEnds
<1>4. OnEnds(net)
  <2>1. net \in [Ends -> {<<Syn>>, <<>>}]
    BY <1>1
  <2> QED BY <2>1 DEF OnEnds
<1>5. accepted \in Nat /\ accepted # 1
  BY <1>1, SMT
<1>6. phase["server"] = "none" /\ phase["client"] = "syn"
  BY <1>1, BothEnds
<1>7. ASSUME NEW e \in Ends
      PROVE  /\ IsSeq(net[e])
             /\ \A p : p \in Range(net[e]) \/ p \in late[e] =>
                         p.type = IF e = "server" THEN "SYN" ELSE "RESET"
  <2>1. late[e] = {}
    BY <1>1
  <2>2. CASE e = "server"
    <3>1. net[e] = <<Syn>>
      BY <1>1, <2>2
    <3>2. PICK q : q = <<Syn>>
      OBVIOUS
    <3>3. IsSeq(q) /\ Range(q) = {Syn}
      BY <3>2, SeqOne
    <3>4. Syn.type = "SYN"
      BY DEF Syn
    <3>5. net[e] = q
      BY <3>1, <3>2
    <3>6. \A p \in Range(q) : p.type = "SYN"
      BY <3>3, <3>4
    <3> HIDE <3>1, <3>2
    <3> QED BY <2>1, <2>2, <3>3, <3>5, <3>6
  <2>3. CASE e = "client"
    <3>1. net[e] = <<>> /\ IsSeq(<<>>) /\ Range(<<>>) = {}
      BY <1>1, <2>3, BothEnds, SeqEmpty
    <3> QED BY <2>1, <3>1
  <2> QED BY <2>2, <2>3, BothEnds
<1>8. \A e \in Ends : given[e] = 0 /\ got[e] = <<>> /\ DOMAIN driver[e] = DriverFields
                      /\ ~driver[e].remote_eof
  BY <1>1, IdleFields
<1>9. Before(phase, driver, given, got, net, late, response)
  BY <1>1, <1>6, <1>7, <1>8 DEF Before
<1>10. Fixed
  BY <1>2, <1>3, <1>4, <1>5 DEF Fixed
<1> QED BY <1>5, <1>9, <1>10 DEF UtpInv, Holds

(* Every step keeps it.                                                    *)
LEMMA NextKeeps == ASSUME SetFacts, ShortStreams, UtpInv, [Next]_vars PROVE UtpInv'
<1>1. CASE ConnectTimeout
  BY <1>1, ConnectTimeoutKeeps
<1>2. ASSUME NEW e \in Ends, Receive(e) PROVE UtpInv'
  BY <1>2, ReceiveKeeps
<1>3. ASSUME NEW e \in Ends, ReceiveLate(e) PROVE UtpInv'
  BY <1>3, ReceiveLateKeeps
<1>4. ASSUME NEW e \in Ends, Read(e) PROVE UtpInv'
  BY <1>4, ReadKeeps
<1>5. ASSUME NEW e \in Ends, Retransmit(e) PROVE UtpInv'
  BY <1>5, RetransmitKeeps
<1>6. ASSUME NEW e \in Ends, AckTimer(e) PROVE UtpInv'
  BY <1>6, AckTimerKeeps
<1>7. ASSUME NEW e \in Ends, AppRead(e) PROVE UtpInv'
  BY <1>7, AppReadKeeps
<1>8. ASSUME NEW e \in Ends, AppClose(e) PROVE UtpInv'
  <2>1. UNCHANGED <<phase, driver, given, got, net, late, response, accepted>>
    BY <1>8 DEF AppClose, setup
  <2> QED BY <2>1, StutterKeeps
<1>9. CASE ConnectAbandoned
  BY <1>9, ConnectAbandonedKeeps
<1>10. ASSUME NEW e \in Ends, Lose(e) PROVE UtpInv'
  BY <1>10, LoseKeeps
<1>11. ASSUME NEW e \in Ends, Delay(e) PROVE UtpInv'
  BY <1>11, DelayKeeps
<1>12. ASSUME NEW e \in Ends, Duplicate(e) PROVE UtpInv'
  BY <1>12, DuplicateKeeps
<1>13. ASSUME NEW e \in Ends, HangUp(e) PROVE UtpInv'
  <2>1. UNCHANGED <<phase, driver, given, got, net, late, response, accepted>>
    BY <1>13 DEF HangUp
  <2> QED BY <2>1, StutterKeeps
<1>14. CASE UNCHANGED vars
  <2>1. UNCHANGED <<phase, driver, given, got, net, late, response, accepted>>
    BY <1>14 DEF vars
  <2> QED BY <2>1, StutterKeeps
<1>15. CASE Progress
  BY <1>1, <1>2, <1>3, <1>4, <1>5, <1>6, <1>7, <1>8, <1>15 DEF Progress
<1>16. CASE \E e \in Ends : Lose(e) \/ Delay(e) \/ Duplicate(e) \/ HangUp(e)
  BY <1>10, <1>11, <1>12, <1>13, <1>16
<1> QED BY <1>9, <1>14, <1>15, <1>16 DEF Next

---------------------------------------------------------------------------
(* What follows.                                                           *)

(* A byte lies in one of the pieces that a stream was cut into.            *)
LEMMA Between ==
  ASSUME SetFacts, NEW c \in [Nat -> Nat], NEW n \in Nat, NEW b \in Nat, c[0] < b, b <= c[n]
  PROVE  \E k \in 1 .. n : c[k - 1] < b /\ b <= c[k]
<1>1. PICK T : T = {k \in 0 .. n : b <= c[k]}
  OBVIOUS
<1>2. T \in SUBSET Nat /\ n \in T
  BY <1>1, SMT
<1>3. PICK m \in T : \A k \in T : m <= k
  BY <1>2, LeastNat
<1>4. m \in 0 .. n /\ b <= c[m]
  BY <1>1, <1>3
<1>5. m # 0
  BY <1>4, SMT
<1>6. m \in 1 .. n /\ m - 1 \in 0 .. n /\ m - 1 \in Nat /\ ~(m <= m - 1)
  BY <1>4, <1>5, SMT
<1>7. ~(b <= c[m - 1])
  BY <1>1, <1>3, <1>6
<1>8. c[m - 1] \in Nat
  BY <1>6
<1>9. c[m - 1] < b
  BY <1>7, <1>8, SMT
<1> QED BY <1>4, <1>6, <1>9

LEMMA InSpan ==
  ASSUME NEW a \in Nat, NEW c \in Nat, NEW b \in Nat, a < b, b <= c
  PROVE  b \in Range(Span(a, c))
<1>1. a <= c
  BY SMT
<1> QED BY <1>1, SpanFacts

(* A byte pending is in one of the pending payloads.                       *)
LEMMA InQueue ==
  ASSUME SetFacts, NEW q, NEW x \in Nat, NEW y \in Nat, NEW b \in Nat, Queue(q, x, y), x < b, b <= y
  PROVE  \E i \in DOMAIN q : b \in Range(q[i])
<1>1. PICK c \in [Nat -> Nat] : c[0] = x /\ c[Len(q)] = y /\ QueueCuts(q, c)
  BY DEF Queue
<1>2. IsSeq(q)
  BY DEF Queue
<1>3. PICK n \in Nat : n = Len(q)
  BY <1>2, SeqFacts
<1>4. DOMAIN q = 1 .. n
  BY <1>2, <1>3, SeqFacts
<1>5. c[0] < b /\ b <= c[n]
  BY <1>1, <1>3
<1>6. PICK k \in 1 .. n : c[k - 1] < b /\ b <= c[k]
  BY <1>5, Between
<1>7. q[k] = Span(c[k - 1], c[k])
  BY <1>1, <1>3 DEF QueueCuts
<1>8. k \in Nat /\ k - 1 \in Nat
  BY SMT
<1>9. c[k] \in Nat /\ c[k - 1] \in Nat
  BY <1>8
<1>10. b \in Range(Span(c[k - 1], c[k]))
  BY <1>6, <1>9, InSpan
<1> QED BY <1>4, <1>7, <1>10

(* What was taken in is no more than what was read, in order.              *)
LEMMA TakenBytes ==
  ASSUME NEW g, NEW total, WellFormed(g, total)
  PROVE  /\ g.cut[g.r] \in Nat /\ g.cut[g.r] <= total /\ total \in Nat
         /\ \A k \in 1 .. g.n : k <= g.r => g.cut[k] <= g.cut[g.r]
         /\ g.fin /\ g.r = g.n => g.cut[g.r] = total
<1>1. /\ g.n \in Nat /\ g.r \in Nat /\ g.cut \in [Nat -> Nat] /\ g.r <= g.n
      /\ total \in Nat /\ g.cut[g.n] <= total
      /\ \A j \in 0 .. g.n : \A k \in 0 .. g.n : j <= k => g.cut[j] <= g.cut[k]
      /\ g.fin => g.cut[g.n] = total
  BY DEF WellFormed, Kinds, Cuts, Taken
<1>2. g.r \in 0 .. g.n /\ g.n \in 0 .. g.n /\ \A k \in 1 .. g.n : k \in 0 .. g.n
  BY <1>1, SMT
<1>3. g.cut[g.r] <= g.cut[g.n] /\ \A k \in 1 .. g.n : k <= g.r => g.cut[k] <= g.cut[g.r]
  BY <1>1, <1>2
<1>4. g.cut[g.r] \in Nat /\ g.cut[g.n] \in Nat
  BY <1>1
<1>5. g.cut[g.r] <= total
  BY <1>1, <1>3, <1>4, SMT
<1> QED BY <1>1, <1>3, <1>4, <1>5

LEMMA PrefixBytes ==
  ASSUME NEW c \in Nat
  PROVE  /\ Len(Span(0, c)) = c /\ \A i \in DOMAIN Span(0, c) : Span(0, c)[i] = i
<1>1. 0 \in Nat /\ 0 <= c /\ c - 0 = c
  BY SMT
<1>2. PICK q : q = Span(0, c)
  OBVIOUS
<1>3. IsSeq(q) /\ Len(q) = c /\ \A i \in 1 .. c : q[i] = 0 + i
  BY <1>1, <1>2, SpanFacts
<1>4. DOMAIN q = 1 .. c
  BY <1>3, SeqFacts
<1>5. \A i \in 1 .. c : 0 + i = i
  BY SMT
<1> QED BY <1>2, <1>3, <1>4, <1>5

(* What an end of the connection has been given.                           *)
GivenIn(q, h, total) ==
  /\ WellFormed(h, total) /\ Len(q) = h.cut[h.r]
  /\ \A i \in DOMAIN q : q[i] = i

(* An application was given the bytes of the packets taken in.             *)
LEMMA GotAt ==
  ASSUME NEW e \in Ends, NEW ph, NEW d, NEW tots, NEW rcs, NEW n, NEW l, NEW resp, NEW g,
         Linked(ph, d, tots, rcs, n, l, resp, g)
  PROVE  GivenIn(rcs[e], g[Other(e)], tots[Other(e)])
<1>1. PICK o : o = Other(e)
  OBVIOUS
<1>2. o \in Ends
  BY <1>1, TwoEnds
<1>3. AtEnd(e, ph[e], d[e], tots[e], rcs[e], g) /\ AtEnd(o, ph[o], d[o], tots[o], rcs[o], g)
  BY <1>2 DEF Linked
<1>4. WellFormed(g[o], tots[o]) /\ rcs[e] = Span(0, g[o].cut[g[o].r])
  BY <1>1, <1>3 DEF AtEnd
<1>5. PICK c \in Nat : c = g[o].cut[g[o].r]
  BY <1>4, TakenBytes
<1>6. rcs[e] = Span(0, c)
  BY <1>4, <1>5
<1>7. Len(Span(0, c)) = c /\ \A i \in DOMAIN Span(0, c) : Span(0, c)[i] = i
  BY PrefixBytes
<1> QED BY <1>1, <1>4, <1>5, <1>6, <1>7 DEF GivenIn

(* The invariant implies the three properties.                             *)
LEMMA InvPrefix == ASSUME UtpInv PROVE StreamPrefix
<1>1. SUFFICES ASSUME accepted <= 1, NEW e \in Ends
               PROVE  /\ Len(got[e]) <= given[Other(e)]
                      /\ \A i \in DOMAIN got[e] : got[e][i] = i
  BY DEF StreamPrefix
<1>2. accepted \in Nat
  BY DEF UtpInv, Fixed
<1>3. accepted = 0 \/ accepted = 1
  BY <1>1, <1>2, SMT
<1>4. CASE accepted = 0
  <2>1. Before(phase, driver, given, got, net, late, response)
    BY <1>4 DEF UtpInv, Holds
  <2>2. got[e] = <<>> /\ given[Other(e)] = 0
    BY <2>1, TwoEnds DEF Before
  <2> QED BY <2>2, SMT
<1>5. CASE accepted = 1
  <2>1. PICK g : Linked(phase, driver, given, got, net, late, response, g)
    BY <1>5 DEF UtpInv, Holds, IsLinked
  <2>2. /\ WellFormed(g[Other(e)], given[Other(e)])
        /\ Len(got[e]) = g[Other(e)].cut[g[Other(e)].r]
        /\ \A i \in DOMAIN got[e] : got[e][i] = i
    <3>1. GivenIn(got[e], g[Other(e)], given[Other(e)])
      BY <2>1, GotAt
    <3> QED BY <3>1 DEF GivenIn
  <2>3. g[Other(e)].cut[g[Other(e)].r] <= given[Other(e)]
    BY <2>2, TakenBytes
  <2> QED BY <2>2, <2>3
<1> QED BY <1>3, <1>4, <1>5

LEMMA InvCleanEnd == ASSUME UtpInv PROVE CleanEnd
<1>1. SUFFICES ASSUME accepted = 1, NEW e \in Ends
               PROVE  /\ phase[e] = "done" => Len(got[Other(e)]) = given[e]
                      /\ driver[e].remote_eof => Len(got[e]) = given[Other(e)]
  BY DEF CleanEnd
<1>2. PICK g : Linked(phase, driver, given, got, net, late, response, g)
  BY <1>1 DEF UtpInv, Holds, IsLinked
<1>3. PICK o \in Ends : o = Other(e) /\ e = Other(o)
  BY TwoEnds
<1>4. AtEnd(e, phase[e], driver[e], given[e], got[e], g)
  BY <1>2 DEF Linked
<1>5. Len(got[o]) = g[e].cut[g[e].r]
  <2>1. GivenIn(got[o], g[Other(o)], given[Other(o)])
    BY <1>2, GotAt
  <2> QED BY <1>3, <2>1 DEF GivenIn
<1>6. WellFormed(g[o], given[o]) /\ Len(got[e]) = g[o].cut[g[o].r]
  <2>1. GivenIn(got[e], g[Other(e)], given[Other(e)])
    BY <1>2, GotAt
  <2> QED BY <1>3, <2>1 DEF GivenIn
<1>7. ASSUME phase[e] = "done" PROVE Len(got[o]) = given[e]
  <2>1. g[e].r = g[e].n /\ g[e].cut[g[e].n] = given[e]
    BY <1>4, <1>7 DEF AtEnd
  <2> QED BY <1>5, <2>1
<1>8. ASSUME driver[e].remote_eof PROVE Len(got[e]) = given[o]
  <2>1. RecvSide(driver[e], g[o])
    BY <1>3, <1>4, <1>8 DEF AtEnd
  <2>2. g[o].fin /\ g[o].r = g[o].n
    BY <1>8, <2>1 DEF RecvSide
  <2>3. g[o].cut[g[o].r] = given[o]
    BY <1>6, <2>2, TakenBytes
  <2> QED BY <1>6, <2>3
<1> QED BY <1>3, <1>7, <1>8

(* Where a byte is that the sender ds has read, the receiver being dr.     *)
ByteIs(b, ds, dr, rcv) ==
  \/ \E i \in DOMAIN ds.pending : b \in Range(ds.pending[i])
  \/ \E i \in DOMAIN ds.unacked : b \in Range(ds.unacked[i].payload)
  \/ b \in Range(rcv)
  \/ \E q \in DOMAIN dr.ooo : b \in Range(dr.ooo[q])

(* A byte read is pending, in flight, held ahead or written.               *)
LEMMA ByteHeld ==
  ASSUME SetFacts, NEW b \in Nat, NEW ds, NEW dr, NEW g, NEW total, NEW rcv, b >= 1, b <= total,
         WellFormed(g, total), SendSide(ds, g, total), RecvSide(dr, g),
         rcv = Span(0, g.cut[g.r])
  PROVE  ByteIs(b, ds, dr, rcv)
<1>1. /\ g.n \in Nat /\ g.r \in Nat /\ g.cut \in [Nat -> Nat] /\ g.cut[g.n] \in Nat
      /\ g.cut[0] = 0 /\ total \in Nat
  BY DEF WellFormed, Kinds, Cuts
<1>2. CASE b > g.cut[g.n]
  <2>1. g.cut[g.n] < b
    BY <1>1, <1>2, SMT
  <2>2. Queue(ds.pending, g.cut[g.n], total)
    BY DEF SendSide
  <2>3. \E i \in DOMAIN ds.pending : b \in Range(ds.pending[i])
    BY <1>1, <2>1, <2>2, InQueue
  <2> QED BY <2>3 DEF ByteIs
<1>3. CASE b <= g.cut[g.n]
  <2>1. g.cut[0] < b
    BY <1>1, SMT
  <2>2. PICK k \in 1 .. g.n : g.cut[k - 1] < b /\ b <= g.cut[k]
    BY <1>1, <1>3, <2>1, Between
  <2>3. k \in Nat /\ k - 1 \in Nat /\ k \in 0 .. g.n + 1
    BY <1>1, SMT
  <2>4. PICK x \in Nat, y \in Nat : x = g.cut[k - 1] /\ y = g.cut[k]
    BY <1>1, <2>3
  <2>5. b \in Range(Span(x, y))
    BY <2>2, <2>4, InSpan
  <2>6. \A j \in 1 .. g.n : j \in 0 .. g.n + 1
    BY <1>1, SMT
  <2>7. CASE k \in g.h /\ k <= g.r
    <3>1. PICK c \in Nat : c = g.cut[g.r]
      BY TakenBytes
    <3>2. y <= c
      BY <2>4, <2>7, <3>1, TakenBytes
    <3>3. b <= y
      BY <2>2, <2>4
    <3>4. 0 < b /\ b <= c /\ 0 \in Nat
      BY <3>2, <3>3, SMT
    <3>5. b \in Range(Span(0, c))
      BY <3>4, InSpan
    <3> QED BY <3>1, <3>5 DEF ByteIs
  <2>8. CASE k \in g.h /\ k > g.r
    <3>1. PICK q : q = Nr(g.base, k)
      OBVIOUS
    <3>2. q \in DOMAIN dr.ooo
      BY <2>8, <3>1 DEF RecvSide
    <3>3. PICK j \in g.h : HeldAt(dr, g, q, j)
      BY <3>2 DEF RecvSide
    <3>4. j \in 1 .. g.n
      BY <3>3 DEF WellFormed, Kinds
    <3>5. Nr(g.base, j) = Nr(g.base, k) /\ dr.ooo[q] = Span(g.cut[j - 1], g.cut[j])
      BY <3>1, <3>3 DEF HeldAt
    <3>6. j = k
      BY <2>3, <2>6, <3>4, <3>5, PositionIs
    <3>7. dr.ooo[q] = Span(x, y)
      BY <2>4, <3>5, <3>6
    <3> QED BY <2>5, <3>2, <3>7 DEF ByteIs
  <2>9. CASE k \notin g.h
    <3>1. PICK u \in Range(ds.unacked) : u.seq = Nr(g.base, k)
      BY <2>9 DEF SendSide, Covered
    <3>2. IsSeq(ds.unacked) /\ Item(u, g)
      BY <3>1 DEF SendSide
    <3>3. PICK j \in 1 .. g.n : ItemAt(u, g, j)
      BY <3>2 DEF Item
    <3>4. Nr(g.base, j) = Nr(g.base, k) /\ u.payload = Span(g.cut[j - 1], g.cut[j])
      BY <3>1, <3>3 DEF ItemAt
    <3>5. j = k
      BY <2>3, <2>6, <3>4, PositionIs
    <3>6. u.payload = Span(x, y)
      BY <2>4, <3>4, <3>5
    <3>7. PICK v : v = ds.unacked
      OBVIOUS
    <3>8. IsSeq(v) /\ u \in Range(v)
      BY <3>1, <3>2, <3>7
    <3>9. PICK i \in 1 .. Len(v) : v[i] = u
      BY <3>8, SeqFacts
    <3>10. i \in DOMAIN v
      BY <3>8, <3>9, SeqFacts
    <3>11. i \in DOMAIN ds.unacked /\ ds.unacked[i].payload = Span(x, y)
      BY <3>6, <3>7, <3>9, <3>10
    <3> QED BY <2>5, <3>11 DEF ByteIs
  <2>10. k <= g.r \/ k > g.r
    BY <1>1, <2>3, SMT
  <2> QED BY <2>7, <2>8, <2>9, <2>10
<1>4. b > g.cut[g.n] \/ b <= g.cut[g.n]
  BY <1>1, SMT
<1> QED BY <1>2, <1>3, <1>4

LEMMA InvHeld == ASSUME SetFacts, UtpInv PROVE AckedIsHeld
<1>1. SUFFICES ASSUME accepted = 1, \A e \in Ends : phase[e] = "open",
                      NEW e \in Ends, NEW b \in 1 .. given[e]
               PROVE  ByteIs(b, driver[e], driver[Other(e)], got[Other(e)])
  BY DEF AckedIsHeld, ByteIs
<1>2. PICK g : Linked(phase, driver, given, got, net, late, response, g)
  BY <1>1 DEF UtpInv, Holds, IsLinked
<1>3. PICK o \in Ends : o = Other(e) /\ e = Other(o)
  BY TwoEnds
<1>4. OpenAt(e, phase, driver, given, got, g) /\ OpenAt(o, phase, driver, given, got, g)
  BY <1>1, <1>2, OpenFacts
<1>5. WellFormed(g[e], given[e]) /\ SendSide(driver[e], g[e], given[e])
  BY <1>4 DEF OpenAt
<1>6. RecvSide(driver[o], g[e]) /\ got[o] = Span(0, g[e].cut[g[e].r])
  BY <1>3, <1>4 DEF OpenAt
<1>7. given[e] \in Nat
  BY <1>5 DEF WellFormed, Cuts
<1>8. b \in Nat /\ b >= 1 /\ b <= given[e]
  BY <1>7, SMT
<1>9. ByteIs(b, driver[e], driver[o], got[o])
  BY <1>5, <1>6, <1>8, ByteHeld
<1> QED BY <1>3, <1>9

INSTANCE FiniteSetTheorems

(* The hypothesis of the lemmas holds.                                     *)
LEMMA SetFactsHold == SetFacts
<1>1. \A T \in SUBSET Nat : T # {} => \E m \in T : \A k \in T : m <= k
  <2> SUFFICES ASSUME NEW T \in SUBSET Nat, T # {}
               PROVE  \E m \in T : \A k \in T : m <= k
    OBVIOUS
  <2> DEFINE R == OpToRel(<, Nat)
  <2>1. IsWellFoundedOn(R, Nat)
    BY NatLessThanWellFounded
  <2>2. \A x, y \in Nat : ~(<<y, x>> \in R) => x <= y
    BY SMT DEF OpToRel
  <2> HIDE DEF R
  <2>3. PICK m \in T : \A k \in T : ~(<<k, m>> \in R)
    BY <2>1, WFMin
  <2>4. \A k \in T : m <= k
    BY <2>2, <2>3
  <2> QED BY <2>4
<1>2. \A x, y \in Int : IsFiniteSet(x .. y)
  BY FS_Interval
<1>3. ASSUME NEW S, IsFiniteSet(S)
      PROVE  /\ Cardinality(S) \in Nat /\ (Cardinality(S) = 0 => S = {})
             /\ \A T \in SUBSET S : IsFiniteSet(T)
  BY <1>3, FS_CardinalityType, FS_EmptySet, FS_Subset
<1>4. ASSUME NEW S, IsFiniteSet(S), NEW x \in S
      PROVE  IsFiniteSet(S \ {x}) /\ Cardinality(S \ {x}) = Cardinality(S) - 1
  BY <1>4, FS_RemoveElement
<1> QED BY <1>1, <1>2, <1>3, <1>4 DEF SetFacts

(* In every state that the connection can reach, its two ends, their       *)
(* applications and all packets under way are in agreement with one        *)
(* history of packets for either direction (process_incoming_packet,       *)
(* acknowledge_packets, flush_pending_payloads, send_fin_packet and the    *)
(* timers).                                                                *)
THEOREM UtpInvariant == ASSUME ShortStreams PROVE Spec => []UtpInv
<1>1. Init => UtpInv
  BY InitHolds, SMT
<1>2. UtpInv /\ [Next]_vars => UtpInv'
  BY NextKeeps, SetFactsHold
<1> QED BY <1>1, <1>2, PTL DEF Spec

(* What deliver_buffered_payloads and process_incoming_packet write to an  *)
(* application is at all times a prefix of what the other one wrote: no    *)
(* byte lost, doubled or out of order, over losses, duplicates, delays and *)
(* the wrap of the sequence numbers.                                       *)
THEOREM StreamPrefixAlways == ASSUME ShortStreams PROVE Spec => []StreamPrefix
<1>1. Spec => []UtpInv
  BY UtpInvariant, SMT
<1>2. UtpInv => StreamPrefix
  BY InvPrefix, SMT
<1> QED BY <1>1, <1>2, PTL

(* A driver that returns without an error at the top of run_utp_driver's   *)
(* loop leaves the other application with every byte that the driver took, *)
(* and an application is told of the end (TYPE_FIN) only when it was given *)
(* everything.                                                             *)
THEOREM CleanEndAlways == ASSUME ShortStreams PROVE Spec => []CleanEnd
<1>1. Spec => []UtpInv
  BY UtpInvariant, SMT
<1>2. UtpInv => CleanEnd
  BY InvCleanEnd, SMT
<1> QED BY <1>1, <1>2, PTL

(* As long as both ends are open, a byte that a driver has read from its   *)
(* application is pending, in flight, or with the other end:               *)
(* acknowledge_packets never lets go of a packet that has not arrived.     *)
THEOREM AckedIsHeldAlways == ASSUME ShortStreams PROVE Spec => []AckedIsHeld
<1>1. Spec => []UtpInv
  BY UtpInvariant, SMT
<1>2. UtpInv => AckedIsHeld
  BY InvHeld, SetFactsHold, SMT
<1> QED BY <1>1, <1>2, PTL
=============================================================================
