-------------------------- MODULE UtpDriverProofs ---------------------------
(***************************************************************************)
(* Proofs about one uTP driver task (networking/utp.rs, run_utp_driver):   *)
(* what its handlers do to the two byte streams, for any packet sizes,     *)
(* windows, buffers and budgets. A direction of the connection is          *)
(* described by the history g of the packets sent in it and of what their  *)
(* receiver holds; the lemmas say that a handler that starts in agreement  *)
(* with the histories of its two directions ends in agreement with longer  *)
(* ones, sends only packets of its history, and acknowledges only what it  *)
(* holds.                                                                  *)
(***************************************************************************)
EXTENDS UtpDriver, TLAPS

USE ZenonT(60)

---------------------------------------------------------------------------
(* Induction, with a set in the place of a predicate.                      *)

(* What the lemmas use of the library on finite sets and numbers.  They    *)
(* have it as a hypothesis, which UtpProofs proves before its theorems.    *)
SetFacts ==
  /\ \A T \in SUBSET Nat : T # {} => \E m \in T : \A k \in T : m <= k
  /\ \A x, y \in Int : IsFiniteSet(x .. y)
  /\ \A S : IsFiniteSet(S) =>
       /\ Cardinality(S) \in Nat /\ (Cardinality(S) = 0 => S = {})
       /\ \A T \in SUBSET S : IsFiniteSet(T)
       /\ \A x \in S : /\ IsFiniteSet(S \ {x})
                       /\ Cardinality(S \ {x}) = Cardinality(S) - 1

(* A set of numbers has a least one.                                       *)
LEMMA LeastNat ==
  ASSUME SetFacts, NEW T \in SUBSET Nat, T # {}
  PROVE  \E m \in T : \A k \in T : m <= k
BY DEF SetFacts

(* A set of numbers with 0 and every successor has all of them.            *)
LEMMA SetInduction ==
  ASSUME SetFacts, NEW P \in SUBSET Nat, 0 \in P, \A n \in Nat : n \in P => n + 1 \in P
  PROVE  \A n \in Nat : n \in P
<1> SUFFICES ASSUME Nat \ P # {} PROVE FALSE
  BY SMT
<1>1. PICK m \in Nat \ P : \A k \in Nat \ P : m <= k
  BY LeastNat
<1>2. m - 1 \in Nat /\ m - 1 + 1 = m /\ ~(m <= m - 1)
  BY <1>1, SMT
<1> QED BY <1>1, <1>2, SMT

(* The same up to a bound.                                                 *)
LEMMA BoundedInduction ==
  ASSUME SetFacts, NEW m \in Nat, NEW P \in SUBSET (0 .. m), 0 \in P,
         \A n \in 0 .. m - 1 : n \in P => n + 1 \in P
  PROVE  \A n \in 0 .. m : n \in P
<1> DEFINE Q == {n \in Nat : n \in 0 .. m => n \in P}
<1>1. 0 \in Q /\ \A n \in Nat : n \in Q => n + 1 \in Q
  BY SMT
<1>2. Q \in SUBSET Nat
  BY SMT
<1> HIDE DEF Q
<1>3. \A n \in Nat : n \in Q
  BY <1>1, <1>2, SetInduction, SMT
<1> QED BY <1>3, SMT DEF Q

---------------------------------------------------------------------------
(* Sequence numbers.                                                       *)

Numbers == 0 .. SeqSpace - 1

(* The number of the k-th packet after base.                               *)
Nr(base, k) == wrapping_add(base, k)

LEMMA Space == SeqSpace = 16 * 16 * 16 * 16
BY SMT DEF SeqSpace
LEMMA Halves == Half = 8 * 16 * 16 * 16
BY SMT DEF Half

LEMMA SpaceInt == SeqSpace \in Int /\ SeqSpace > 1 /\ Half \in Int /\ Half > 33 /\ SeqSpace = Half + Half
BY Space, Halves, SMT

LEMMA IsNumber == \A n : n \in Numbers <=> n \in Int /\ 0 <= n /\ n < SeqSpace
BY SpaceInt, SMT DEF Numbers

LEMMA Division ==
  ASSUME NEW x \in Int, NEW N \in Int, N > 0
  PROVE  /\ x % N \in Int /\ 0 <= x % N /\ x % N < N
         /\ \E q \in Int : x = N * q + (x % N)
<1>1. x % N \in Int /\ 0 <= x % N /\ x % N < N
  BY SMT
<1>2. \E q \in Int : x = N * q + (x % N)
  BY SMT
<1> QED BY <1>1, <1>2

LEMMA Quotient ==
  ASSUME NEW x \in Int
  PROVE  x % SeqSpace \in Numbers /\ \E q \in Int : x = SeqSpace * q + (x % SeqSpace)
<1>1. SeqSpace \in Int /\ SeqSpace > 0
  BY SpaceInt, SMT
<1> QED BY <1>1, Division, IsNumber

(* What is left modulo SeqSpace is determined.                             *)
LEMMA Remainder ==
  ASSUME NEW x \in Int, NEW q \in Int, NEW y \in Numbers, x = SeqSpace * q + y
  PROVE  x % SeqSpace = y
<1>1. PICK p \in Int : x = SeqSpace * p + (x % SeqSpace)
  BY Quotient, SMT
<1>2. PICK z \in Numbers : z = x % SeqSpace
  BY Quotient, SMT
<1>3. SeqSpace * p + z = SeqSpace * q + y
  BY <1>1, <1>2, SMT
<1>4. p = q
  <2>1. y \in Int /\ z \in Int /\ y - z < SeqSpace /\ z - y < SeqSpace
    BY SpaceInt, IsNumber, SMT
  <2>2. PICK d \in Int : d = q - p
    BY <1>1, SMT
  <2>3. SeqSpace * d = z - y
    BY <1>3, <2>1, <2>2, SpaceInt, SMT
  <2>4. d = 0
    BY <2>1, <2>3, Space, SMT
  <2> QED BY <2>2, <2>4, SMT
<1>5. z = y
  BY <1>3, <1>4, SpaceInt, IsNumber, SMT
<1> QED BY <1>2, <1>5, SMT

LEMMA AddTwice ==
  ASSUME NEW x \in Int, NEW m \in Int
  PROVE  ((x % SeqSpace) + m) % SeqSpace = (x + m) % SeqSpace
<1>1. SeqSpace \in Int
  BY SpaceInt, SMT
<1> QED BY <1>1, Space, SMT

(* Numbers follow one another as positions do.                             *)
LEMMA NrFacts ==
  ASSUME NEW base \in Numbers, NEW k \in Nat
  PROVE  /\ Nr(base, k) \in Numbers
         /\ \A m \in Nat : wrapping_add(Nr(base, k), m) = Nr(base, k + m)
         /\ wrapping_sub(Nr(base, k + 1), 1) = Nr(base, k)
<1>0. base \in Int
  BY SpaceInt, IsNumber, SMT
<1>1. Nr(base, k) \in Numbers
  BY <1>0, Quotient, SMT DEF Nr, wrapping_add
<1>2. ASSUME NEW m \in Nat PROVE wrapping_add(Nr(base, k), m) = Nr(base, k + m)
  <2>1. base + k \in Int /\ m \in Int /\ (base + k) + m = base + (k + m)
    BY <1>0, SMT
  <2> QED BY <2>1, AddTwice DEF Nr, wrapping_add
<1>3. wrapping_sub(Nr(base, k + 1), 1) = Nr(base, k)
  <2>1. base + (k + 1) \in Int /\ -1 \in Int /\ (base + (k + 1)) + (-1) = base + k
    BY <1>0, SMT
  <2>2. PICK y \in Numbers : y = (base + (k + 1)) % SeqSpace
    BY <2>1, Quotient, SMT
  <2>3. y + (-1) = y - 1
    BY SpaceInt, IsNumber, SMT
  <2> QED BY <2>1, <2>2, <2>3, AddTwice DEF Nr, wrapping_add, wrapping_sub
<1> QED BY <1>1, <1>2, <1>3, SMT

(* Subtraction of numbers is that of positions, up to the wrap.            *)
LEMMA NrSub ==
  ASSUME NEW base \in Numbers, NEW j \in Nat, NEW k \in Nat,
         j - k < SeqSpace, k - j <= SeqSpace
  PROVE  wrapping_sub(Nr(base, j), Nr(base, k)) = IF j >= k THEN j - k ELSE SeqSpace + j - k
<1>0. base \in Int /\ base + j \in Int /\ base + k \in Int
  BY SpaceInt, IsNumber, SMT
<1>1. PICK a \in Numbers, p \in Int : a = Nr(base, j) /\ base + j = SeqSpace * p + a
  BY <1>0, Quotient DEF Nr, wrapping_add
<1>2. PICK b \in Numbers, q \in Int : b = Nr(base, k) /\ base + k = SeqSpace * q + b
  BY <1>0, Quotient DEF Nr, wrapping_add
<1>3. wrapping_sub(Nr(base, j), Nr(base, k)) = (a - b) % SeqSpace
  BY <1>1, <1>2 DEF wrapping_sub
<1>4. CASE j >= k
  <2>1. /\ a - b = SeqSpace * (q - p) + (j - k) /\ j - k \in Numbers
        /\ a - b \in Int /\ q - p \in Int
    <3>1. a \in Int /\ b \in Int
      BY SpaceInt, IsNumber, SMT
    <3>2. j - k \in Numbers
      BY <1>4, SpaceInt, IsNumber, SMT
    <3> QED BY <1>0, <1>1, <1>2, <3>1, <3>2, SpaceInt, SMT
  <2>2. (a - b) % SeqSpace = j - k
    BY <2>1, Remainder, SMT
  <2> QED BY <1>3, <1>4, <2>2, SMT
<1>5. CASE ~(j >= k)
  <2>1. a \in Int /\ b \in Int
    BY SpaceInt, IsNumber, SMT
  <2>2. SeqSpace + j - k \in Numbers
    BY <1>5, SpaceInt, IsNumber, SMT
  <2>3. PICK d \in Int : d = q - p - 1
    BY SMT
  <2>4. SeqSpace * q - SeqSpace * p = SeqSpace * d + SeqSpace
    BY <2>3, SpaceInt, SMT
  <2>5. a - b \in Int /\ a - b = SeqSpace * d + (SeqSpace + j - k)
    <3>1. PICK u \in Int, v \in Int, w \in Int :
            u = SeqSpace * q /\ v = SeqSpace * p /\ w = SeqSpace * d
      BY SpaceInt, SMT
    <3>2. base + j = v + a /\ base + k = u + b /\ u - v = w + SeqSpace
      BY <1>1, <1>2, <2>4, <3>1
    <3>3. a - b = w + (SeqSpace + j - k)
      BY <1>0, <2>1, <3>2, SpaceInt, SMT
    <3> QED BY <2>1, <3>1, <3>3, SMT
  <2>6. (a - b) % SeqSpace = SeqSpace + j - k
    BY <2>2, <2>5, Remainder, SMT
  <2> QED BY <1>3, <1>5, <2>6, SMT
<1> QED BY <1>4, <1>5, SMT

(* Two packets less than the number space apart differ in number.          *)
LEMMA NrInjective ==
  ASSUME NEW base \in Numbers, NEW j \in Nat, NEW k \in Nat,
         j - k < SeqSpace, k - j < SeqSpace, Nr(base, j) = Nr(base, k)
  PROVE  j = k
<1>1. wrapping_sub(Nr(base, j), Nr(base, k)) = IF j >= k THEN j - k ELSE SeqSpace + j - k
  BY NrSub, SpaceInt, SMT
<1>2. wrapping_sub(Nr(base, j), Nr(base, j)) = 0
  <2>1. wrapping_sub(Nr(base, j), Nr(base, j)) = IF j >= j THEN j - j ELSE SeqSpace + j - j
    BY NrSub, SpaceInt, SMT
  <2> QED BY <2>1, SMT
<1>3. (IF j >= k THEN j - k ELSE SeqSpace + j - k) = 0
  BY <1>1, <1>2, SMT
<1> QED BY <1>3, SpaceInt, SMT

(* seq_lte and seq_gt, which compare by the difference modulo 65536, order *)
(* packets as they were sent as long as those are less than half the       *)
(* number space apart.                                                     *)
THEOREM SequenceOrder ==
  ASSUME NEW base \in Numbers, NEW j \in Nat, NEW k \in Nat,
         j - k < Half, k - j < Half
  PROVE  /\ seq_lte(Nr(base, j), Nr(base, k)) <=> j <= k
         /\ seq_gt(Nr(base, j), Nr(base, k)) <=> j > k
<1>1. j - k < SeqSpace /\ k - j < SeqSpace
  BY SpaceInt, SMT
<1>2. wrapping_sub(Nr(base, j), Nr(base, k)) = IF j >= k THEN j - k ELSE SeqSpace + j - k
  BY <1>1, NrSub, SpaceInt, SMT
<1>3. wrapping_sub(Nr(base, k), Nr(base, j)) = IF k >= j THEN k - j ELSE SeqSpace + k - j
  BY <1>1, NrSub, SpaceInt, SMT
<1>4. Nr(base, j) = Nr(base, k) <=> j = k
  BY <1>1, NrInjective, SMT
<1>5. seq_lte(Nr(base, j), Nr(base, k)) <=> j <= k
  BY <1>3, SpaceInt, SMT DEF seq_lte
<1>6. seq_gt(Nr(base, j), Nr(base, k)) <=> j > k
  BY <1>2, <1>4, SpaceInt, SMT DEF seq_gt
<1> QED BY <1>5, <1>6, SMT

---------------------------------------------------------------------------
(* Sequences.                                                              *)

IsSeq(q) == \E S : q \in Seq(S)

(* Sequences, without naming the set of their elements.                    *)
LEMMA SeqFacts ==
  ASSUME NEW q, IsSeq(q)
  PROVE  /\ q \in Seq(Range(q)) /\ Len(q) \in Nat /\ DOMAIN q = 1 .. Len(q)
         /\ \A x : x \in Range(q) <=> \E i \in 1 .. Len(q) : q[i] = x
<1>1. PICK S : q \in Seq(S)
  BY DEF IsSeq
<1>2. Len(q) \in Nat /\ DOMAIN q = 1 .. Len(q)
  BY <1>1, SMT
<1>3. \A x : x \in Range(q) <=> \E i \in 1 .. Len(q) : q[i] = x
  BY <1>2 DEF Range
<1>4. q \in Seq(Range(q))
  BY <1>1, <1>2, <1>3, SMT
<1> QED BY <1>2, <1>3, <1>4

LEMMA SeqEmpty == IsSeq(<<>>) /\ Range(<<>>) = {} /\ Len(<<>>) = 0
<1>1. <<>> \in Seq({}) /\ Len(<<>>) = 0
  BY SMT
<1>2. IsSeq(<<>>)
  BY <1>1 DEF IsSeq
<1>3. Range(<<>>) = {}
  BY SMT DEF Range
<1> QED BY <1>1, <1>2, <1>3

LEMMA SeqAppend ==
  ASSUME NEW q, NEW x, IsSeq(q)
  PROVE  /\ IsSeq(Append(q, x)) /\ Range(Append(q, x)) = Range(q) \cup {x}
         /\ Len(Append(q, x)) = Len(q) + 1
         /\ \A i \in 1 .. Len(q) : Append(q, x)[i] = q[i]
         /\ Append(q, x)[Len(q) + 1] = x
<1>1. PICK S : q \in Seq(S)
  BY DEF IsSeq
<1>2. PICK T : T = S \cup {x}
  OBVIOUS
<1>3. q \in Seq(T) /\ x \in T
  BY <1>1, <1>2, SMT
<1>4. PICK a : a = Append(q, x)
  OBVIOUS
<1>5. /\ a \in Seq(T) /\ Len(a) = Len(q) + 1 /\ Len(q) \in Nat
      /\ \A i \in 1 .. Len(q) : a[i] = q[i] /\ a[Len(q) + 1] = x
      /\ DOMAIN a = 1 .. Len(q) + 1 /\ DOMAIN q = 1 .. Len(q)
  BY <1>3, <1>4, SMT
<1>5a. a[Len(q) + 1] = x
  BY <1>3, <1>4, SMT
<1>6. \A y : y \in Range(a) <=> y \in Range(q) \cup {x}
  <2>1. \A i \in 1 .. Len(q) + 1 : i \in 1 .. Len(q) \/ i = Len(q) + 1
    BY <1>5, SMT
  <2>2. \A i \in 1 .. Len(q) : i \in 1 .. Len(q) + 1
    BY <1>5, SMT
  <2>3. Len(q) + 1 \in 1 .. Len(q) + 1
    BY <1>5, SMT
  <2> QED BY <1>5, <1>5a, <2>1, <2>2, <2>3 DEF Range
<1>7. IsSeq(a)
  BY <1>5 DEF IsSeq
<1> QED BY <1>4, <1>5, <1>5a, <1>6, <1>7

LEMMA SeqConcat ==
  ASSUME NEW q, NEW r, IsSeq(q), IsSeq(r)
  PROVE  /\ IsSeq(q \o r) /\ Range(q \o r) = Range(q) \cup Range(r)
         /\ Len(q \o r) = Len(q) + Len(r)
<1>1. PICK S : q \in Seq(S)
  BY DEF IsSeq
<1>2. PICK R : r \in Seq(R)
  BY DEF IsSeq
<1>3. PICK T : T = S \cup R
  OBVIOUS
<1>4. q \in Seq(T) /\ r \in Seq(T)
  BY <1>1, <1>2, <1>3, SMT
<1>5. PICK a : a = q \o r
  OBVIOUS
<1>6. /\ a \in Seq(T) /\ Len(a) = Len(q) + Len(r) /\ Len(q) \in Nat /\ Len(r) \in Nat
      /\ \A i \in 1 .. Len(q) : a[i] = q[i]
      /\ \A i \in 1 .. Len(r) : a[Len(q) + i] = r[i]
      /\ DOMAIN a = 1 .. Len(q) + Len(r) /\ DOMAIN q = 1 .. Len(q) /\ DOMAIN r = 1 .. Len(r)
  BY <1>4, <1>5, SMT
<1>7. \A y : y \in Range(a) <=> y \in Range(q) \cup Range(r)
  <2>1. \A i \in 1 .. Len(q) + Len(r) :
          i \in 1 .. Len(q) \/ \E j \in 1 .. Len(r) : i = Len(q) + j
    <3> TAKE i \in 1 .. Len(q) + Len(r)
    <3>1. i \notin 1 .. Len(q) => i - Len(q) \in 1 .. Len(r) /\ i = Len(q) + (i - Len(q))
      BY <1>6, SMT
    <3> QED BY <3>1
  <2>2. \A i \in 1 .. Len(q) : i \in 1 .. Len(q) + Len(r)
    BY <1>6, SMT
  <2>3. \A j \in 1 .. Len(r) : Len(q) + j \in 1 .. Len(q) + Len(r)
    BY <1>6, SMT
  <2>4. /\ \A y : y \in Range(a) <=> \E i \in 1 .. Len(q) + Len(r) : a[i] = y
        /\ \A y : y \in Range(q) <=> \E i \in 1 .. Len(q) : q[i] = y
        /\ \A y : y \in Range(r) <=> \E i \in 1 .. Len(r) : r[i] = y
    BY <1>6 DEF Range
  <2>5. ASSUME NEW y, y \in Range(a) PROVE y \in Range(q) \cup Range(r)
    <3>1. PICK i \in 1 .. Len(q) + Len(r) : a[i] = y
      BY <2>4, <2>5
    <3>2. CASE i \in 1 .. Len(q)
      BY <1>6, <2>4, <3>1, <3>2
    <3>3. ASSUME NEW j \in 1 .. Len(r), i = Len(q) + j PROVE y \in Range(r)
      BY <1>6, <2>4, <3>1, <3>3
    <3> QED BY <2>1, <3>2, <3>3
  <2>6. ASSUME NEW y, y \in Range(q) \cup Range(r) PROVE y \in Range(a)
    <3>1. CASE y \in Range(q)
      <4>1. PICK i \in 1 .. Len(q) : q[i] = y
        BY <2>4, <3>1
      <4>2. i \in 1 .. Len(q) + Len(r) /\ a[i] = y
        BY <1>6, <2>2, <4>1
      <4> QED BY <2>4, <4>2
    <3>2. CASE y \in Range(r)
      <4>1. PICK i \in 1 .. Len(r) : r[i] = y
        BY <2>4, <3>2
      <4>2. Len(q) + i \in 1 .. Len(q) + Len(r) /\ a[Len(q) + i] = y
        BY <1>6, <2>3, <4>1
      <4> QED BY <2>4, <4>2
    <3> QED BY <2>6, <3>1, <3>2
  <2> QED BY <2>5, <2>6
<1>8. IsSeq(a)
  BY <1>6 DEF IsSeq
<1> QED BY <1>5, <1>6, <1>7, <1>8

LEMMA SeqTail ==
  ASSUME NEW q, IsSeq(q), q # <<>>
  PROVE  /\ IsSeq(Tail(q)) /\ Range(Tail(q)) \subseteq Range(q) /\ Head(q) \in Range(q)
         /\ Len(Tail(q)) = Len(q) - 1 /\ Len(q) >= 1 /\ Head(q) = q[1]
         /\ \A i \in 1 .. Len(q) - 1 : Tail(q)[i] = q[i + 1]
<1>1. PICK S : q \in Seq(S)
  BY DEF IsSeq
<1>2. PICK t : t = Tail(q)
  OBVIOUS
<1>3. /\ t \in Seq(S) /\ Len(t) = Len(q) - 1 /\ Len(q) \in Nat /\ Len(q) >= 1
      /\ Head(q) = q[1] /\ DOMAIN t = 1 .. Len(q) - 1 /\ DOMAIN q = 1 .. Len(q)
      /\ \A i \in 1 .. Len(q) - 1 : t[i] = q[i + 1]
  BY <1>1, <1>2, SMT
<1>4. Range(t) \subseteq Range(q)
  <2>1. \A i \in 1 .. Len(q) - 1 : i + 1 \in 1 .. Len(q)
    BY <1>3, SMT
  <2>2. ASSUME NEW y, y \in Range(t) PROVE y \in Range(q)
    <3>1. PICK i \in 1 .. Len(q) - 1 : t[i] = y
      BY <1>3, <2>2 DEF Range
    <3>2. i + 1 \in DOMAIN q /\ q[i + 1] = y
      BY <1>3, <2>1, <3>1
    <3> QED BY <3>2 DEF Range
  <2> QED BY <2>2
<1>5. Head(q) \in Range(q)
  <2>1. 1 \in 1 .. Len(q)
    BY <1>3, SMT
  <2> QED BY <1>3, <2>1 DEF Range
<1>6. IsSeq(t)
  BY <1>3 DEF IsSeq
<1> QED BY <1>2, <1>3, <1>4, <1>5, <1>6

---------------------------------------------------------------------------
(* The bytes after position a up to position b.                            *)

Span(a, b) == [i \in 1 .. b - a |-> a + i]

LEMMA SpanFacts ==
  ASSUME NEW a \in Nat, NEW b \in Nat, a <= b
  PROVE  /\ Span(a, b) \in Seq(Nat) /\ IsSeq(Span(a, b)) /\ Len(Span(a, b)) = b - a
         /\ \A i \in 1 .. b - a : Span(a, b)[i] = a + i
         /\ \A x : x \in Range(Span(a, b)) <=> x \in Nat /\ a < x /\ x <= b
<1>1. /\ Span(a, b) \in Seq(Nat) /\ Len(Span(a, b)) = b - a
      /\ \A i \in 1 .. b - a : Span(a, b)[i] = a + i
  BY SMT DEF Span
<1>2. IsSeq(Span(a, b))
  BY <1>1 DEF IsSeq
<1>3. \A x : x \in Range(Span(a, b)) <=> \E i \in 1 .. b - a : x = a + i
  <2>1. DOMAIN Span(a, b) = 1 .. b - a
    BY SMT DEF Span
  <2> QED BY <1>1, <2>1 DEF Range
<1>4. \A x : (\E i \in 1 .. b - a : x = a + i) <=> x \in Nat /\ a < x /\ x <= b
  <2> TAKE x
  <2>1. ASSUME x \in Nat, a < x, x <= b PROVE \E i \in 1 .. b - a : x = a + i
    <3>1. x - a \in 1 .. b - a /\ x = a + (x - a)
      BY <2>1, SMT
    <3> QED BY <3>1
  <2>2. ASSUME NEW i \in 1 .. b - a, x = a + i PROVE x \in Nat /\ a < x /\ x <= b
    BY <2>2, SMT
  <2> QED BY <2>1, <2>2
<1> QED BY <1>1, <1>2, <1>3, <1>4

(* Spans that meet are one span.                                           *)
LEMMA SpanConcat ==
  ASSUME NEW a \in Nat, NEW b \in Nat, NEW c \in Nat, a <= b, b <= c
  PROVE  Span(a, b) \o Span(b, c) = Span(a, c)
  BY SMT DEF Span

LEMMA SpanEmpty ==
  ASSUME NEW a \in Nat, NEW b \in Nat, a <= b
  PROVE  Span(a, b) = <<>> <=> a = b
  BY SMT DEF Span

SplitAt(a, b, n) ==
  /\ SubSeq(Span(a, b), 1, n) = Span(a, a + n)
  /\ SubSeq(Span(a, b), n + 1, Len(Span(a, b))) = Span(a + n, b)

(* A payload cut in two (pop_next_payload_chunk).                          *)
LEMMA SpanSplit ==
  ASSUME NEW a \in Nat, NEW b \in Nat, NEW n \in Nat, a + n <= b
  PROVE  SplitAt(a, b, n)
  BY SMT DEF Span, SplitAt

---------------------------------------------------------------------------
(* The history of one direction of the connection: the packets sent in it  *)
(* have the positions 1 to n; packet k carries the bytes after cut[k - 1]  *)
(* up to cut[k] and has the number base + k; the last one is the FIN if    *)
(* fin; the receiver holds the packets of h and has taken in the first r.  *)

IsFin(g, k) == g.fin /\ k = g.n

Kinds(g) ==
  /\ g.base \in Numbers /\ g.n \in Nat /\ g.r \in Nat /\ g.cut \in [Nat -> Nat]
  /\ g.fin \in BOOLEAN /\ g.h \in SUBSET (1 .. g.n)

Cuts(g, total) ==
  /\ total \in Nat /\ total + 2 <= Half
  /\ g.cut[0] = 0 /\ g.cut[g.n] <= total
  /\ \A j \in 0 .. g.n : \A k \in 0 .. g.n : j <= k => g.cut[j] <= g.cut[k]
  /\ \A k \in 1 .. g.n : ~IsFin(g, k) => g.cut[k - 1] < g.cut[k]
  /\ g.fin => g.n >= 1 /\ g.cut[g.n] = total /\ g.cut[g.n - 1] = total
  /\ g.n <= g.cut[g.n] + (IF g.fin THEN 1 ELSE 0)

Taken(g) == g.r <= g.n /\ \A k \in 1 .. g.r : k \in g.h

WellFormed(g, total) == Kinds(g) /\ Cuts(g, total) /\ Taken(g)

(* What it holds ahead is not next.                                        *)
Stopped(g) == g.r + 1 \notin g.h

History(g, b, n, c, f, r, h) ==
  g.base = b /\ g.n = n /\ g.cut = c /\ g.fin = f /\ g.r = r /\ g.h = h

(* There are all the histories one can describe.                           *)
LEMMA Ghost == \A b, n, c, f, r, h : \E g : History(g, b, n, c, f, r, h)
<1> TAKE b, n, c, f, r, h
<1>1. PICK g : g = [base |-> b, n |-> n, cut |-> c, fin |-> f, r |-> r, h |-> h]
  OBVIOUS
<1>2. g.base = b /\ g.n = n /\ g.cut = c /\ g.fin = f /\ g.r = r /\ g.h = h
  BY <1>1
<1> QED BY <1>2 DEF History

(* A direction has fewer packets than half the number space: each carries  *)
(* a byte, except the FIN.                                                 *)
LEMMA ShortDirection ==
  ASSUME NEW g, NEW total, WellFormed(g, total)
  PROVE  g.n < Half /\ g.r < Half /\ g.r <= g.n /\ g.n \in Nat /\ g.r \in Nat /\ g.base \in Numbers
<1>1. /\ g.n \in Nat /\ g.r \in Nat /\ g.cut[g.n] \in Nat /\ total \in Nat /\ g.base \in Numbers
      /\ total + 2 <= Half /\ g.cut[g.n] <= total /\ g.r <= g.n
      /\ g.n <= g.cut[g.n] + (IF g.fin THEN 1 ELSE 0)
  BY DEF WellFormed, Kinds, Cuts, Taken
<1>2. g.n <= g.cut[g.n] + 1
  BY <1>1, SMT
<1> QED BY <1>1, <1>2, SpaceInt, SMT

(* The history goes on: nothing of it changes.                             *)
Grown(g, g2) ==
  /\ g2.base = g.base /\ g.n <= g2.n /\ g.r <= g2.r /\ g.h \subseteq g2.h
  /\ \A k \in 0 .. g.n : g2.cut[k] = g.cut[k]
  /\ g.fin => g2.fin /\ g2.n = g.n
  /\ ~g.fin /\ g2.fin => g2.n > g.n

LEMMA GrownRefl == ASSUME NEW g, Kinds(g) PROVE Grown(g, g)
<1>1. g.n <= g.n /\ g.r <= g.r
  BY SMT DEF Kinds
<1> QED BY <1>1 DEF Grown

(* Going on is transitive, and what was said of a packet stays true.       *)
LEMMA GrownTrans ==
  ASSUME NEW a, NEW b, NEW c, Kinds(a), Kinds(b), Kinds(c), Grown(a, b), Grown(b, c)
  PROVE  Grown(a, c)
<1>1. /\ a.n \in Nat /\ b.n \in Nat /\ c.n \in Nat /\ a.r \in Nat /\ b.r \in Nat /\ c.r \in Nat
      /\ a.fin \in BOOLEAN /\ b.fin \in BOOLEAN /\ c.fin \in BOOLEAN
  BY DEF Kinds
<1>2. c.base = a.base /\ a.h \subseteq c.h
  BY DEF Grown
<1>3. /\ a.n <= b.n /\ b.n <= c.n /\ a.r <= b.r /\ b.r <= c.r
      /\ a.fin => b.fin /\ b.n = a.n
      /\ b.fin => c.fin /\ c.n = b.n
      /\ ~a.fin /\ b.fin => b.n > a.n
      /\ ~b.fin /\ c.fin => c.n > b.n
  BY DEF Grown
<1>4. a.n <= c.n /\ a.r <= c.r
  BY <1>1, <1>3, SMT
<1>5. \A k \in 0 .. a.n : c.cut[k] = a.cut[k]
  <2>1. \A k \in 0 .. a.n : k \in 0 .. b.n
    BY <1>1, <1>3, SMT
  <2> QED BY <2>1 DEF Grown
<1>6. a.fin => c.fin /\ c.n = a.n
  BY <1>3
<1>7. ~a.fin /\ c.fin => c.n > a.n
  <2>1. SUFFICES ASSUME ~a.fin, c.fin PROVE c.n > a.n
    OBVIOUS
  <2>2. CASE b.fin
    <3>1. b.n > a.n /\ c.n = b.n
      BY <1>3, <2>1, <2>2
    <3> QED BY <1>1, <3>1, SMT
  <2>3. CASE ~b.fin
    <3>1. c.n > b.n /\ a.n <= b.n
      BY <1>3, <2>1, <2>3
    <3> QED BY <1>1, <3>1, SMT
  <2> QED BY <2>2, <2>3
<1> QED BY <1>2, <1>4, <1>5, <1>6, <1>7 DEF Grown

---------------------------------------------------------------------------
(* What is said of a packet: it is the k-th of its direction, and it       *)
(* acknowledges only what its sender holds of the other direction.         *)

ItemAt(u, g, k) ==
  /\ u.seq = Nr(g.base, k) /\ u.payload = Span(g.cut[k - 1], g.cut[k])
  /\ u.type = IF IsFin(g, k) THEN "FIN" ELSE "DATA"

Item(u, g) == \E k \in 1 .. g.n : ItemAt(u, g, k)

AcksTo(p, g, a) ==
  p.ack = Nr(g.base, a) /\ \A o \in p.sack : o \in 2 .. 33 /\ a + o \in g.h

Acks(p, g) == \E a \in 0 .. g.r : AcksTo(p, g, a)

Sent(p, gs, gr) == (p.type = "STATE" \/ Item(p, gs)) /\ Acks(p, gr)

LEMMA ItemGrown ==
  ASSUME NEW g, NEW g2, NEW u, Kinds(g), Kinds(g2), Grown(g, g2), Item(u, g)
  PROVE  Item(u, g2)
<1>1. PICK k \in 1 .. g.n : ItemAt(u, g, k)
  BY DEF Item
<1>2. g.n \in Nat /\ g2.n \in Nat /\ g.n <= g2.n
  BY DEF Kinds, Grown
<1>3. k \in 1 .. g2.n /\ k \in 0 .. g.n /\ k - 1 \in 0 .. g.n /\ k <= g.n /\ k \in Nat
  BY <1>2, SMT
<1>4. g2.cut[k] = g.cut[k] /\ g2.cut[k - 1] = g.cut[k - 1] /\ g2.base = g.base
  BY <1>3 DEF Grown
<1>5. IsFin(g, k) <=> IsFin(g2, k)
  <2>1. CASE g.fin
    BY <2>1 DEF Grown, IsFin
  <2>2. CASE ~g.fin
    <3>1. g2.fin => g2.n > g.n
      BY <2>2 DEF Grown
    <3>2. g2.n > g.n => k # g2.n
      BY <1>2, <1>3, SMT
    <3> QED BY <2>2, <3>1, <3>2 DEF IsFin
  <2> QED BY <2>1, <2>2
<1>6. ItemAt(u, g2, k)
  BY <1>1, <1>4, <1>5 DEF ItemAt
<1> QED BY <1>3, <1>6 DEF Item

LEMMA AcksGrown ==
  ASSUME NEW g, NEW g2, NEW p, Kinds(g), Kinds(g2), Grown(g, g2), Acks(p, g)
  PROVE  Acks(p, g2)
<1>1. PICK a \in 0 .. g.r : AcksTo(p, g, a)
  BY DEF Acks
<1>2. g.r \in Nat /\ g2.r \in Nat /\ g.r <= g2.r
  BY DEF Kinds, Grown
<1>3. a \in 0 .. g2.r
  BY <1>2, SMT
<1>4. AcksTo(p, g2, a)
  BY <1>1 DEF AcksTo, Grown
<1> QED BY <1>3, <1>4 DEF Acks

LEMMA SentGrown ==
  ASSUME NEW gs, NEW gs2, NEW gr, NEW gr2, NEW p, Kinds(gs), Kinds(gs2), Kinds(gr), Kinds(gr2),
         Grown(gs, gs2), Grown(gr, gr2), Sent(p, gs, gr)
  PROVE  Sent(p, gs2, gr2)
  BY ItemGrown, AcksGrown DEF Sent

---------------------------------------------------------------------------
(* The payloads that wait to be sent: the bytes after a up to b, in pieces *)
(* none of which is empty.                                                 *)

QueueCuts(q, c) ==
  /\ \A i \in 0 .. Len(q) : \A j \in 0 .. Len(q) : i <= j => c[i] <= c[j]
  /\ \A i \in 1 .. Len(q) : c[i - 1] < c[i] /\ q[i] = Span(c[i - 1], c[i])

Queue(q, a, b) ==
  /\ IsSeq(q)
  /\ \E c \in [Nat -> Nat] : c[0] = a /\ c[Len(q)] = b /\ QueueCuts(q, c)

LEMMA LeqTrans == \A x \in Nat : \A y \in Nat : \A z \in Nat : x <= y /\ y <= z => x <= z
  BY SMT

LEMMA UpToNext ==
  \A l \in Nat : \A i \in 1 .. l + 1 :
    i # l + 1 => i \in 1 .. l /\ i - 1 \in 0 .. l /\ i \in 0 .. l
  BY SMT

LEMMA Shift ==
  ASSUME NEW c \in [Nat -> Nat]
  PROVE  \E e \in [Nat -> Nat] : \A i \in Nat : e[i] = c[i + 1]
<1>1. PICK e : e = [i \in Nat |-> c[i + 1]]
  OBVIOUS
<1>2. e \in [Nat -> Nat] /\ \A i \in Nat : e[i] = c[i + 1]
  BY <1>1, SMT
<1> QED BY <1>2

LEMMA Unshift ==
  ASSUME NEW c \in [Nat -> Nat], NEW a \in Nat
  PROVE  \E e \in [Nat -> Nat] : e[0] = a /\ \A i \in Nat : e[i + 1] = c[i]
<1>1. PICK e : e = [i \in Nat |-> IF i = 0 THEN a ELSE c[i - 1]]
  OBVIOUS
<1>2. e \in [Nat -> Nat] /\ e[0] = a /\ \A i \in Nat : e[i + 1] = c[i]
  BY <1>1, SMT
<1> QED BY <1>2

Extended(e, c, k, m) ==
  e \in [Nat -> Nat] /\ e[k] = m /\ \A i \in Nat : i # k => e[i] = c[i]

LEMMA Extend ==
  ASSUME NEW c \in [Nat -> Nat], NEW k \in Nat, NEW m \in Nat
  PROVE  \E e : Extended(e, c, k, m)
<1>1. PICK e : e = [i \in Nat |-> IF i = k THEN m ELSE c[i]]
  OBVIOUS
<1>2. e \in [Nat -> Nat] /\ e[k] = m /\ \A i \in Nat : i # k => e[i] = c[i]
  BY <1>1, SMT
<1> QED BY <1>2 DEF Extended

LEMMA SeqPush ==
  ASSUME NEW q, NEW x, IsSeq(q)
  PROVE  /\ IsSeq(<<x>> \o q) /\ Len(<<x>> \o q) = Len(q) + 1 /\ (<<x>> \o q)[1] = x
         /\ \A i \in 1 .. Len(q) : (<<x>> \o q)[i + 1] = q[i]
<1>1. q \in Seq(Range(q)) /\ Len(q) \in Nat
  BY SeqFacts
<1>2. IsSeq(<<x>>) /\ Len(<<x>>) = 1
  <2>1. <<x>> \in Seq({x}) /\ Len(<<x>>) = 1
    BY SMT
  <2> QED BY <2>1 DEF IsSeq
<1>3. IsSeq(<<x>> \o q) /\ Len(<<x>> \o q) = Len(<<x>>) + Len(q)
  BY <1>2, SeqConcat
<1>4. (<<x>> \o q)[1] = x /\ \A i \in 1 .. Len(q) : (<<x>> \o q)[i + 1] = q[i]
  <2>1. PICK S : S = Range(q) \cup {x}
    OBVIOUS
  <2>2. q \in Seq(S) /\ <<x>> \in Seq(S)
    <3>1. Range(q) \subseteq S /\ x \in S
      BY <2>1
    <3> QED BY <1>1, <3>1, SMT
  <2> QED BY <1>1, <2>2, SMT
<1> QED BY <1>1, <1>2, <1>3, <1>4, SMT

LEMMA QueueEmpty == \A a \in Nat : Queue(<<>>, a, a)
<1> TAKE a \in Nat
<1>1. PICK c : c = [i \in Nat |-> a]
  OBVIOUS
<1>2. c \in [Nat -> Nat] /\ c[0] = a /\ \A i \in Nat : c[i] = a
  BY <1>1, SMT
<1>3. QueueCuts(<<>>, c)
  BY <1>2, SeqEmpty, SMT DEF QueueCuts
<1> QED BY <1>2, <1>3, SeqEmpty DEF Queue

LEMMA QueueEnd == ASSUME NEW a, NEW b, Queue(<<>>, a, b) PROVE a = b
  BY SeqEmpty DEF Queue

(* Taking the first payload, putting one back in front, adding one at the  *)
(* end.                                                                    *)
LEMMA QueueHead ==
  ASSUME NEW q, NEW a \in Nat, NEW b \in Nat, Queue(q, a, b), q # <<>>
  PROVE  \E m \in Nat : /\ a < m /\ m <= b /\ Head(q) = Span(a, m)
                        /\ Queue(Tail(q), m, b)
<1>1. PICK c \in [Nat -> Nat] : c[0] = a /\ c[Len(q)] = b /\ QueueCuts(q, c)
  BY DEF Queue
<1>2. IsSeq(q)
  BY DEF Queue
<1>3. /\ IsSeq(Tail(q)) /\ Len(Tail(q)) = Len(q) - 1 /\ Len(q) >= 1 /\ Head(q) = q[1]
      /\ \A i \in 1 .. Len(q) - 1 : Tail(q)[i] = q[i + 1]
  BY <1>2, SeqTail
<1>4. Len(q) \in Nat
  BY <1>2, SeqFacts
<1>5. 1 \in 1 .. Len(q) /\ 1 \in 0 .. Len(q) /\ Len(q) \in 0 .. Len(q) /\ 1 <= Len(q) /\ 1 - 1 = 0
  BY <1>3, <1>4, SMT
<1>6. c[1] \in Nat /\ c[1 - 1] < c[1] /\ q[1] = Span(c[1 - 1], c[1]) /\ c[1] <= c[Len(q)]
  BY <1>1, <1>5 DEF QueueCuts
<1>8. PICK e \in [Nat -> Nat] : \A i \in Nat : e[i] = c[i + 1]
  BY Shift
<1>9. e[0] = c[1] /\ e[Len(Tail(q))] = b
  <2>1. 0 \in Nat /\ 0 + 1 = 1 /\ Len(Tail(q)) \in Nat /\ Len(Tail(q)) + 1 = Len(q)
    BY <1>3, <1>4, SMT
  <2> QED BY <1>1, <1>8, <2>1
<1>10. QueueCuts(Tail(q), e)
  <2>1. ASSUME NEW i \in 0 .. Len(Tail(q)), NEW j \in 0 .. Len(Tail(q)), i <= j
        PROVE  e[i] <= e[j]
    <3>1. i + 1 \in 0 .. Len(q) /\ j + 1 \in 0 .. Len(q) /\ i + 1 <= j + 1 /\ i \in Nat /\ j \in Nat
      BY <1>3, <1>4, <2>1, SMT
    <3>2. c[i + 1] <= c[j + 1]
      BY <1>1, <3>1 DEF QueueCuts
    <3> QED BY <1>8, <3>1, <3>2
  <2>2. ASSUME NEW i \in 1 .. Len(Tail(q))
        PROVE  e[i - 1] < e[i] /\ Tail(q)[i] = Span(e[i - 1], e[i])
    <3>1. /\ i + 1 \in 1 .. Len(q) /\ i - 1 \in Nat /\ i \in Nat /\ i \in 1 .. Len(q) - 1
          /\ (i - 1) + 1 = (i + 1) - 1
      BY <1>3, <1>4, SMT
    <3>2. c[(i + 1) - 1] < c[i + 1] /\ q[i + 1] = Span(c[(i + 1) - 1], c[i + 1])
      BY <1>1, <3>1 DEF QueueCuts
    <3>3. e[i - 1] = c[(i + 1) - 1] /\ e[i] = c[i + 1] /\ Tail(q)[i] = q[i + 1]
      BY <1>3, <1>8, <3>1
    <3> QED BY <3>2, <3>3
  <2> QED BY <2>1, <2>2 DEF QueueCuts
<1>11. Queue(Tail(q), c[1], b)
  BY <1>3, <1>8, <1>9, <1>10 DEF Queue
<1>12. a < c[1] /\ c[1] <= b /\ Head(q) = Span(a, c[1])
  BY <1>1, <1>3, <1>5, <1>6
<1> QED BY <1>6, <1>11, <1>12

LEMMA QueuePush ==
  ASSUME NEW q, NEW a \in Nat, NEW m \in Nat, NEW b \in Nat, a < m, Queue(q, m, b)
  PROVE  Queue(<<Span(a, m)>> \o q, a, b)
<1>1. PICK c \in [Nat -> Nat] : c[0] = m /\ c[Len(q)] = b /\ QueueCuts(q, c)
  BY DEF Queue
<1>2. IsSeq(q) /\ Len(q) \in Nat
  <2>1. IsSeq(q)
    BY DEF Queue
  <2> QED BY <2>1, SeqFacts
<1>3. PICK x, r : x = Span(a, m) /\ r = <<x>> \o q
  OBVIOUS
<1>4. /\ IsSeq(r) /\ Len(r) = Len(q) + 1 /\ r[1] = x
      /\ \A i \in 1 .. Len(q) : r[i + 1] = q[i]
  BY <1>2, <1>3, SeqPush
<1>6. PICK e \in [Nat -> Nat] : e[0] = a /\ \A i \in Nat : e[i + 1] = c[i]
  BY Unshift
<1>7. e[Len(r)] = b
  BY <1>1, <1>2, <1>4, <1>6, SMT
<1>8. QueueCuts(r, e)
  <2>1. ASSUME NEW i \in 0 .. Len(r), NEW j \in 0 .. Len(r), i <= j
        PROVE  e[i] <= e[j]
    <3>1. i = 0 \/ i - 1 \in 0 .. Len(q)
      BY <1>2, <1>4, SMT
    <3>2. j = 0 \/ j - 1 \in 0 .. Len(q)
      BY <1>2, <1>4, SMT
    <3>3. 0 \in 0 .. Len(q)
      BY <1>2, SMT
    <3>4. CASE j = 0
      BY <1>2, <1>4, <1>6, <2>1, <3>4, SMT
    <3>5. CASE i = 0 /\ j - 1 \in 0 .. Len(q)
      <4>1. j - 1 \in Nat /\ (j - 1) + 1 = j /\ 0 <= j - 1
        BY <3>5, <1>2, SMT
      <4>2. c[0] <= c[j - 1]
        BY <1>1, <3>3, <3>5, <4>1 DEF QueueCuts
      <4>3. e[j] = c[j - 1] /\ c[j - 1] \in Nat
        BY <1>6, <4>1
      <4>4. a <= m
        BY SMT
      <4>5. a <= c[j - 1]
        <5>1. c[0] = m
          BY <1>1
        <5> QED BY <4>2, <4>3, <4>4, <5>1, LeqTrans
      <4> QED BY <1>6, <3>5, <4>3, <4>5
    <3>6. CASE i - 1 \in 0 .. Len(q) /\ j - 1 \in 0 .. Len(q)
      <4>1. /\ j - 1 \in Nat /\ (j - 1) + 1 = j /\ i - 1 \in Nat /\ (i - 1) + 1 = i
            /\ i - 1 <= j - 1
        BY <3>6, <1>2, <2>1, SMT
      <4>2. c[i - 1] <= c[j - 1]
        BY <1>1, <3>6, <4>1 DEF QueueCuts
      <4>3. e[j] = c[j - 1] /\ e[i] = c[i - 1]
        BY <1>6, <4>1
      <4> QED BY <4>2, <4>3
    <3> QED BY <3>1, <3>2, <3>4, <3>5, <3>6
  <2>2. ASSUME NEW i \in 1 .. Len(r)
        PROVE  e[i - 1] < e[i] /\ r[i] = Span(e[i - 1], e[i])
    <3>1. CASE i = 1
      <4>1. i - 1 = 0 /\ e[0] = a /\ e[i] = m
        <5>1. i = 0 + 1 /\ 0 \in Nat
          BY <3>1, SMT
        <5> QED BY <1>1, <1>6, <3>1, <5>1, SMT
      <4> QED BY <1>3, <1>4, <3>1, <4>1
    <3>2. CASE i # 1
      <4>1. /\ i - 1 \in 1 .. Len(q) /\ (i - 1) - 1 \in Nat /\ ((i - 1) - 1) + 1 = i - 1
            /\ i - 1 \in Nat /\ (i - 1) + 1 = i
        BY <3>2, <1>2, <1>4, SMT
      <4>2. c[(i - 1) - 1] < c[i - 1] /\ q[i - 1] = Span(c[(i - 1) - 1], c[i - 1])
        BY <1>1, <4>1 DEF QueueCuts
      <4>3. e[i - 1] = c[(i - 1) - 1] /\ e[i] = c[i - 1] /\ r[i] = q[i - 1]
        BY <1>4, <1>6, <4>1
      <4> QED BY <4>2, <4>3
    <3> QED BY <3>1, <3>2
  <2> QED BY <2>1, <2>2 DEF QueueCuts
<1>9. Queue(r, a, b)
  BY <1>4, <1>6, <1>7, <1>8 DEF Queue
<1> QED BY <1>3, <1>9

LEMMA QueueAppend ==
  ASSUME NEW q, NEW a \in Nat, NEW b \in Nat, NEW m \in Nat, b < m, Queue(q, a, b)
  PROVE  Queue(Append(q, Span(b, m)), a, m)
<1>1. PICK c \in [Nat -> Nat] : c[0] = a /\ c[Len(q)] = b /\ QueueCuts(q, c)
  BY DEF Queue
<1>2. IsSeq(q) /\ Len(q) \in Nat
  <2>1. IsSeq(q)
    BY DEF Queue
  <2> QED BY <2>1, SeqFacts
<1>3. PICK x, r : x = Span(b, m) /\ r = Append(q, x)
  OBVIOUS
<1>4. /\ IsSeq(r) /\ Len(r) = Len(q) + 1 /\ r[Len(q) + 1] = x
      /\ \A i \in 1 .. Len(q) : r[i] = q[i]
  <2>1. /\ IsSeq(Append(q, x)) /\ Len(Append(q, x)) = Len(q) + 1 /\ Append(q, x)[Len(q) + 1] = x
        /\ \A i \in 1 .. Len(q) : Append(q, x)[i] = q[i]
    <3>1. IsSeq(Append(q, x)) /\ Len(Append(q, x)) = Len(q) + 1
      BY <1>2, SeqAppend
    <3>2. \A i \in 1 .. Len(q) : Append(q, x)[i] = q[i]
      BY <1>2, SeqAppend, SMT
    <3>3. Append(q, x)[Len(q) + 1] = x
      BY <1>2, SeqAppend
    <3> QED BY <3>1, <3>2, <3>3
  <2> QED BY <1>3, <2>1
<1>5. PICK e : Extended(e, c, Len(q) + 1, m)
  <2>1. Len(q) + 1 \in Nat
    BY <1>2, SMT
  <2> QED BY <2>1, Extend
<1>6. e \in [Nat -> Nat] /\ e[Len(q) + 1] = m /\ \A i \in 0 .. Len(q) : e[i] = c[i]
  <2>1. \A i \in 0 .. Len(q) : i \in Nat /\ i # Len(q) + 1
    BY <1>2, SMT
  <2> QED BY <1>5, <2>1 DEF Extended
<1>7. e[0] = a /\ e[Len(r)] = m /\ Len(q) \in 0 .. Len(q)
  BY <1>1, <1>2, <1>4, <1>6, SMT
<1>8. QueueCuts(r, e)
  <2>1. ASSUME NEW i \in 0 .. Len(r), NEW j \in 0 .. Len(r), i <= j
        PROVE  e[i] <= e[j]
    <3>1. CASE j \in 0 .. Len(q)
      <4>1. i \in 0 .. Len(q)
        BY <1>2, <2>1, <3>1, SMT
      <4>2. c[i] <= c[j]
        BY <1>1, <2>1, <3>1, <4>1 DEF QueueCuts
      <4> QED BY <1>6, <3>1, <4>1, <4>2
    <3>2. CASE j = Len(q) + 1 /\ i \in 0 .. Len(q)
      <4>1. i <= Len(q)
        BY <1>2, <3>2, SMT
      <4>2. c[i] <= c[Len(q)]
        BY <1>1, <1>7, <3>2, <4>1 DEF QueueCuts
      <4>3. c[Len(q)] = b /\ e[i] = c[i] /\ e[j] = m
        BY <1>1, <1>6, <3>2
      <4>4. c[i] \in Nat
        BY <3>2, SMT
      <4>5. c[i] <= b
        BY <4>2, <4>3
      <4>6. c[i] <= m
        BY <4>4, <4>5, SMT
      <4> QED BY <4>3, <4>6
    <3>3. CASE j = Len(q) + 1 /\ i = Len(q) + 1
      BY <1>6, <3>3, SMT
    <3>4. j \in 0 .. Len(q) \/ j = Len(q) + 1
      BY <1>2, <1>4, SMT
    <3>5. i \in 0 .. Len(q) \/ i = Len(q) + 1
      BY <1>2, <1>4, SMT
    <3> QED BY <3>1, <3>2, <3>3, <3>4, <3>5
  <2>2. ASSUME NEW i \in 1 .. Len(r)
        PROVE  e[i - 1] < e[i] /\ r[i] = Span(e[i - 1], e[i])
    <3>1. CASE i = Len(q) + 1
      <4>1. i - 1 = Len(q) /\ e[i - 1] = b /\ e[i] = m
        <5>1. i - 1 = Len(q)
          BY <1>2, <3>1, SMT
        <5> QED BY <1>1, <1>6, <1>7, <3>1, <5>1
      <4> QED BY <1>3, <1>4, <3>1, <4>1
    <3>2. CASE i # Len(q) + 1
      <4>1. i \in 1 .. Len(q) /\ i - 1 \in 0 .. Len(q) /\ i \in 0 .. Len(q)
        <5>1. Len(r) = Len(q) + 1 /\ Len(q) \in Nat
          BY <1>2, <1>4
        <5> QED BY <3>2, <5>1, UpToNext
      <4>2. c[i - 1] < c[i] /\ q[i] = Span(c[i - 1], c[i])
        BY <1>1, <4>1 DEF QueueCuts
      <4>3. e[i - 1] = c[i - 1] /\ e[i] = c[i] /\ r[i] = q[i]
        BY <1>4, <1>6, <4>1
      <4> QED BY <4>2, <4>3
    <3> QED BY <3>1, <3>2
  <2> QED BY <2>1, <2>2 DEF QueueCuts
<1>9. Queue(r, a, m)
  BY <1>4, <1>6, <1>7, <1>8 DEF Queue
<1> QED BY <1>3, <1>9

---------------------------------------------------------------------------
(* A driver and the two directions: gs is what it sends, gr what it        *)
(* receives.                                                               *)

DriverFields ==
  {"next_send", "last_remote", "pending", "unacked", "ooo", "acks", "local_eof", "fin_sent",
   "remote_fin", "remote_eof", "remote_window", "window", "packet_size", "last_ack", "dups",
   "buffered"}

UnackedFields == {"type", "seq", "payload", "retransmits"}

Covered(d, g, k) == k \in g.h \/ \E u \in Range(d.unacked) : u.seq = Nr(g.base, k)

SendSide(d, g, total) ==
  /\ d.next_send = Nr(g.base, g.n + 1)
  /\ d.packet_size \in Nat /\ d.packet_size >= 1
  /\ d.fin_sent <=> g.fin
  /\ g.fin => d.local_eof /\ d.pending = <<>>
  /\ Queue(d.pending, g.cut[g.n], total)
  /\ IsSeq(d.unacked)
  /\ \A u \in Range(d.unacked) : DOMAIN u = UnackedFields /\ Item(u, g)
  /\ \A k \in 1 .. g.n : Covered(d, g, k)

HeldAt(d, g, q, k) ==
  k > g.r /\ q = Nr(g.base, k) /\ d.ooo[q] = Span(g.cut[k - 1], g.cut[k])

RecvSide(d, g) ==
  /\ d.last_remote = Nr(g.base, g.r)
  /\ \A q \in DOMAIN d.ooo : \E k \in g.h : HeldAt(d, g, q, k)
  /\ \A k \in g.h : k > g.r => Nr(g.base, k) \in DOMAIN d.ooo
  /\ \A q \in d.remote_fin : g.fin /\ q = Nr(g.base, g.n)
  /\ d.remote_eof => g.fin /\ g.r = g.n

SameSend(d, e) ==
  /\ e.next_send = d.next_send /\ e.pending = d.pending /\ e.unacked = d.unacked
  /\ e.local_eof = d.local_eof /\ e.fin_sent = d.fin_sent /\ e.packet_size = d.packet_size

SameRecv(d, e) ==
  /\ e.last_remote = d.last_remote /\ e.ooo = d.ooo
  /\ e.remote_fin = d.remote_fin /\ e.remote_eof = d.remote_eof

(* A side of the driver is decided by its own fields.                      *)
LEMMA SendSame ==
  ASSUME NEW d, NEW e, NEW g, NEW total, SameSend(d, e), SendSide(d, g, total)
  PROVE  SendSide(e, g, total)
  BY DEF SendSide, SameSend, Covered

LEMMA RecvSame ==
  ASSUME NEW d, NEW e, NEW g, SameRecv(d, e), RecvSide(d, g)
  PROVE  RecvSide(e, g)
  BY DEF RecvSide, SameRecv, HeldAt

(* A side stays right when the other end of its direction goes on.         *)
LEMMA SendGrown ==
  ASSUME NEW d, NEW g, NEW g2, NEW total, Kinds(g), Kinds(g2), Grown(g, g2), g2.n = g.n,
         SendSide(d, g, total)
  PROVE  SendSide(d, g2, total)
<1>1. g.n \in Nat /\ g2.base = g.base
  BY DEF Kinds, Grown
<1>2. g.n \in 0 .. g.n /\ ~(g.n > g.n)
  BY <1>1, SMT
<1>3. g2.cut[g2.n] = g.cut[g.n]
  <2>1. g2.cut[g.n] = g.cut[g.n]
    BY <1>2 DEF Grown
  <2> QED BY <2>1
<1>4. g2.fin <=> g.fin
  BY <1>2 DEF Grown
<1>5. \A u \in Range(d.unacked) : DOMAIN u = UnackedFields /\ Item(u, g2)
  BY ItemGrown DEF SendSide
<1>6. \A k \in 1 .. g2.n : Covered(d, g2, k)
  BY <1>1 DEF SendSide, Covered, Grown
<1> QED BY <1>1, <1>3, <1>4, <1>5, <1>6 DEF SendSide

LEMMA RecvGrown ==
  ASSUME NEW d, NEW g, NEW g2, Kinds(g), Kinds(g2), Grown(g, g2), g2.r = g.r, g2.h = g.h,
         RecvSide(d, g)
  PROVE  RecvSide(d, g2)
<1>1. g2.base = g.base
  BY DEF Grown
<1>2. g.fin => g2.fin /\ g2.n = g.n
  BY DEF Grown
<1>3. ASSUME NEW q, NEW k \in g.h, HeldAt(d, g, q, k)
      PROVE  HeldAt(d, g2, q, k)
  <2>1. g.n \in Nat /\ k \in 1 .. g.n
    BY DEF Kinds
  <2>2. k \in 0 .. g.n /\ k - 1 \in 0 .. g.n
    BY <2>1, SMT
  <2>3. g2.cut[k] = g.cut[k] /\ g2.cut[k - 1] = g.cut[k - 1]
    BY <2>2 DEF Grown
  <2> QED BY <1>1, <1>3, <2>3 DEF HeldAt
<1>4. \A q \in DOMAIN d.ooo : \E k \in g2.h : HeldAt(d, g2, q, k)
  BY <1>3 DEF RecvSide
<1> QED BY <1>1, <1>2, <1>4 DEF RecvSide

---------------------------------------------------------------------------
(* The packets a driver sends.                                             *)

(* send_state_packet and send_payload_packet acknowledge what the driver   *)
(* holds (selective_ack_for), and carry what they are said to carry.       *)
LEMMA StateSent ==
  ASSUME NEW d, NEW gs, NEW gr, NEW tr, WellFormed(gr, tr), RecvSide(d, gr)
  PROVE  Sent(StatePacket(d), gs, gr) /\ StatePacket(d).type = "STATE"
<1>1. PICK p : p = StatePacket(d)
  OBVIOUS
<1>2. p.type = "STATE" /\ p.ack = d.last_remote /\ p.sack = selective_ack_for(d)
  BY <1>1 DEF StatePacket
<1>3. /\ gr.n < Half /\ gr.r < Half /\ gr.r <= gr.n /\ gr.n \in Nat /\ gr.r \in Nat
      /\ gr.base \in Numbers
  BY ShortDirection
<1>4. d.last_remote = Nr(gr.base, gr.r)
  BY DEF RecvSide
<1>5. ASSUME NEW o \in p.sack
      PROVE  o \in 2 .. 33 /\ gr.r + o \in gr.h
  <2>1. o \in 2 .. 33 /\ wrapping_add(d.last_remote, o) \in DOMAIN d.ooo
    BY <1>2 DEF selective_ack_for
  <2>2. o \in Nat /\ o <= 33
    BY <2>1, SMT
  <2>3. wrapping_add(Nr(gr.base, gr.r), o) = Nr(gr.base, gr.r + o)
    BY <1>3, <2>2, NrFacts
  <2>4. PICK k \in gr.h : HeldAt(d, gr, Nr(gr.base, gr.r + o), k)
    BY <1>4, <2>1, <2>3 DEF RecvSide
  <2>5. k \in 1 .. gr.n /\ Nr(gr.base, gr.r + o) = Nr(gr.base, k)
    BY <2>4 DEF HeldAt, WellFormed, Kinds
  <2>6. /\ k \in Nat /\ gr.r + o \in Nat
        /\ (gr.r + o) - k < SeqSpace /\ k - (gr.r + o) < SeqSpace
    BY <1>3, <2>2, <2>5, SpaceInt, SMT
  <2>7. gr.r + o = k
    BY <1>3, <2>5, <2>6, NrInjective
  <2> QED BY <2>1, <2>7
<1>6. gr.r \in 0 .. gr.r
  BY <1>3, SMT
<1>7. AcksTo(p, gr, gr.r)
  BY <1>2, <1>4, <1>5 DEF AcksTo
<1> QED BY <1>1, <1>2, <1>6, <1>7 DEF Sent, Acks

LEMMA CarryingSent ==
  ASSUME NEW d, NEW u, NEW gs, NEW gr, NEW tr, WellFormed(gr, tr), RecvSide(d, gr), Item(u, gs)
  PROVE  Sent(Carrying(d, u), gs, gr) /\ Carrying(d, u).type # "STATE"
<1>1. PICK p : p = Carrying(d, u)
  OBVIOUS
<1>2. /\ p.type = u.type /\ p.seq = u.seq /\ p.payload = u.payload
      /\ p.ack = d.last_remote /\ p.sack = {}
  BY <1>1 DEF Carrying
<1>3. PICK k \in 1 .. gs.n : ItemAt(u, gs, k)
  BY DEF Item
<1>4. ItemAt(p, gs, k) /\ p.type # "STATE"
  BY <1>2, <1>3 DEF ItemAt
<1>5. gr.r \in Nat
  BY DEF WellFormed, Kinds
<1>6. gr.r \in 0 .. gr.r
  BY <1>5, SMT
<1>7. AcksTo(p, gr, gr.r)
  BY <1>2 DEF AcksTo, RecvSide
<1>8. Item(p, gs) /\ Acks(p, gr)
  BY <1>4, <1>6, <1>7 DEF Item, Acks
<1> QED BY <1>1, <1>4, <1>8 DEF Sent

(* What was sent before stays said.                                        *)
AllSent(out, gs, gr) == IsSeq(out) /\ \A p \in Range(out) : Sent(p, gs, gr)

LEMMA AllSentAppend ==
  ASSUME NEW out, NEW p, NEW gs, NEW gr, AllSent(out, gs, gr), Sent(p, gs, gr)
  PROVE  AllSent(Append(out, p), gs, gr)
<1>1. IsSeq(out)
  BY DEF AllSent
<1>2. IsSeq(Append(out, p)) /\ Range(Append(out, p)) = Range(out) \cup {p}
  BY <1>1, SeqAppend
<1> QED BY <1>2 DEF AllSent

LEMMA AllSentGrown ==
  ASSUME NEW out, NEW gs, NEW gs2, NEW gr, NEW gr2,
         Kinds(gs), Kinds(gs2), Kinds(gr), Kinds(gr2),
         Grown(gs, gs2), Grown(gr, gr2), AllSent(out, gs, gr)
  PROVE  AllSent(out, gs2, gr2)
  BY SentGrown DEF AllSent

---------------------------------------------------------------------------
(* The step of a driver that has not failed; rcv is what it had written to *)
(* its application before.                                                 *)

IsStep(s) ==
  /\ DOMAIN s = {"d", "out", "up", "err"} /\ DOMAIN s.d = DriverFields
  /\ ~s.err

StepOK(s, gs, gr, total, rcv) ==
  /\ IsStep(s) /\ AllSent(s.out, gs, gr)
  /\ SendSide(s.d, gs, total) /\ RecvSide(s.d, gr)
  /\ IsSeq(s.up) /\ rcv \o s.up = Span(0, gr.cut[gr.r])

(* It has nothing to acknowledge, and has not.                             *)
Mute(s) == s.d.acks = 0 /\ \A p \in Range(s.out) : p.type # "STATE"

(* flush_delayed_ack sends an acknowledgement and changes nothing else.    *)
LEMMA Said ==
  ASSUME NEW s, NEW gs, NEW gr, NEW total, NEW tr, NEW rcv, WellFormed(gr, tr),
         StepOK(s, gs, gr, total, rcv)
  PROVE  /\ StepOK(flush_delayed_ack(s), gs, gr, total, rcv)
         /\ SameSend(s.d, flush_delayed_ack(s).d) /\ SameRecv(s.d, flush_delayed_ack(s).d)
         /\ flush_delayed_ack(s).up = s.up
         /\ Mute(s) => Mute(flush_delayed_ack(s))
<1>1. PICK t : t = flush_delayed_ack(s)
  OBVIOUS
<1>2. CASE s.d.acks = 0
  <2>1. t = s
    BY <1>1, <1>2 DEF flush_delayed_ack
  <2>2. SameSend(s.d, s.d) /\ SameRecv(s.d, s.d)
    BY DEF SameSend, SameRecv
  <2> QED BY <1>1, <2>1, <2>2
<1>3. CASE s.d.acks # 0
  <2>1. PICK p : p = StatePacket(s.d)
    OBVIOUS
  <2>2. t = [s EXCEPT !.out = Append(@, p), !.d.acks = 0]
    BY <1>1, <1>3, <2>1 DEF flush_delayed_ack
  <2>3. /\ IsStep(t) /\ SameSend(s.d, t.d) /\ SameRecv(s.d, t.d)
        /\ t.out = Append(s.out, p) /\ t.up = s.up
    BY <2>2 DEF StepOK, IsStep, DriverFields, SameSend, SameRecv
  <2>4. Sent(p, gs, gr)
    BY <2>1, StateSent DEF StepOK
  <2>5. AllSent(t.out, gs, gr)
    BY <2>3, <2>4, AllSentAppend DEF StepOK
  <2>6. SendSide(t.d, gs, total) /\ RecvSide(t.d, gr)
    BY <2>3, SendSame, RecvSame DEF StepOK
  <2>7. StepOK(t, gs, gr, total, rcv)
    BY <2>3, <2>5, <2>6 DEF StepOK
  <2>8. ~Mute(s)
    BY <1>3 DEF Mute
  <2> QED BY <1>1, <2>3, <2>7, <2>8
<1> QED BY <1>2, <1>3

---------------------------------------------------------------------------
(* Sending.                                                                *)

(* The sender has gone on.                                                 *)
Sends(g, g2, total) ==
  WellFormed(g2, total) /\ Grown(g, g2) /\ g2.r = g.r /\ g2.h = g.h

(* One more packet, up to byte c.                                          *)
OneMore(g, g2, c) ==
  /\ g2.base = g.base /\ g2.n = g.n + 1 /\ g2.cut[g2.n] = c
  /\ g2.cut[g2.n - 1] = g.cut[g.n]

(* A history can be extended by a packet that follows.                     *)
LEMMA Longer ==
  ASSUME NEW g, NEW total, NEW c \in Nat, NEW fin \in BOOLEAN,
         WellFormed(g, total), ~g.fin, c <= total,
         fin => g.cut[g.n] = c /\ c = total,
         ~fin => g.cut[g.n] < c
  PROVE  \E g2 : Sends(g, g2, total) /\ OneMore(g, g2, c) /\ (g2.fin <=> fin)
<1>1. /\ g.base \in Numbers /\ g.n \in Nat /\ g.r \in Nat /\ g.cut \in [Nat -> Nat]
      /\ g.h \in SUBSET (1 .. g.n)
  BY DEF WellFormed, Kinds
<1>2. PICK m \in Nat : m = g.n + 1
  BY <1>1, SMT
<1>3. PICK cut : Extended(cut, g.cut, m, c)
  BY <1>1, Extend
<1>4. cut \in [Nat -> Nat] /\ cut[m] = c
  BY <1>3 DEF Extended
<1>5. \A k \in 0 .. g.n : k \in Nat /\ k # m
  BY <1>1, <1>2, SMT
<1>6. \A k \in 0 .. g.n : cut[k] = g.cut[k]
  BY <1>3, <1>5 DEF Extended
<1>a. PICK g2 : History(g2, g.base, m, cut, fin, g.r, g.h)
  BY Ghost
<1>7. /\ g2.base = g.base /\ g2.n = m /\ g2.cut = cut /\ g2.fin = fin
      /\ g2.r = g.r /\ g2.h = g.h
  BY <1>a DEF History
<1>8. g.n \in 0 .. g.n /\ 0 \in 0 .. g.n /\ m - 1 = g.n /\ g.n <= m /\ g.r <= g.r /\ m > g.n
  BY <1>1, <1>2, SMT
<1>9. PICK a \in Nat : a = g.cut[g.n]
  BY <1>1, SMT
<1>10. a <= c
  BY <1>9, SMT
<1>11. OneMore(g, g2, c)
  BY <1>2, <1>4, <1>6, <1>7, <1>8 DEF OneMore
<1>12. Kinds(g2)
  <2>1. 1 .. g.n \subseteq 1 .. m
    BY <1>1, <1>2, SMT
  <2> QED BY <1>1, <1>4, <1>7, <2>1 DEF Kinds
<1>13. Grown(g, g2)
  BY <1>6, <1>7, <1>8 DEF Grown
<1>14. Taken(g2)
  <2>1. g.r <= g.n /\ \A k \in 1 .. g.r : k \in g.h
    BY DEF WellFormed, Taken
  <2>2. g.r <= m
    BY <1>1, <1>2, <2>1, SMT
  <2> QED BY <1>7, <2>1, <2>2 DEF Taken
<1>15. Cuts(g2, total)
  <2>1. /\ total \in Nat /\ total + 2 <= Half /\ g.cut[0] = 0
        /\ \A j \in 0 .. g.n : \A k \in 0 .. g.n : j <= k => g.cut[j] <= g.cut[k]
        /\ \A k \in 1 .. g.n : ~IsFin(g, k) => g.cut[k - 1] < g.cut[k]
        /\ g.n <= g.cut[g.n] + (IF g.fin THEN 1 ELSE 0)
    BY DEF WellFormed, Cuts
  <2>2. g2.cut[0] = 0 /\ g2.cut[g2.n] <= total
    BY <1>4, <1>6, <1>7, <1>8, <2>1
  <2>3. ASSUME NEW j \in 0 .. m, NEW k \in 0 .. m, j <= k
        PROVE  cut[j] <= cut[k]
    <3>1. CASE k \in 0 .. g.n
      <4>1. j \in 0 .. g.n
        BY <1>1, <2>3, <3>1, SMT
      <4> QED BY <1>6, <2>1, <2>3, <3>1, <4>1
    <3>2. CASE k = m /\ j \in 0 .. g.n
      <4>1. j <= g.n /\ j \in Nat
        BY <1>1, <3>2, SMT
      <4>2. g.cut[j] <= a
        BY <1>8, <1>9, <2>1, <3>2, <4>1
      <4>3. g.cut[j] \in Nat
        BY <1>1, <4>1
      <4>4. g.cut[j] <= c
        BY <1>10, <4>2, <4>3, LeqTrans
      <4> QED BY <1>4, <1>6, <3>2, <4>4
    <3>3. CASE k = m /\ j = m
      BY <1>4, <3>3, SMT
    <3>4. (k \in 0 .. g.n \/ k = m) /\ (j \in 0 .. g.n \/ j = m)
      BY <1>1, <1>2, SMT
    <3> QED BY <3>1, <3>2, <3>3, <3>4
  <2>4. ASSUME NEW k \in 1 .. m, ~IsFin(g2, k)
        PROVE  cut[k - 1] < cut[k]
    <3>1. CASE k = m
      <4>1. ~fin
        BY <1>7, <2>4, <3>1 DEF IsFin
      <4>2. g.cut[g.n] < c
        BY <4>1, SMT
      <4> QED BY <1>4, <1>6, <1>8, <3>1, <4>2
    <3>2. CASE k \in 1 .. g.n
      <4>1. k \in 0 .. g.n /\ k - 1 \in 0 .. g.n
        BY <1>1, <3>2, SMT
      <4>2. ~IsFin(g, k)
        BY DEF IsFin
      <4> QED BY <1>6, <2>1, <3>2, <4>1, <4>2
    <3>3. k = m \/ k \in 1 .. g.n
      BY <1>1, <1>2, SMT
    <3> QED BY <3>1, <3>2, <3>3
  <2>5. g2.fin => g2.n >= 1 /\ g2.cut[g2.n] = total /\ g2.cut[g2.n - 1] = total
    <3>1. m >= 1
      BY <1>1, <1>2, SMT
    <3> QED BY <1>4, <1>6, <1>7, <1>8, <3>1
  <2>6. g2.n <= g2.cut[g2.n] + (IF g2.fin THEN 1 ELSE 0)
    <3>1. g.n <= a
      <4>1. g.n <= a + 0
        BY <1>9, <2>1
      <4> QED BY <4>1, SMT
    <3>2. CASE fin
      <4>1. m <= c + 1
        BY <1>1, <1>2, <1>10, <3>1, SMT
      <4> QED BY <1>4, <1>7, <3>2, <4>1
    <3>3. CASE ~fin
      <4>1. a < c
        BY <1>9, <3>3, SMT
      <4>2. m <= c + 0
        BY <1>1, <1>2, <3>1, <4>1, SMT
      <4> QED BY <1>4, <1>7, <3>3, <4>2
    <3> QED BY <3>2, <3>3
  <2> QED BY <1>7, <2>1, <2>2, <2>3, <2>4, <2>5, <2>6 DEF Cuts
<1> QED BY <1>7, <1>11, <1>12, <1>13, <1>14, <1>15 DEF Sends, WellFormed

(* The driver after it sent u and kept it.                                 *)
SentAs(s, t, u) ==
  /\ IsStep(t) /\ SameRecv(s.d, t.d) /\ t.up = s.up /\ t.d.acks = s.d.acks
  /\ t.out = Append(s.out, Carrying(s.d, u))
  /\ t.d.next_send = wrapping_add(s.d.next_send, 1)
  /\ t.d.unacked = Append(s.d.unacked, u)
  /\ t.d.packet_size = s.d.packet_size
  /\ DOMAIN u = UnackedFields /\ u.seq = s.d.next_send

(* A driver that sends the next packet and keeps it is in agreement with   *)
(* the extended history.                                                   *)
LEMMA SentOne ==
  ASSUME NEW s, NEW t, NEW u, NEW gs, NEW g2, NEW gr, NEW total, NEW tr, NEW rcv, NEW c,
         WellFormed(gs, total), WellFormed(gr, tr), StepOK(s, gs, gr, total, rcv),
         Sends(gs, g2, total), OneMore(gs, g2, c), SentAs(s, t, u),
         u.payload = Span(gs.cut[gs.n], c), u.type = IF g2.fin THEN "FIN" ELSE "DATA",
         t.d.fin_sent <=> g2.fin,
         g2.fin => t.d.local_eof /\ t.d.pending = <<>>,
         Queue(t.d.pending, c, total)
  PROVE  StepOK(t, g2, gr, total, rcv) /\ (Mute(s) => Mute(t))
<1>1. Kinds(gs) /\ Kinds(g2) /\ Kinds(gr) /\ Grown(gs, g2)
  BY DEF Sends, WellFormed
<1>2. gs.n \in Nat /\ gs.base \in Numbers /\ g2.base = gs.base /\ g2.n = gs.n + 1
  BY <1>1 DEF Kinds, OneMore
<1>3. /\ g2.n \in 1 .. g2.n /\ gs.n + 1 \in Nat /\ \A k \in 1 .. g2.n : k \in 1 .. gs.n \/ k = g2.n
  BY <1>2, SMT
<1>4. s.d.next_send = Nr(gs.base, gs.n + 1)
  BY DEF StepOK, SendSide
<1>5. ItemAt(u, g2, g2.n)
  BY <1>2, <1>4 DEF ItemAt, IsFin, OneMore, SentAs
<1>6. Item(u, g2)
  BY <1>3, <1>5 DEF Item
<1>7. RecvSide(t.d, gr) /\ RecvSide(s.d, gr)
  BY RecvSame DEF StepOK, SentAs
<1>8. AllSent(t.out, g2, gr)
  <2>1. AllSent(s.out, g2, gr)
    <3>1. AllSent(s.out, gs, gr) /\ Grown(gr, gr)
      BY <1>1, GrownRefl DEF StepOK
    <3> QED BY <1>1, <3>1, AllSentGrown
  <2>2. Sent(Carrying(s.d, u), g2, gr)
    BY <1>6, <1>7, CarryingSent
  <2> QED BY <2>1, <2>2, AllSentAppend DEF SentAs
<1>9. IsSeq(s.d.unacked)
  BY DEF StepOK, SendSide
<1>10. IsSeq(t.d.unacked) /\ Range(t.d.unacked) = Range(s.d.unacked) \cup {u}
  <2>1. IsSeq(Append(s.d.unacked, u)) /\ Range(Append(s.d.unacked, u)) = Range(s.d.unacked) \cup {u}
    BY <1>9, SeqAppend
  <2> QED BY <2>1 DEF SentAs
<1>11. \A x \in Range(t.d.unacked) : DOMAIN x = UnackedFields /\ Item(x, g2)
  <2>1. \A x \in Range(s.d.unacked) : DOMAIN x = UnackedFields /\ Item(x, g2)
    BY <1>1, ItemGrown DEF StepOK, SendSide
  <2>2. DOMAIN u = UnackedFields
    BY DEF SentAs
  <2> QED BY <1>6, <1>10, <2>1, <2>2
<1>12. ASSUME NEW k \in 1 .. g2.n
       PROVE  Covered(t.d, g2, k)
  <2>1. CASE k \in 1 .. gs.n
    <3>1. Covered(s.d, gs, k)
      BY <2>1 DEF StepOK, SendSide
    <3> QED BY <1>2, <1>10, <3>1 DEF Covered, Sends
  <2>2. CASE k = g2.n
    <3>1. u.seq = Nr(g2.base, k) /\ u \in Range(t.d.unacked)
      BY <1>10, <1>5, <2>2 DEF ItemAt
    <3> QED BY <3>1 DEF Covered
  <2> QED BY <1>3, <2>1, <2>2
<1>13. t.d.next_send = Nr(g2.base, g2.n + 1)
  <2>1. 1 \in Nat /\ gs.n + 1 \in Nat
    BY <1>2, SMT
  <2>2. wrapping_add(Nr(gs.base, gs.n + 1), 1) = Nr(gs.base, (gs.n + 1) + 1)
    BY <1>2, <2>1, NrFacts
  <2> QED BY <1>2, <1>4, <2>2 DEF SentAs
<1>14. SendSide(t.d, g2, total)
  <2>1. t.d.packet_size \in Nat /\ t.d.packet_size >= 1
    BY DEF SentAs, StepOK, SendSide
  <2>2. Queue(t.d.pending, g2.cut[g2.n], total)
    BY DEF OneMore
  <2> QED BY <1>10, <1>11, <1>12, <1>13, <2>1, <2>2 DEF SendSide
<1>15. StepOK(t, g2, gr, total, rcv)
  BY <1>7, <1>8, <1>14 DEF StepOK, SentAs
<1>16. Mute(s) => Mute(t)
  <2>1. Carrying(s.d, u).type # "STATE"
    BY <1>6, <1>7, CarryingSent
  <2>2. IsSeq(s.out)
    BY DEF StepOK, AllSent
  <2>3. Range(t.out) = Range(s.out) \cup {Carrying(s.d, u)}
    <3>1. PICK p : p = Carrying(s.d, u)
      OBVIOUS
    <3>2. Range(Append(s.out, p)) = Range(s.out) \cup {p}
      BY <2>2, SeqAppend
    <3> QED BY <3>1, <3>2 DEF SentAs
  <2> QED BY <2>1, <2>3 DEF Mute, SentAs
<1> QED BY <1>15, <1>16

LEMMA MinTwo ==
  ASSUME NEW x \in Nat, NEW y \in Nat
  PROVE  Min({x, y}) \in {x, y} /\ Min({x, y}) <= x /\ Min({x, y}) <= y
<1>1. \E m \in {x, y} : \A k \in {x, y} : m <= k
  <2>1. CASE x <= y
    BY <2>1, SMT
  <2>2. CASE y <= x
    BY <2>2, SMT
  <2> QED BY <2>1, <2>2, SMT
<1>2. Min({x, y}) \in {x, y} /\ \A k \in {x, y} : Min({x, y}) <= k
  BY <1>1 DEF Min
<1> QED BY <1>2

(* What s became, by sending more: t.                                      *)
SentOn(s, t, gs, gr, total, rcv) ==
  \E g2 : /\ Sends(gs, g2, total) /\ StepOK(t, g2, gr, total, rcv)
          /\ t.up = s.up /\ (Mute(s) => Mute(t))

LEMMA SentOnRefl ==
  ASSUME NEW s, NEW gs, NEW gr, NEW total, NEW rcv,
         WellFormed(gs, total), StepOK(s, gs, gr, total, rcv)
  PROVE  SentOn(s, s, gs, gr, total, rcv)
<1>1. Sends(gs, gs, total)
  BY GrownRefl DEF Sends, WellFormed
<1> QED BY <1>1 DEF SentOn

LEMMA SentOnTrans ==
  ASSUME NEW s, NEW t, NEW r, NEW gs, NEW g2, NEW gr, NEW total, NEW rcv,
         WellFormed(gs, total), Sends(gs, g2, total),
         t.up = s.up, Mute(s) => Mute(t),
         SentOn(t, r, g2, gr, total, rcv)
  PROVE  SentOn(s, r, gs, gr, total, rcv)
<1>1. PICK g3 : /\ Sends(g2, g3, total) /\ StepOK(r, g3, gr, total, rcv)
                /\ r.up = t.up /\ (Mute(t) => Mute(r))
  BY DEF SentOn
<1>2. Kinds(gs) /\ Kinds(g2) /\ Kinds(g3)
  BY <1>1 DEF Sends, WellFormed
<1>3. Grown(gs, g3)
  BY <1>1, <1>2, GrownTrans DEF Sends
<1>4. Sends(gs, g3, total)
  BY <1>1, <1>3 DEF Sends
<1> QED BY <1>1, <1>4 DEF SentOn

LEMMA EmptyConcat == ASSUME NEW q, IsSeq(q) PROVE <<>> \o q = q
<1>1. PICK S : q \in Seq(S)
  BY DEF IsSeq
<1> QED BY <1>1, SMT

(* A turn of flush_pending_payloads: the next chunk is sent and kept.      *)
LEMMA SentChunk ==
  ASSUME NEW s, NEW gs, NEW gr, NEW total, NEW tr, NEW rcv,
         WellFormed(gs, total), WellFormed(gr, tr), StepOK(s, gs, gr, total, rcv), MaySend(s.d)
  PROVE  SentOn(s, SendChunk(s), gs, gr, total, rcv)
<1>1. s.d.pending # <<>>
  BY DEF MaySend
<1>2. /\ gs.n \in Nat /\ gs.cut \in [Nat -> Nat] /\ total \in Nat /\ gs.fin \in BOOLEAN
  BY DEF WellFormed, Kinds, Cuts
<1>3. PICK a \in Nat : a = gs.cut[gs.n]
  BY <1>2, SMT
<1>4. /\ Queue(s.d.pending, a, total) /\ ~gs.fin /\ ~s.d.fin_sent
      /\ s.d.packet_size \in Nat /\ s.d.packet_size >= 1
  BY <1>1, <1>3 DEF StepOK, SendSide
<1>5. PICK m \in Nat : /\ a < m /\ m <= total /\ Head(s.d.pending) = Span(a, m)
                       /\ Queue(Tail(s.d.pending), m, total)
  BY <1>1, <1>2, <1>4, QueueHead
<1>6. a <= m
  BY <1>5, SMT
<1>7. PICK l \in Nat : l = m - a /\ l >= 1 /\ Len(Span(a, m)) = l
  <2>1. Len(Span(a, m)) = m - a
    BY <1>6, SpanFacts
  <2>2. m - a \in Nat /\ m - a >= 1
    BY <1>5, SMT
  <2> QED BY <2>1, <2>2
<1>8. PICK n : n = NextChunk(s.d)
  OBVIOUS
<1>9. n = Min({l, s.d.packet_size})
  BY <1>5, <1>7, <1>8 DEF NextChunk
<1>10. n \in {l, s.d.packet_size} /\ n <= l
  BY <1>4, <1>9, MinTwo
<1>11. n \in Nat /\ n >= 1
  BY <1>4, <1>7, <1>10
<1>12. PICK c \in Nat : c = a + n
  BY <1>11, SMT
<1>13. a < c /\ c <= m /\ c <= total /\ a + n <= m
  BY <1>2, <1>5, <1>7, <1>10, <1>11, <1>12, SMT
<1>14. /\ SubSeq(Span(a, m), 1, n) = Span(a, c)
       /\ SubSeq(Span(a, m), n + 1, Len(Span(a, m))) = Span(c, m)
  <2>1. SplitAt(a, m, n)
    BY <1>11, <1>13, SpanSplit
  <2> QED BY <1>12, <2>1 DEF SplitAt
<1>15. PICK rest, u, pend, t :
         /\ rest = SubSeq(Head(s.d.pending), n + 1, Len(Head(s.d.pending)))
         /\ u = [type |-> "DATA", seq |-> s.d.next_send,
                 payload |-> SubSeq(Head(s.d.pending), 1, n), retransmits |-> 0]
         /\ pend = (IF rest = <<>> THEN <<>> ELSE <<rest>>) \o Tail(s.d.pending)
         /\ t = SendChunk(s)
  OBVIOUS
<1>16. t = [s EXCEPT !.out = Append(@, Carrying(s.d, u)), !.d.pending = pend,
                     !.d.next_send = wrapping_add(@, 1), !.d.unacked = Append(@, u)]
  BY <1>8, <1>15 DEF SendChunk
<1>17. /\ rest = Span(c, m) /\ DOMAIN u = UnackedFields
       /\ u.payload = Span(a, c) /\ u.seq = s.d.next_send /\ u.type = "DATA"
  BY <1>5, <1>14, <1>15 DEF UnackedFields
<1>18. /\ SentAs(s, t, u) /\ t.d.pending = pend /\ t.d.fin_sent = s.d.fin_sent
       /\ t.d.local_eof = s.d.local_eof
  BY <1>16, <1>17 DEF SentAs, StepOK, IsStep, DriverFields, SameRecv
<1>19. Queue(pend, c, total)
  <2>1. IsSeq(Tail(s.d.pending))
    BY <1>5 DEF Queue
  <2>2. CASE c = m
    <3>1. rest = <<>>
      BY <1>13, <1>17, <2>2, SpanEmpty
    <3>2. pend = Tail(s.d.pending)
      BY <1>15, <2>1, <3>1, EmptyConcat
    <3> QED BY <1>5, <2>2, <3>2
  <2>3. CASE c # m
    <3>1. rest # <<>>
      BY <1>13, <1>17, <2>3, SpanEmpty
    <3>2. pend = <<Span(c, m)>> \o Tail(s.d.pending)
      BY <1>15, <1>17, <3>1
    <3>3. c < m
      BY <1>13, <2>3, SMT
    <3> QED BY <1>2, <1>5, <3>2, <3>3, QueuePush
  <2> QED BY <2>2, <2>3
<1>20. PICK g2 : Sends(gs, g2, total) /\ OneMore(gs, g2, c) /\ (g2.fin <=> FALSE)
  BY <1>3, <1>4, <1>13, Longer
<1>21. u.type = IF g2.fin THEN "FIN" ELSE "DATA"
  BY <1>17, <1>20
<1>22. StepOK(t, g2, gr, total, rcv) /\ (Mute(s) => Mute(t))
  BY <1>3, <1>4, <1>17, <1>18, <1>19, <1>20, <1>21, SentOne
<1>23. t.up = s.up
  BY <1>18 DEF SentAs
<1> QED BY <1>15, <1>20, <1>22, <1>23 DEF SentOn

LEMMA SentNext ==
  ASSUME NEW s, NEW t, NEW gs, NEW gr, NEW total, NEW tr, NEW rcv,
         WellFormed(gs, total), WellFormed(gr, tr), SentOn(s, t, gs, gr, total, rcv)
  PROVE  SentOn(s, SendNext(t), gs, gr, total, rcv)
<1>1. CASE ~MaySend(t.d)
  <2>1. SendNext(t) = t
    BY <1>1 DEF SendNext
  <2> QED BY <2>1
<1>2. CASE MaySend(t.d)
  <2>1. PICK g2 : /\ Sends(gs, g2, total) /\ StepOK(t, g2, gr, total, rcv)
                  /\ t.up = s.up /\ (Mute(s) => Mute(t))
    BY DEF SentOn
  <2>2. SentOn(t, SendChunk(t), g2, gr, total, rcv)
    BY <1>2, <2>1, SentChunk DEF Sends
  <2>3. SentOn(s, SendChunk(t), gs, gr, total, rcv)
    BY <2>1, <2>2, SentOnTrans
  <2> QED BY <1>2, <2>3 DEF SendNext
<1> QED BY <1>1, <1>2

(* The turns of flush_pending_payloads as a function.                      *)
LEMMA FlushLoop ==
  ASSUME SetFacts, NEW s, NEW M \in Nat, M = MaxInflight
  PROVE  \E f : /\ f = [n \in 0 .. M |-> IF n = 0 THEN s ELSE SendNext(f[n - 1])]
                /\ flush_pending_payloads(s) = f[M]
<1> DEFINE Is(f, k) == f = [n \in 0 .. k |-> IF n = 0 THEN s ELSE SendNext(f[n - 1])]
           P == {k \in Nat : \E f : Is(f, k)}
<1>1. 0 \in P
  <2>1. Is([n \in 0 .. 0 |-> s], 0)
    BY SMT
  <2> QED BY <2>1
<1>2. ASSUME NEW k \in Nat, k \in P PROVE k + 1 \in P
  <2>1. PICK f : Is(f, k)
    BY <1>2, SMT
  <2>2. PICK g : g = [n \in 0 .. k + 1 |-> IF n = k + 1 THEN SendNext(f[k]) ELSE f[n]]
    OBVIOUS
  <2>3. \A n \in 0 .. k + 1 : g[n] = IF n = 0 THEN s ELSE SendNext(g[n - 1])
    <3> TAKE n \in 0 .. k + 1
    <3>1. CASE n = k + 1
      BY <2>2, <3>1, SMT
    <3>2. CASE n # k + 1
      BY <2>1, <2>2, <3>2, SMT
    <3> QED BY <3>1, <3>2, SMT
  <2>4. Is(g, k + 1)
    BY <2>2, <2>3
  <2>5. k + 1 \in Nat
    BY SMT
  <2> QED BY <2>4, <2>5
<1>3. M \in P
  <2> HIDE DEF Is
  <2>1. P \in SUBSET Nat
    BY SMT
  <2> HIDE DEF P
  <2> QED BY <1>1, <1>2, <2>1, SetInduction, SMT
<1>4. PICK f : Is(f, M)
  BY <1>3, SMT
<1> DEFINE after[n \in 0 .. MaxInflight] == IF n = 0 THEN s ELSE SendNext(after[n - 1])
<1>5. after = [n \in 0 .. MaxInflight |-> IF n = 0 THEN s ELSE SendNext(after[n - 1])]
  BY <1>4
<1>6. flush_pending_payloads(s) = after[MaxInflight]
  BY DEF flush_pending_payloads
<1> HIDE DEF after
<1> QED BY <1>5, <1>6

(* flush_pending_payloads, by induction over its turns.                    *)
LEMMA SentAll ==
  ASSUME SetFacts, NEW s, NEW gs, NEW gr, NEW total, NEW tr, NEW rcv,
         WellFormed(gs, total), WellFormed(gr, tr), StepOK(s, gs, gr, total, rcv)
  PROVE  SentOn(s, flush_pending_payloads(s), gs, gr, total, rcv)
<1>1. PICK M \in Nat : M = MaxInflight
  BY UtpAssumption, SMT
<1>2. PICK f : /\ f = [n \in 0 .. M |-> IF n = 0 THEN s ELSE SendNext(f[n - 1])]
               /\ flush_pending_payloads(s) = f[M]
  BY <1>1, FlushLoop
<1> DEFINE P == {k \in 0 .. M : SentOn(s, f[k], gs, gr, total, rcv)}
<1>3. 0 \in P
  <2>1. 0 \in 0 .. M
    BY SMT
  <2>2. f[0] = s
    BY <1>2, <2>1
  <2> QED BY <2>1, <2>2, SentOnRefl
<1>4. ASSUME NEW k \in 0 .. M - 1, k \in P PROVE k + 1 \in P
  <2>1. k + 1 \in 0 .. M /\ k + 1 # 0 /\ (k + 1) - 1 = k
    BY SMT
  <2>2. f[k + 1] = SendNext(f[k])
    BY <1>2, <2>1
  <2>3. SentOn(s, f[k], gs, gr, total, rcv)
    BY <1>4
  <2>4. SentOn(s, f[k + 1], gs, gr, total, rcv)
    BY <2>2, <2>3, SentNext
  <2> QED BY <2>1, <2>4
<1>5. P \in SUBSET (0 .. M)
  OBVIOUS
<1>6. \A k \in 0 .. M : k \in P
  <2> HIDE DEF P
  <2> QED BY <1>3, <1>4, <1>5, BoundedInduction
<1>7. M \in 0 .. M
  BY SMT
<1> QED BY <1>2, <1>6, <1>7

(* send_fin_packet: the FIN comes last, when everything was sent.          *)
LEMMA SentFin ==
  ASSUME NEW s, NEW gs, NEW gr, NEW total, NEW tr, NEW rcv,
         WellFormed(gs, total), WellFormed(gr, tr), StepOK(s, gs, gr, total, rcv),
         s.d.local_eof, s.d.pending = <<>>, ~s.d.fin_sent
  PROVE  SentOn(s, send_fin_packet(s), gs, gr, total, rcv)
<1>1. gs.n \in Nat /\ gs.cut \in [Nat -> Nat] /\ total \in Nat
  BY DEF WellFormed, Kinds, Cuts
<1>2. PICK a \in Nat : a = gs.cut[gs.n]
  BY <1>1, SMT
<1>3. Queue(<<>>, a, total) /\ ~gs.fin
  BY <1>2 DEF StepOK, SendSide
<1>4. a = total
  BY <1>3, QueueEnd
<1>5. a <= a
  BY SMT
<1>6. PICK u, t : /\ u = [type |-> "FIN", seq |-> s.d.next_send, payload |-> <<>>,
                          retransmits |-> 0]
                  /\ t = send_fin_packet(s)
  OBVIOUS
<1>7. t = [s EXCEPT !.out = Append(@, Carrying(s.d, u)), !.d.next_send = wrapping_add(@, 1),
                    !.d.unacked = Append(@, u), !.d.fin_sent = TRUE]
  BY <1>6 DEF send_fin_packet
<1>8. /\ DOMAIN u = UnackedFields
      /\ u.payload = Span(a, a) /\ u.seq = s.d.next_send /\ u.type = "FIN"
  <2>1. Span(a, a) = <<>>
    BY <1>5, SpanEmpty
  <2> QED BY <1>6, <2>1 DEF UnackedFields
<1>9. /\ SentAs(s, t, u) /\ t.d.pending = s.d.pending /\ t.d.fin_sent
      /\ t.d.local_eof = s.d.local_eof
  BY <1>7, <1>8 DEF SentAs, StepOK, IsStep, DriverFields, SameRecv
<1>10. PICK g2 : Sends(gs, g2, total) /\ OneMore(gs, g2, a) /\ (g2.fin <=> TRUE)
  BY <1>2, <1>3, <1>4, <1>5, Longer
<1>11. u.type = IF g2.fin THEN "FIN" ELSE "DATA"
  BY <1>8, <1>10
<1>12. Queue(t.d.pending, a, total)
  BY <1>3, <1>9
<1>13. g2.fin => t.d.local_eof /\ t.d.pending = <<>>
  BY <1>9
<1>14. t.d.fin_sent <=> g2.fin
  BY <1>9, <1>10
<1>15. StepOK(t, g2, gr, total, rcv) /\ (Mute(s) => Mute(t))
  BY <1>2, <1>8, <1>9, <1>10, <1>11, <1>12, <1>13, <1>14, SentOne
<1>16. t.up = s.up
  BY <1>9 DEF SentAs
<1> QED BY <1>6, <1>10, <1>15, <1>16 DEF SentOn

(* The top of the loop: what it sends, and that it returns only when all   *)
(* of it, the FIN included, is acknowledged.                               *)
LEMMA Topped ==
  ASSUME SetFacts, NEW s, NEW gs, NEW gr, NEW total, NEW tr, NEW rcv,
         WellFormed(gs, total), WellFormed(gr, tr), StepOK(s, gs, gr, total, rcv)
  PROVE  /\ SentOn(s, LoopTop(s).s, gs, gr, total, rcv)
         /\ LoopTop(s).done => LoopTop(s).s.d.unacked = <<>> /\ LoopTop(s).s.d.fin_sent
<1>1. PICK f, i, g, t :
        /\ f = flush_pending_payloads(s)
        /\ i = (f.d.local_eof /\ f.d.pending = <<>> /\ f.d.unacked = <<>>)
        /\ g = IF i THEN flush_delayed_ack(f) ELSE f
        /\ t = LoopTop(s)
  OBVIOUS
<1>2. t = IF i /\ ~f.d.fin_sent THEN [s |-> send_fin_packet(g), done |-> FALSE]
          ELSE [s |-> g, done |-> i]
  BY <1>1 DEF LoopTop
<1>3. PICK g2 : /\ Sends(gs, g2, total) /\ StepOK(f, g2, gr, total, rcv)
                /\ f.up = s.up /\ (Mute(s) => Mute(f))
  BY <1>1, SentAll DEF SentOn
<1>4. WellFormed(g2, total)
  BY <1>3 DEF Sends
<1>5. /\ StepOK(g, g2, gr, total, rcv) /\ SameSend(f.d, g.d) /\ g.up = f.up
      /\ Mute(f) => Mute(g)
  <2>1. CASE i
    <3>1. g = flush_delayed_ack(f)
      BY <1>1, <2>1
    <3> QED BY <1>3, <3>1, Said
  <2>2. CASE ~i
    <3>1. g = f
      BY <1>1, <2>2
    <3> QED BY <1>3, <3>1 DEF SameSend
  <2> QED BY <2>1, <2>2
<1>6. g.up = s.up /\ (Mute(s) => Mute(g))
  BY <1>3, <1>5
<1>7. SentOn(s, g, gs, gr, total, rcv)
  BY <1>3, <1>5, <1>6 DEF SentOn
<1>8. CASE i /\ ~f.d.fin_sent
  <2>1. t.s = send_fin_packet(g) /\ ~t.done
    BY <1>2, <1>8
  <2>2. g.d.local_eof /\ g.d.pending = <<>> /\ ~g.d.fin_sent
    BY <1>1, <1>5, <1>8 DEF SameSend
  <2>3. SentOn(g, send_fin_packet(g), g2, gr, total, rcv)
    BY <1>4, <1>5, <2>2, SentFin
  <2>4. SentOn(s, send_fin_packet(g), gs, gr, total, rcv)
    BY <1>3, <1>6, <2>3, SentOnTrans
  <2> QED BY <1>1, <2>1, <2>4
<1>9. CASE ~(i /\ ~f.d.fin_sent)
  <2>1. t.s = g /\ t.done = i
    BY <1>2, <1>9
  <2>2. i => g.d.unacked = <<>> /\ g.d.fin_sent
    BY <1>1, <1>5, <1>9 DEF SameSend
  <2> QED BY <1>1, <1>7, <2>1, <2>2
<1> QED BY <1>8, <1>9

---------------------------------------------------------------------------
(* Acknowledgements and losses.                                            *)

KeepTurns(f, q, I, M) ==
  f = [i \in 0 .. M |-> IF i = 0 THEN <<>>
                        ELSE IF i \in I THEN Append(f[i - 1], q[i]) ELSE f[i - 1]]

LEMMA KeepLoop ==
  ASSUME SetFacts, NEW q, NEW I, NEW M \in Nat, M = Len(q)
  PROVE  \E f : KeepTurns(f, q, I, M) /\ Keep(q, I) = f[M]
<1> DEFINE Is(f, k) == f = [i \in 0 .. k |->
                              IF i = 0 THEN <<>>
                              ELSE IF i \in I THEN Append(f[i - 1], q[i]) ELSE f[i - 1]]
           P == {k \in Nat : \E f : Is(f, k)}
<1>1. 0 \in P
  <2>1. Is([n \in 0 .. 0 |-> <<>>], 0)
    BY SMT
  <2> QED BY <2>1
<1>2. ASSUME NEW k \in Nat, k \in P PROVE k + 1 \in P
  <2>1. PICK f : Is(f, k)
    BY <1>2, SMT
  <2>2. PICK v : v = IF k + 1 \in I THEN Append(f[k], q[k + 1]) ELSE f[k]
    OBVIOUS
  <2>3. PICK g : g = [i \in 0 .. k + 1 |-> IF i = k + 1 THEN v ELSE f[i]]
    OBVIOUS
  <2>4. ASSUME NEW i \in 0 .. k + 1
        PROVE  g[i] = IF i = 0 THEN <<>>
                      ELSE IF i \in I THEN Append(g[i - 1], q[i]) ELSE g[i - 1]
    <3>1. CASE i = k + 1
      <4>1. i # 0 /\ i - 1 = k /\ k \in 0 .. k + 1 /\ k # k + 1
        BY <3>1, SMT
      <4>2. g[i] = v /\ g[i - 1] = f[k]
        BY <2>3, <3>1, <4>1
      <4> QED BY <2>2, <3>1, <4>1, <4>2
    <3>2. CASE i = 0
      <4>1. i # k + 1 /\ i \in 0 .. k
        BY <3>2, SMT
      <4>2. g[i] = f[i] /\ f[i] = <<>>
        BY <2>1, <2>3, <3>2, <4>1
      <4> QED BY <3>2, <4>2
    <3>3. CASE i # k + 1 /\ i # 0
      <4>1. i \in 0 .. k /\ i - 1 \in 0 .. k + 1 /\ i - 1 # k + 1
        BY <3>3, SMT
      <4>2. g[i] = f[i] /\ g[i - 1] = f[i - 1]
        BY <2>3, <3>3, <4>1
      <4>3. f[i] = IF i \in I THEN Append(f[i - 1], q[i]) ELSE f[i - 1]
        BY <2>1, <3>3, <4>1
      <4> QED BY <3>3, <4>2, <4>3
    <3> QED BY <3>1, <3>2, <3>3
  <2>5. Is(g, k + 1)
    BY <2>3, <2>4
  <2>6. k + 1 \in Nat
    BY SMT
  <2> QED BY <2>5, <2>6
<1>3. M \in P
  <2> HIDE DEF Is
  <2>1. P \in SUBSET Nat
    BY SMT
  <2> HIDE DEF P
  <2> QED BY <1>1, <1>2, <2>1, SetInduction, SMT
<1>4. PICK f : Is(f, M)
  BY <1>3, SMT
<1> DEFINE kept[i \in 0 .. Len(q)] ==
             IF i = 0 THEN <<>>
             ELSE IF i \in I THEN Append(kept[i - 1], q[i]) ELSE kept[i - 1]
<1>5. kept = [i \in 0 .. Len(q) |->
                IF i = 0 THEN <<>>
                ELSE IF i \in I THEN Append(kept[i - 1], q[i]) ELSE kept[i - 1]]
  BY <1>4
<1>6. Keep(q, I) = kept[Len(q)]
  BY DEF Keep
<1> HIDE DEF kept
<1> QED BY <1>5, <1>6 DEF KeepTurns

Elements(k, q, I) ==
  \A x : x \in Range(k) <=> \E i \in 1 .. Len(q) : i \in I /\ q[i] = x

(* Keep has the elements at the indices it is given, and no other.         *)
LEMMA Kept ==
  ASSUME SetFacts, NEW q, NEW I, IsSeq(q)
  PROVE  IsSeq(Keep(q, I)) /\ Elements(Keep(q, I), q, I)
<1>1. PICK M \in Nat : M = Len(q)
  <2>1. Len(q) \in Nat
    BY SeqFacts
  <2> QED BY <2>1
<1>2. PICK f : KeepTurns(f, q, I, M) /\ Keep(q, I) = f[M]
  BY <1>1, KeepLoop
<1> DEFINE Good(k) ==
             /\ IsSeq(f[k])
             /\ \A x : x \in Range(f[k]) <=> \E i \in 1 .. k : i \in I /\ q[i] = x
           P == {k \in 0 .. M : Good(k)}
<1>3. 0 \in P
  <2>1. 0 \in 0 .. M /\ 1 .. 0 = {}
    BY SMT
  <2>2. f[0] = <<>>
    BY <1>2, <2>1 DEF KeepTurns
  <2> QED BY <2>1, <2>2, SeqEmpty
<1>4. ASSUME NEW k \in 0 .. M - 1, k \in P PROVE k + 1 \in P
  <2>1. k + 1 \in 0 .. M /\ k + 1 # 0 /\ (k + 1) - 1 = k
    BY SMT
  <2>2. f[k + 1] = IF k + 1 \in I THEN Append(f[k], q[k + 1]) ELSE f[k]
    BY <1>2, <2>1 DEF KeepTurns
  <2>3. Good(k)
    BY <1>4
  <2>4. \A i : i \in 1 .. k + 1 <=> i \in 1 .. k \/ i = k + 1
    BY SMT
  <2>5. CASE k + 1 \in I
    <3>1. IsSeq(Append(f[k], q[k + 1]))
      BY <2>3, SeqAppend
    <3>2. Range(Append(f[k], q[k + 1])) = Range(f[k]) \cup {q[k + 1]}
      BY <2>3, SeqAppend
    <3>3. f[k + 1] = Append(f[k], q[k + 1])
      BY <2>2, <2>5
    <3>4. \A x : x \in Range(f[k + 1]) <=> x \in Range(f[k]) \/ x = q[k + 1]
      BY <3>2, <3>3
    <3>5. \A x : x \in Range(f[k + 1]) <=> \E i \in 1 .. k + 1 : i \in I /\ q[i] = x
      BY <2>3, <2>4, <2>5, <3>4
    <3> QED BY <2>1, <3>1, <3>3, <3>5
  <2>6. CASE k + 1 \notin I
    <3>1. f[k + 1] = f[k]
      BY <2>2, <2>6
    <3>2. \A x : x \in Range(f[k + 1]) <=> \E i \in 1 .. k + 1 : i \in I /\ q[i] = x
      BY <2>3, <2>4, <2>6, <3>1
    <3> QED BY <2>1, <2>3, <3>1, <3>2
  <2> QED BY <2>5, <2>6
<1>5. P \in SUBSET (0 .. M)
  OBVIOUS
<1>6. \A k \in 0 .. M : k \in P
  <2> HIDE DEF P
  <2> QED BY <1>3, <1>4, <1>5, BoundedInduction
<1>7. M \in 0 .. M
  BY SMT
<1>8. Good(M)
  BY <1>6, <1>7
<1> QED BY <1>1, <1>2, <1>8 DEF Elements

(* The outcome of an acknowledgement.                                      *)
Releases(o, d, g) ==
  /\ IsSeq(o.retained) /\ IsSeq(o.fast)
  /\ Range(o.retained) \subseteq Range(d.unacked)
  /\ \A u \in Range(d.unacked) :
       u \in Range(o.retained) \/ \E k \in g.h : u.seq = Nr(g.base, k)

(* acknowledge_packets lets go only of packets that the other end holds,   *)
(* cumulative and selective acknowledgements alike, however late they are. *)
LEMMA Acknowledged ==
  ASSUME SetFacts, NEW d, NEW p, NEW g, NEW total,
         WellFormed(g, total), SendSide(d, g, total), Acks(p, g)
  PROVE  Releases(acknowledge_packets(d, p), d, g)
<1>1. PICK o, acked, lost :
        /\ o = acknowledge_packets(d, p)
        /\ o.retained = Keep(d.unacked, DOMAIN d.unacked \ acked)
        /\ o.fast = Keep(d.unacked, lost)
        /\ \A i \in acked : \/ seq_lte(d.unacked[i].seq, p.ack)
                            \/ selective_ack_contains(p.sack, p.ack, d.unacked[i].seq)
  <2> DEFINE future == d.unacked # <<>> /\ seq_gt(p.ack, wrapping_sub(d.next_send, 1))
             sent == IF future THEN {} ELSE DOMAIN d.unacked
             below == {i \in sent : seq_lte(d.unacked[i].seq, p.ack)}
             acked == below \cup {i \in sent : selective_ack_contains(p.sack, p.ack,
                                                                    d.unacked[i].seq)}
             LaterAcked(i) == {j \in acked : seq_gt(d.unacked[j].seq, d.unacked[i].seq)}
             lost == {i \in sent \ acked : Cardinality(LaterAcked(i)) >= LossEvidence}
             o == [retained |-> Keep(d.unacked, DOMAIN d.unacked \ acked),
                   acked |-> Keep(d.unacked, acked), advanced |-> below # {},
                   fast |-> Keep(d.unacked, lost)]
  <2>1. acknowledge_packets(d, p) = o
    BY DEF acknowledge_packets
  <2>2. \A i \in acked : \/ seq_lte(d.unacked[i].seq, p.ack)
                        \/ selective_ack_contains(p.sack, p.ack, d.unacked[i].seq)
    OBVIOUS
  <2> HIDE DEF lost, acked, below
  <2>3. /\ o.retained = Keep(d.unacked, DOMAIN d.unacked \ acked)
        /\ o.fast = Keep(d.unacked, lost)
    OBVIOUS
  <2> HIDE DEF o
  <2> QED BY <2>1, <2>2, <2>3
<1>2. /\ o.retained = Keep(d.unacked, DOMAIN d.unacked \ acked)
      /\ o.fast = Keep(d.unacked, lost)
  BY <1>1
<1>3. IsSeq(d.unacked)
  BY DEF SendSide
<1>4. DOMAIN d.unacked = 1 .. Len(d.unacked)
  BY <1>3, SeqFacts
<1>5. \A x : x \in Range(d.unacked) <=> \E i \in 1 .. Len(d.unacked) : d.unacked[i] = x
  BY <1>3, SeqFacts
<1>6. IsSeq(o.retained) /\ IsSeq(o.fast)
  BY <1>2, <1>3, Kept
<1>7. \A x : x \in Range(o.retained) <=>
             \E i \in 1 .. Len(d.unacked) : i \in DOMAIN d.unacked \ acked /\ d.unacked[i] = x
  <2>1. Elements(o.retained, d.unacked, DOMAIN d.unacked \ acked)
    BY <1>2, <1>3, Kept
  <2> QED BY <2>1 DEF Elements
<1>8. Range(o.retained) \subseteq Range(d.unacked)
  BY <1>5, <1>7
<1>9. /\ g.n < Half /\ g.r < Half /\ g.r <= g.n /\ g.n \in Nat /\ g.r \in Nat
      /\ g.base \in Numbers
  BY ShortDirection
<1>10. PICK a \in 0 .. g.r : AcksTo(p, g, a)
  BY DEF Acks
<1>11. a \in Nat /\ a <= g.r
  BY <1>9, SMT
<1>12. p.ack = Nr(g.base, a) /\ \A x \in p.sack : x \in 2 .. 33 /\ a + x \in g.h
  BY <1>10 DEF AcksTo
<1>13. ASSUME NEW i \in 1 .. Len(d.unacked), i \in acked
       PROVE  \E k \in g.h : d.unacked[i].seq = Nr(g.base, k)
  <2>1. Item(d.unacked[i], g)
    BY <1>5 DEF SendSide
  <2>2. PICK k \in 1 .. g.n : d.unacked[i].seq = Nr(g.base, k)
    BY <2>1 DEF Item, ItemAt
  <2>3. k \in Nat /\ k >= 1 /\ k <= g.n
    BY <1>9, SMT
  <2>4. k - a < Half /\ a - k < Half
    BY <1>9, <1>11, <2>3, SpaceInt, SMT
  <2>5. CASE seq_lte(d.unacked[i].seq, p.ack)
    <3>1. k <= a
      BY <1>9, <1>11, <1>12, <2>2, <2>3, <2>4, <2>5, SequenceOrder
    <3>2. k \in 1 .. g.r
      BY <1>9, <1>11, <2>3, <3>1, SMT
    <3>3. k \in g.h
      BY <3>2 DEF WellFormed, Taken
    <3> QED BY <2>2, <3>3
  <2>6. CASE selective_ack_contains(p.sack, p.ack, d.unacked[i].seq)
    <3>1. PICK x \in p.sack : x = wrapping_sub(Nr(g.base, k), Nr(g.base, a))
      BY <1>12, <2>2, <2>6 DEF selective_ack_contains
    <3>2. k - a < SeqSpace /\ a - k <= SeqSpace
      BY <2>3, <1>11, <2>4, SpaceInt, SMT
    <3>3. x = IF k >= a THEN k - a ELSE SeqSpace + k - a
      BY <1>9, <1>11, <2>3, <3>1, <3>2, NrSub
    <3>4. x \in 2 .. 33 /\ a + x \in g.h
      BY <1>12
    <3>5. x <= 33 /\ x \in Int
      BY <3>4, SMT
    <3>6. k >= a
      BY <1>11, <2>3, <2>4, <3>3, <3>5, SpaceInt, SMT
    <3>7. a + x = k
      BY <1>11, <2>3, <3>3, <3>6, SMT
    <3> QED BY <2>2, <3>4, <3>7
  <2> QED BY <1>1, <1>13, <2>5, <2>6
<1>14. ASSUME NEW u \in Range(d.unacked)
       PROVE  u \in Range(o.retained) \/ \E k \in g.h : u.seq = Nr(g.base, k)
  <2>1. PICK i \in 1 .. Len(d.unacked) : d.unacked[i] = u
    BY <1>5
  <2>2. CASE i \in acked
    BY <1>13, <2>1, <2>2
  <2>3. CASE i \notin acked
    BY <1>4, <1>7, <2>1, <2>3
  <2> QED BY <2>2, <2>3
<1> QED BY <1>1, <1>6, <1>8, <1>14 DEF Releases

---------------------------------------------------------------------------
(* Packets sent again.                                                     *)

(* e keeps the packets of d, some of them sent once more.                  *)
Likewise(d, e) ==
  /\ IsSeq(e.unacked)
  /\ \A x \in Range(e.unacked) : \E y \in Range(d.unacked) :
       /\ x.type = y.type /\ x.seq = y.seq /\ x.payload = y.payload
       /\ DOMAIN x = DOMAIN y
  /\ \A y \in Range(d.unacked) : \E x \in Range(e.unacked) : x.seq = y.seq

SameQueue(d, e) ==
  /\ e.next_send = d.next_send /\ e.pending = d.pending
  /\ e.local_eof = d.local_eof /\ e.fin_sent = d.fin_sent
  /\ e.packet_size \in Nat /\ e.packet_size >= 1

(* Sending a packet again changes only its counter.                        *)
LEMMA SendLike ==
  ASSUME NEW d, NEW e, NEW g, NEW total, SendSide(d, g, total), SameQueue(d, e), Likewise(d, e)
  PROVE  SendSide(e, g, total)
<1>1. ASSUME NEW x \in Range(e.unacked) PROVE DOMAIN x = UnackedFields /\ Item(x, g)
  <2>1. PICK y \in Range(d.unacked) :
          /\ x.type = y.type /\ x.seq = y.seq /\ x.payload = y.payload
          /\ DOMAIN x = DOMAIN y
    BY DEF Likewise
  <2>2. DOMAIN y = UnackedFields /\ Item(y, g)
    BY DEF SendSide
  <2> QED BY <2>1, <2>2 DEF Item, ItemAt
<1>2. ASSUME NEW k \in 1 .. g.n PROVE Covered(e, g, k)
  <2>1. Covered(d, g, k)
    BY DEF SendSide
  <2> QED BY <2>1 DEF Covered, Likewise
<1>3. IsSeq(e.unacked)
  BY DEF Likewise
<1> QED BY <1>1, <1>2, <1>3 DEF SendSide, SameQueue

LEMMA SameUnacked ==
  ASSUME NEW d, NEW e, IsSeq(d.unacked), e.unacked = d.unacked
  PROVE  Likewise(d, e)
  BY DEF Likewise

TouchedAs(r, q, i, v) ==
  /\ IsSeq(r) /\ v \in Range(r) /\ q[i] \in Range(q)
  /\ \A x \in Range(r) : x \in Range(q) \/ x = v
  /\ \A x \in Range(q) : x \in Range(r) \/ x = q[i]

LEMMA Touched ==
  ASSUME NEW q, NEW i, NEW v, IsSeq(q), i \in 1 .. Len(q)
  PROVE  TouchedAs([q EXCEPT ![i] = v], q, i, v)
<1>1. Len(q) \in Nat /\ DOMAIN q = 1 .. Len(q) /\ q \in Seq(Range(q))
  BY SeqFacts
<1>2. \A x : x \in Range(q) <=> \E j \in 1 .. Len(q) : q[j] = x
  BY SeqFacts
<1>3. PICK r : r = [q EXCEPT ![i] = v]
  OBVIOUS
<1>4. DOMAIN r = 1 .. Len(q) /\ r[i] = v /\ \A j \in 1 .. Len(q) : j # i => r[j] = q[j]
  BY <1>1, <1>3
<1>5. PICK S : S = Range(q) \cup {v}
  OBVIOUS
<1>6. \A j \in 1 .. Len(q) : r[j] \in S
  BY <1>2, <1>4, <1>5
<1>7. r \in Seq(S) /\ Len(r) = Len(q)
  <2>1. r = [j \in 1 .. Len(q) |-> r[j]]
    BY <1>1, <1>3, <1>4
  <2>2. PICK n \in Nat : n = Len(q)
    BY <1>1
  <2>3. r \in [1 .. n -> S]
    BY <1>6, <2>1, <2>2
  <2>4. r \in Seq(S) /\ Len(r) = n
    BY <2>3, SMT
  <2> QED BY <2>2, <2>4
<1>8. IsSeq(r)
  BY <1>7 DEF IsSeq
<1>9. \A x : x \in Range(r) <=> \E j \in 1 .. Len(r) : r[j] = x
  BY <1>8, SeqFacts
<1>10. \A x \in Range(r) : x \in Range(q) \/ x = v
  BY <1>2, <1>4, <1>7, <1>9
<1>11. \A x \in Range(q) : x \in Range(r) \/ x = q[i]
  BY <1>2, <1>4, <1>7, <1>9
<1>12. v \in Range(r) /\ q[i] \in Range(q)
  BY <1>2, <1>4, <1>7, <1>9
<1> QED BY <1>3, <1>8, <1>10, <1>11, <1>12 DEF TouchedAs

(* What s became by sending packets again, perhaps to fail for it.         *)
Resent(s, t, gs, gr, total, rcv) ==
  /\ AllSent(t.out, gs, gr) /\ t.up = s.up
  /\ ~t.err => StepOK(t, gs, gr, total, rcv)

LEMMA LeastIndex ==
  ASSUME SetFacts, NEW n \in Nat, NEW T \in SUBSET (1 .. n), T # {}
  PROVE  Min(T) \in T
<1>1. T \in SUBSET Nat
  BY SMT
<1>2. \E m \in T : \A k \in T : m <= k
  BY <1>1, LeastNat
<1> QED BY <1>2 DEF Min

(* retransmit_packet, for one packet and for several.                      *)
LEMMA Retransmitted ==
  ASSUME SetFacts, NEW s, NEW seq, NEW due, NEW gs, NEW gr, NEW total, NEW tr, NEW rcv,
         WellFormed(gr, tr), StepOK(s, gs, gr, total, rcv)
  PROVE  Resent(s, retransmit_packet(s, seq, due), gs, gr, total, rcv)
<1>1. PICK r, at, i, u :
        /\ r = retransmit_packet(s, seq, due)
        /\ at = {x \in DOMAIN s.d.unacked : s.d.unacked[x].seq = seq}
        /\ i = Min(at) /\ u = s.d.unacked[i]
  OBVIOUS
<1>2. /\ DOMAIN s = {"d", "out", "up", "err"} /\ DOMAIN s.d = DriverFields /\ ~s.err
      /\ IsSeq(s.d.unacked) /\ AllSent(s.out, gs, gr) /\ IsSeq(s.up)
  BY DEF StepOK, IsStep, SendSide
<1>3. \/ r = s
      \/ r = [s EXCEPT !.err = TRUE]
      \/ /\ at # {}
         /\ r = [s EXCEPT !.out = Append(@, Carrying(s.d, u)), !.d.unacked[i].retransmits = @ + 1]
  <2>1. PICK f, w : /\ f = [s EXCEPT !.err = TRUE]
                    /\ w = [s EXCEPT !.out = Append(@, Carrying(s.d, u)),
                                     !.d.unacked[i].retransmits = @ + 1]
    OBVIOUS
  <2>2. r = CASE at = {} \/ s.err -> s
              [] at # {} /\ ~s.err /\ u.retransmits > 0 /\ ~due -> s
              [] at # {} /\ ~s.err /\ (u.retransmits = 0 \/ due)
                 /\ u.retransmits >= MaxRetransmits -> f
              [] OTHER -> w
    BY <1>1, <2>1 DEF retransmit_packet
  <2>3. r = s \/ r = f \/ (at # {} /\ r = w)
    BY <1>2, <2>2, SMT
  <2> QED BY <2>1, <2>3
<1>4. CASE r = s
  BY <1>1, <1>2, <1>4 DEF Resent
<1>5. CASE r = [s EXCEPT !.err = TRUE]
  <2>1. r.err /\ r.out = s.out /\ r.up = s.up
    BY <1>2, <1>5
  <2> QED BY <1>1, <1>2, <2>1 DEF Resent
<1>6. CASE /\ at # {}
           /\ r = [s EXCEPT !.out = Append(@, Carrying(s.d, u)),
                            !.d.unacked[i].retransmits = @ + 1]
  <2>1. Len(s.d.unacked) \in Nat /\ DOMAIN s.d.unacked = 1 .. Len(s.d.unacked)
    BY <1>2, SeqFacts
  <2>2. at \in SUBSET (1 .. Len(s.d.unacked))
    BY <1>1, <2>1
  <2>3. i \in 1 .. Len(s.d.unacked)
    BY <1>1, <1>6, <2>1, <2>2, LeastIndex
  <2>4. PICK v, q : /\ v = [u EXCEPT !.retransmits = @ + 1]
                    /\ q = [s.d.unacked EXCEPT ![i] = v]
    OBVIOUS
  <2>5. r = [s EXCEPT !.out = Append(@, Carrying(s.d, u)), !.d.unacked = q]
    BY <1>1, <1>6, <2>4
  <2>6. /\ IsStep(r) /\ SameRecv(s.d, r.d) /\ r.up = s.up
        /\ r.out = Append(s.out, Carrying(s.d, u)) /\ r.d.unacked = q
        /\ r.d.next_send = s.d.next_send /\ r.d.pending = s.d.pending
        /\ r.d.local_eof = s.d.local_eof /\ r.d.fin_sent = s.d.fin_sent
        /\ r.d.packet_size = s.d.packet_size
    BY <1>2, <2>5 DEF IsStep, DriverFields, SameRecv
  <2>a. TouchedAs(q, s.d.unacked, i, v)
    BY <1>2, <2>3, <2>4, Touched
  <2>7. u \in Range(s.d.unacked)
    BY <1>1, <2>a DEF TouchedAs
  <2>8. DOMAIN u = UnackedFields /\ Item(u, gs)
    BY <2>7 DEF StepOK, SendSide
  <2>9. v.type = u.type /\ v.seq = u.seq /\ v.payload = u.payload /\ DOMAIN v = DOMAIN u
    BY <2>4, <2>8 DEF UnackedFields
  <2>10. /\ IsSeq(q) /\ v \in Range(q)
         /\ \A x \in Range(q) : x \in Range(s.d.unacked) \/ x = v
         /\ \A x \in Range(s.d.unacked) : x \in Range(q) \/ x = u
    BY <1>1, <2>a DEF TouchedAs
  <2>11. Likewise(s.d, r.d)
    BY <2>6, <2>7, <2>9, <2>10 DEF Likewise
  <2>12. SameQueue(s.d, r.d)
    BY <2>6 DEF SameQueue, StepOK, SendSide
  <2>13. SendSide(r.d, gs, total) /\ RecvSide(r.d, gr)
    BY <2>6, <2>11, <2>12, SendLike, RecvSame DEF StepOK
  <2>14. Sent(Carrying(s.d, u), gs, gr)
    BY <2>8, CarryingSent DEF StepOK
  <2>15. AllSent(r.out, gs, gr)
    BY <1>2, <2>6, <2>14, AllSentAppend
  <2>16. StepOK(r, gs, gr, total, rcv)
    BY <2>6, <2>13, <2>15 DEF StepOK
  <2> QED BY <1>1, <2>6, <2>15, <2>16 DEF Resent
<1> QED BY <1>3, <1>4, <1>5, <1>6

LEMMA RetransmittedOn ==
  ASSUME SetFacts, NEW s, NEW t, NEW seq, NEW due, NEW gs, NEW gr, NEW total, NEW tr, NEW rcv,
         WellFormed(gr, tr), Resent(s, t, gs, gr, total, rcv)
  PROVE  Resent(s, retransmit_packet(t, seq, due), gs, gr, total, rcv)
<1>1. CASE t.err
  <2>1. retransmit_packet(t, seq, due) = t
    BY <1>1 DEF retransmit_packet
  <2> QED BY <2>1
<1>2. CASE ~t.err
  <2>1. Resent(t, retransmit_packet(t, seq, due), gs, gr, total, rcv)
    BY <1>2, Retransmitted DEF Resent
  <2> QED BY <2>1 DEF Resent
<1> QED BY <1>1, <1>2

(* The driver without the packets that were acknowledged.                  *)
LEMMA Released ==
  ASSUME NEW d, NEW e, NEW o, NEW g, NEW total, WellFormed(g, total), SendSide(d, g, total),
         Releases(o, d, g), SameQueue(d, e), e.unacked = o.retained
  PROVE  SendSide(e, g, total)
<1>1. /\ g.n < Half /\ g.n \in Nat /\ g.base \in Numbers
  BY ShortDirection
<1>2. ASSUME NEW k \in 1 .. g.n PROVE Covered(e, g, k)
  <2>1. CASE k \in g.h
    BY <2>1 DEF Covered
  <2>2. CASE k \notin g.h
    <3>1. PICK u \in Range(d.unacked) : u.seq = Nr(g.base, k)
      BY <2>2 DEF SendSide, Covered
    <3>2. ASSUME NEW j \in g.h, u.seq = Nr(g.base, j) PROVE FALSE
      <4>1. j \in 1 .. g.n
        BY DEF WellFormed, Kinds
      <4>2. j \in Nat /\ k \in Nat /\ j - k < SeqSpace /\ k - j < SeqSpace
        BY <1>1, <4>1, SpaceInt, SMT
      <4>3. j = k
        BY <1>1, <3>1, <3>2, <4>2, NrInjective
      <4> QED BY <2>2, <4>3
    <3>3. u \in Range(o.retained)
      BY <3>2 DEF Releases
    <3> QED BY <3>1, <3>3 DEF Covered
  <2> QED BY <2>1, <2>2
<1>3. \A u \in Range(e.unacked) : DOMAIN u = UnackedFields /\ Item(u, g)
  BY DEF SendSide, Releases
<1>4. IsSeq(e.unacked)
  BY DEF Releases
<1> QED BY <1>2, <1>3, <1>4 DEF SendSide, SameQueue

AckFirst(s, o, p, due) ==
  LET same == p.type = "STATE" /\ p.ack = s.d.last_ack /\ ~o.advanced
      lost == same /\ s.d.dups + 1 >= LossEvidence
      kept == [s EXCEPT !.d.unacked = o.retained,
                        !.d.last_ack = p.ack,
                        !.d.dups = IF same /\ ~lost THEN @ + 1 ELSE 0]
  IN  IF lost THEN retransmit_packet(kept, wrapping_add(p.ack, 1), due) ELSE kept

AckTurns(f, first, o, due, M) ==
  f = [n \in 0 .. M |-> IF n = 0 THEN first
                        ELSE retransmit_packet(f[n - 1], o.fast[n].seq, due)]

AckRun(f, s, o, p, due, M) ==
  /\ AckTurns(f, AckFirst(s, o, p, due), o, due, M)
  /\ apply_ack_outcome(s, o, p, due) = f[M]

(* The turns of apply_ack_outcome as a function.                           *)
LEMMA AckLoop ==
  ASSUME SetFacts, NEW s, NEW o, NEW p, NEW due, NEW M \in Nat, M = Len(o.fast)
  PROVE  \E f : AckRun(f, s, o, p, due, M)
<1> DEFINE first == AckFirst(s, o, p, due)
           Is(f, k) == AckTurns(f, first, o, due, k)
           P == {k \in Nat : \E f : Is(f, k)}
<1> HIDE DEF first
<1>1. 0 \in P
  <2>1. PICK f : f = [n \in 0 .. 0 |-> first]
    OBVIOUS
  <2>2. f = [n \in 0 .. 0 |-> IF n = 0 THEN first
                              ELSE retransmit_packet(f[n - 1], o.fast[n].seq, due)]
    BY <2>1, SMT
  <2> QED BY <2>2 DEF AckTurns
<1>2. ASSUME NEW k \in Nat, k \in P PROVE k + 1 \in P
  <2>1. PICK f : Is(f, k)
    BY <1>2, SMT
  <2>2. PICK v : v = retransmit_packet(f[k], o.fast[k + 1].seq, due)
    OBVIOUS
  <2>3. PICK g : g = [i \in 0 .. k + 1 |-> IF i = k + 1 THEN v ELSE f[i]]
    OBVIOUS
  <2>4. ASSUME NEW i \in 0 .. k + 1
        PROVE  g[i] = IF i = 0 THEN first ELSE retransmit_packet(g[i - 1], o.fast[i].seq, due)
    <3>1. CASE i = k + 1
      <4>1. i # 0 /\ i - 1 = k /\ k \in 0 .. k + 1 /\ k # k + 1
        BY <3>1, SMT
      <4>2. g[i] = v /\ g[i - 1] = f[k]
        BY <2>3, <3>1, <4>1
      <4> QED BY <2>2, <3>1, <4>1, <4>2
    <3>2. CASE i = 0
      <4>1. i # k + 1 /\ i \in 0 .. k
        BY <3>2, SMT
      <4>2. g[i] = f[i] /\ f[i] = first
        BY <2>1, <2>3, <3>2, <4>1 DEF AckTurns
      <4> QED BY <3>2, <4>2
    <3>3. CASE i # k + 1 /\ i # 0
      <4>1. i \in 0 .. k /\ i - 1 \in 0 .. k + 1 /\ i - 1 # k + 1
        BY <3>3, SMT
      <4>2. g[i] = f[i] /\ g[i - 1] = f[i - 1]
        BY <2>3, <3>3, <4>1
      <4>3. f[i] = retransmit_packet(f[i - 1], o.fast[i].seq, due)
        BY <2>1, <3>3, <4>1 DEF AckTurns
      <4> QED BY <3>3, <4>2, <4>3
    <3> QED BY <3>1, <3>2, <3>3
  <2>5. Is(g, k + 1)
    BY <2>3, <2>4 DEF AckTurns
  <2>6. k + 1 \in Nat
    BY SMT
  <2> QED BY <2>5, <2>6
<1>3. M \in P
  <2> HIDE DEF Is
  <2>1. P \in SUBSET Nat
    BY SMT
  <2> HIDE DEF P
  <2> QED BY <1>1, <1>2, <2>1, SetInduction, SMT
<1>4. PICK f : Is(f, M)
  BY <1>3, SMT
<1> DEFINE after[n \in 0 .. Len(o.fast)] ==
             IF n = 0 THEN AckFirst(s, o, p, due)
             ELSE retransmit_packet(after[n - 1], o.fast[n].seq, due)
<1>5. after = [n \in 0 .. Len(o.fast) |->
                 IF n = 0 THEN AckFirst(s, o, p, due)
                 ELSE retransmit_packet(after[n - 1], o.fast[n].seq, due)]
  BY <1>4 DEF AckTurns, first
<1>6. apply_ack_outcome(s, o, p, due) = after[Len(o.fast)]
  BY DEF apply_ack_outcome, AckFirst
<1> HIDE DEF after
<1> QED BY <1>5, <1>6 DEF AckTurns, AckRun

(* apply_ack_outcome: fast retransmissions after an acknowledgement.       *)
LEMMA Applied ==
  ASSUME SetFacts, NEW s, NEW o, NEW p, NEW due, NEW gs, NEW gr, NEW total, NEW tr, NEW rcv,
         WellFormed(gs, total), WellFormed(gr, tr), StepOK(s, gs, gr, total, rcv),
         Releases(o, s.d, gs)
  PROVE  Resent(s, apply_ack_outcome(s, o, p, due), gs, gr, total, rcv)
<1>1. PICK first : first = AckFirst(s, o, p, due)
  OBVIOUS
<1>2. Resent(s, first, gs, gr, total, rcv)
  <2> DEFINE same == p.type = "STATE" /\ p.ack = s.d.last_ack /\ ~o.advanced
             lost == same /\ s.d.dups + 1 >= LossEvidence
             dups == IF same /\ ~lost THEN s.d.dups + 1 ELSE 0
             kept == [s EXCEPT !.d.unacked = o.retained, !.d.last_ack = p.ack, !.d.dups = dups]
  <2>a. first = IF lost THEN retransmit_packet(kept, wrapping_add(p.ack, 1), due) ELSE kept
    BY <1>1 DEF AckFirst
  <2> HIDE DEF dups, lost
  <2>b. kept = [s EXCEPT !.d.unacked = o.retained, !.d.last_ack = p.ack, !.d.dups = dups]
    OBVIOUS
  <2> HIDE DEF kept
  <2>1. /\ kept = [s EXCEPT !.d.unacked = o.retained, !.d.last_ack = p.ack, !.d.dups = dups]
        /\ first = IF lost THEN retransmit_packet(kept, wrapping_add(p.ack, 1), due) ELSE kept
    BY <2>a, <2>b
  <2>2. /\ IsStep(kept) /\ SameRecv(s.d, kept.d) /\ kept.up = s.up /\ kept.out = s.out
        /\ kept.d.unacked = o.retained
        /\ kept.d.next_send = s.d.next_send /\ kept.d.pending = s.d.pending
        /\ kept.d.local_eof = s.d.local_eof /\ kept.d.fin_sent = s.d.fin_sent
        /\ kept.d.packet_size = s.d.packet_size
    BY <2>1 DEF StepOK, IsStep, DriverFields, SameRecv
  <2>3. SameQueue(s.d, kept.d)
    BY <2>2 DEF SameQueue, StepOK, SendSide
  <2>4. SendSide(kept.d, gs, total) /\ RecvSide(kept.d, gr)
    BY <2>2, <2>3, Released, RecvSame DEF StepOK
  <2>5. StepOK(kept, gs, gr, total, rcv)
    BY <2>2, <2>4 DEF StepOK
  <2>6. Resent(s, kept, gs, gr, total, rcv)
    BY <2>2, <2>5 DEF Resent, StepOK
  <2>7. Resent(s, retransmit_packet(kept, wrapping_add(p.ack, 1), due), gs, gr, total, rcv)
    BY <2>6, RetransmittedOn
  <2> QED BY <2>1, <2>6, <2>7
<1>3. PICK M \in Nat : M = Len(o.fast)
  <2>1. Len(o.fast) \in Nat
    BY SeqFacts DEF Releases
  <2> QED BY <2>1
<1>4. PICK f : AckTurns(f, first, o, due, M) /\ apply_ack_outcome(s, o, p, due) = f[M]
  <2>1. \E f : AckRun(f, s, o, p, due, M)
    BY <1>3, AckLoop
  <2> QED BY <1>1, <2>1 DEF AckRun
<1> DEFINE P == {k \in 0 .. M : Resent(s, f[k], gs, gr, total, rcv)}
<1>5. 0 \in P
  <2>1. 0 \in 0 .. M
    BY SMT
  <2>2. f[0] = first
    BY <1>4, <2>1 DEF AckTurns
  <2> QED BY <1>2, <2>1, <2>2
<1>6. ASSUME NEW k \in 0 .. M - 1, k \in P PROVE k + 1 \in P
  <2>1. k + 1 \in 0 .. M /\ k + 1 # 0 /\ (k + 1) - 1 = k
    BY SMT
  <2>2. f[k + 1] = retransmit_packet(f[k], o.fast[k + 1].seq, due)
    BY <1>4, <2>1 DEF AckTurns
  <2>3. Resent(s, f[k], gs, gr, total, rcv)
    BY <1>6
  <2>4. Resent(s, f[k + 1], gs, gr, total, rcv)
    BY <2>2, <2>3, RetransmittedOn
  <2> QED BY <2>1, <2>4
<1>7. P \in SUBSET (0 .. M)
  OBVIOUS
<1>8. \A k \in 0 .. M : k \in P
  <2> HIDE DEF P
  <2> QED BY <1>5, <1>6, <1>7, BoundedInduction
<1>9. M \in 0 .. M
  BY SMT
<1> QED BY <1>4, <1>8, <1>9

(* Window and packet size apart, x is d.                                   *)
Reopened(d, x) ==
  /\ DOMAIN x = DriverFields /\ SameRecv(d, x) /\ SameQueue(d, x)
  /\ x.unacked = d.unacked /\ x.acks = d.acks /\ x.buffered = d.buffered

LEMMA Sizes == MinPacket \in Nat /\ MinPacket >= 1 /\ MaxPacket \in Nat /\ MaxPacket >= 1
  BY UtpAssumption, SMT

(* Congestion control changes the window and the packet size only.         *)
LEMMA Windowed ==
  ASSUME NEW d, NEW lossy, NEW acked, NEW x \in WindowOutcomes(d, lossy, acked),
         DOMAIN d = DriverFields, d.packet_size \in Nat, d.packet_size >= 1
  PROVE  Reopened(d, x)
<1>1. Reopened(d, d)
  BY DEF Reopened, SameRecv, SameQueue
<1>2. Reopened(d, on_packet_loss(d))
  <2>1. PICK y : y = on_packet_loss(d)
    OBVIOUS
  <2>2. PICK w : y = [d EXCEPT !.window = w, !.packet_size = MinPacket]
    BY <2>1 DEF on_packet_loss
  <2>3. Reopened(d, y)
    BY <2>2, Sizes DEF Reopened, SameRecv, SameQueue, DriverFields
  <2> QED BY <2>1, <2>3
<1>3. ASSUME NEW y, NEW w, NEW z \in update_congestion_window(y, w), Reopened(d, y)
      PROVE  Reopened(d, z)
  <2>1. PICK v, m : /\ z = [y EXCEPT !.window = v, !.packet_size = m]
                    /\ m \in {MinPacket, MaxPacket}
    BY DEF update_congestion_window
  <2> QED BY <1>3, <2>1, Sizes DEF Reopened, SameRecv, SameQueue, DriverFields
<1>4. CASE acked = 0
  <2>1. x = d \/ x = on_packet_loss(d)
    BY <1>4, SMT DEF WindowOutcomes
  <2> QED BY <1>1, <1>2, <2>1
<1>5. CASE acked # 0
  <2>1. PICK y, w : x \in update_congestion_window(y, w) /\ (y = d \/ y = on_packet_loss(d))
    BY <1>5, SMT DEF WindowOutcomes
  <2> QED BY <1>1, <1>2, <1>3, <2>1
<1> QED BY <1>4, <1>5

OverIndices(v, n) == v = [i \in 1 .. n |-> v[i]]

SequenceOf(v, n) ==
  IsSeq(v) /\ Len(v) = n /\ \A x : x \in Range(v) <=> \E i \in 1 .. n : v[i] = x

LEMMA OfLength ==
  ASSUME NEW n \in Nat, NEW v, OverIndices(v, n)
  PROVE  SequenceOf(v, n)
<1>1. PICK S : S = {v[i] : i \in 1 .. n}
  OBVIOUS
<1>2. v \in [1 .. n -> S]
  BY <1>1 DEF OverIndices
<1>3. v \in Seq(S) /\ Len(v) = n
  BY <1>2, SMT
<1>4. IsSeq(v)
  BY <1>3 DEF IsSeq
<1>5. \A x : x \in Range(v) <=> \E i \in 1 .. Len(v) : v[i] = x
  BY <1>4, SeqFacts
<1> QED BY <1>3, <1>4, <1>5 DEF SequenceOf

(* The retransmission timer sends packets again and nothing else.          *)
LEMMA Timed ==
  ASSUME SetFacts, NEW d, NEW ripe, NEW s \in retransmit_due_packets(d, ripe),
         NEW gs, NEW gr, NEW total, NEW tr, NEW rcv,
         WellFormed(gr, tr), DOMAIN d = DriverFields, SendSide(d, gs, total), RecvSide(d, gr),
         rcv \o <<>> = Span(0, gr.cut[gr.r])
  PROVE  /\ AllSent(s.out, gs, gr) /\ s.up = <<>> /\ s.d.acks = d.acks
         /\ ~s.err => StepOK(s, gs, gr, total, rcv)
         /\ \A p \in Range(s.out) : p.type # "STATE"
<1>1. PICK sent, r, x, failed, lossy :
        /\ r = Resend(d, sent)
        /\ s = [d |-> [x EXCEPT !.unacked = r.unacked], out |-> r.out, up |-> <<>>, err |-> failed]
        /\ x \in WindowOutcomes(d, lossy, 0)
  <2> DEFINE spent == {i \in ripe : d.unacked[i].retransmits >= MaxRetransmits}
             sent == {i \in ripe : \A j \in spent : i < j}
             r == Resend(d, sent)
             failed == spent # {}
             lossy == spent = {}
  <2>1. s \in {[d |-> [x EXCEPT !.unacked = r.unacked], out |-> r.out, up |-> <<>>,
               err |-> failed] : x \in WindowOutcomes(d, lossy, 0)}
    BY DEF retransmit_due_packets
  <2> HIDE DEF failed, lossy
  <2>2. PICK x \in WindowOutcomes(d, lossy, 0) :
          s = [d |-> [x EXCEPT !.unacked = r.unacked], out |-> r.out, up |-> <<>>,
               err |-> failed]
    BY <2>1
  <2> HIDE DEF sent
  <2> QED BY <2>2
<1>2. PICK again, v, out :
        /\ again = Keep(d.unacked, sent)
        /\ v = [i \in DOMAIN d.unacked |->
                  IF i \in sent THEN [d.unacked[i] EXCEPT !.retransmits = @ + 1]
                  ELSE d.unacked[i]]
        /\ out = [k \in DOMAIN again |-> Carrying(d, again[k])]
  OBVIOUS
<1>3. r.unacked = v /\ r.out = out
  BY <1>1, <1>2 DEF Resend
<1>4. Reopened(d, x)
  BY <1>1, Windowed DEF SendSide
<1>5. s.d = [x EXCEPT !.unacked = v] /\ s.out = out /\ s.up = <<>> /\ s.err = failed
  BY <1>1, <1>3
<1>6. /\ DOMAIN s = {"d", "out", "up", "err"}
  BY <1>1
<1>7. /\ DOMAIN s.d = DriverFields /\ SameRecv(d, s.d) /\ SameQueue(d, s.d)
      /\ s.d.unacked = v /\ s.d.acks = d.acks
  BY <1>4, <1>5 DEF Reopened, DriverFields, SameRecv, SameQueue
<1>8. IsSeq(d.unacked) /\ \A u \in Range(d.unacked) : DOMAIN u = UnackedFields /\ Item(u, gs)
  BY DEF SendSide
<1>9. /\ Len(d.unacked) \in Nat /\ DOMAIN d.unacked = 1 .. Len(d.unacked)
      /\ \A u : u \in Range(d.unacked) <=> \E i \in 1 .. Len(d.unacked) : d.unacked[i] = u
  BY <1>8, SeqFacts
<1>10. IsSeq(again) /\ \A u \in Range(again) : u \in Range(d.unacked)
  <2>1. IsSeq(again) /\ Elements(again, d.unacked, sent)
    BY <1>2, <1>8, Kept
  <2> QED BY <1>9, <2>1 DEF Elements
<1>11. /\ Len(again) \in Nat /\ DOMAIN again = 1 .. Len(again)
       /\ \A u : u \in Range(again) <=> \E i \in 1 .. Len(again) : again[i] = u
  BY <1>10, SeqFacts
<1>12. /\ IsSeq(out)
       /\ \A p : p \in Range(out) <=> \E i \in 1 .. Len(again) : out[i] = p
  <2>1. OverIndices(out, Len(again))
    BY <1>2, <1>11 DEF OverIndices
  <2>2. SequenceOf(out, Len(again))
    BY <1>11, <2>1, OfLength
  <2> QED BY <2>2 DEF SequenceOf
<1>13. ASSUME NEW p \in Range(out) PROVE Sent(p, gs, gr) /\ p.type # "STATE"
  <2>1. PICK i \in 1 .. Len(again) : p = Carrying(d, again[i])
    BY <1>2, <1>11, <1>12
  <2>2. Item(again[i], gs)
    BY <1>8, <1>10, <1>11
  <2> QED BY <2>1, <2>2, CarryingSent
<1>14. AllSent(s.out, gs, gr) /\ \A p \in Range(s.out) : p.type # "STATE"
  BY <1>5, <1>12, <1>13 DEF AllSent
<1>15. /\ IsSeq(v)
       /\ \A u : u \in Range(v) <=> \E i \in 1 .. Len(d.unacked) : v[i] = u
  <2>1. OverIndices(v, Len(d.unacked))
    BY <1>2, <1>9 DEF OverIndices
  <2>2. SequenceOf(v, Len(d.unacked))
    BY <1>9, <2>1, OfLength
  <2> QED BY <2>2 DEF SequenceOf
<1>16. ASSUME NEW i \in 1 .. Len(d.unacked)
       PROVE  /\ v[i].type = d.unacked[i].type /\ v[i].seq = d.unacked[i].seq
              /\ v[i].payload = d.unacked[i].payload /\ DOMAIN v[i] = DOMAIN d.unacked[i]
  <2>1. PICK u : u = d.unacked[i]
    OBVIOUS
  <2>2. DOMAIN u = UnackedFields
    BY <1>8, <1>9, <2>1
  <2>3. v[i] = [u EXCEPT !.retransmits = @ + 1] \/ v[i] = u
    BY <1>2, <1>9, <2>1
  <2> QED BY <2>1, <2>2, <2>3 DEF UnackedFields
<1>17. Likewise(d, s.d)
  <2>1. ASSUME NEW a \in Range(v)
        PROVE  \E b \in Range(d.unacked) : /\ a.type = b.type /\ a.seq = b.seq
                                           /\ a.payload = b.payload /\ DOMAIN a = DOMAIN b
    <3>1. PICK i \in 1 .. Len(d.unacked) : v[i] = a
      BY <1>15
    <3>2. d.unacked[i] \in Range(d.unacked)
      BY <1>9
    <3> QED BY <1>16, <3>1, <3>2
  <2>2. ASSUME NEW b \in Range(d.unacked)
        PROVE  \E a \in Range(v) : a.seq = b.seq
    <3>1. PICK i \in 1 .. Len(d.unacked) : d.unacked[i] = b
      BY <1>9
    <3>2. v[i] \in Range(v)
      BY <1>15
    <3> QED BY <1>16, <3>1, <3>2
  <2> QED BY <1>7, <1>15, <2>1, <2>2 DEF Likewise
<1>18. SendSide(s.d, gs, total) /\ RecvSide(s.d, gr)
  BY <1>7, <1>17, SendLike, RecvSame
<1>19. ~s.err => StepOK(s, gs, gr, total, rcv)
  BY <1>5, <1>6, <1>7, <1>14, <1>18, SeqEmpty DEF StepOK, IsStep
<1> QED BY <1>5, <1>7, <1>14, <1>19

---------------------------------------------------------------------------
(* Receiving.                                                              *)

(* The receiver has taken in, or holds, more.                              *)
Took(g, g2, total) ==
  /\ WellFormed(g2, total) /\ Grown(g, g2)
  /\ g2.n = g.n /\ g2.cut = g.cut /\ g2.fin = g.fin

LEMMA TookRefl == ASSUME NEW g, NEW total, WellFormed(g, total) PROVE Took(g, g, total)
  BY GrownRefl DEF Took, WellFormed

LEMMA TookTrans ==
  ASSUME NEW a, NEW b, NEW c, NEW total, WellFormed(a, total), Took(a, b, total), Took(b, c, total)
  PROVE  Took(a, c, total)
<1>1. Kinds(a) /\ Kinds(b) /\ Kinds(c)
  BY DEF Took, WellFormed
<1>2. Grown(a, c)
  BY <1>1, GrownTrans DEF Took
<1> QED BY <1>2 DEF Took

(* The history with another r and h.                                       *)
TookTo(g, total, r, h) == \E g2 : Took(g, g2, total) /\ g2.r = r /\ g2.h = h

(* A history in which the receiver has gone on.                            *)
LEMMA Taking ==
  ASSUME NEW g, NEW total, NEW r \in Nat, NEW h \in SUBSET (1 .. g.n), WellFormed(g, total),
         g.r <= r, r <= g.n, g.h \subseteq h, \A k \in 1 .. r : k \in h
  PROVE  TookTo(g, total, r, h)
<1>1. PICK g2 : History(g2, g.base, g.n, g.cut, g.fin, r, h)
  BY Ghost
<1>2. /\ g2.base = g.base /\ g2.n = g.n /\ g2.cut = g.cut /\ g2.fin = g.fin
      /\ g2.r = r /\ g2.h = h
  BY <1>1 DEF History
<1>3. g.n \in Nat
  BY DEF WellFormed, Kinds
<1>4. g.n <= g.n /\ ~(g.n > g.n)
  BY <1>3, SMT
<1>5. Kinds(g2)
  BY <1>2 DEF WellFormed, Kinds
<1>6. Cuts(g2, total)
  BY <1>2 DEF WellFormed, Cuts, IsFin
<1>7. Taken(g2)
  BY <1>2 DEF Taken
<1>8. Grown(g, g2)
  BY <1>2, <1>4 DEF Grown
<1> QED BY <1>2, <1>5, <1>6, <1>7, <1>8 DEF Took, WellFormed, TookTo

Regrouped(q, r, s) == q \o (r \o s) = (q \o r) \o s

LEMMA ConcatAssoc ==
  ASSUME NEW q, NEW r, NEW s, IsSeq(q), IsSeq(r), IsSeq(s)
  PROVE  Regrouped(q, r, s)
<1>1. PICK A, B, C : q \in Seq(A) /\ r \in Seq(B) /\ s \in Seq(C)
  BY DEF IsSeq
<1>2. PICK S : S = A \cup B \cup C
  OBVIOUS
<1>3. A \subseteq S /\ B \subseteq S /\ C \subseteq S
  BY <1>2
<1>4. q \in Seq(S)
  BY <1>1, <1>3, SMT
<1>5. r \in Seq(S)
  BY <1>1, <1>3, SMT
<1>6. s \in Seq(S)
  BY <1>1, <1>3, SMT
<1> QED BY <1>4, <1>5, <1>6, SMT DEF Regrouped

LEMMA SentStep ==
  ASSUME NEW s, NEW gs, NEW gr, NEW g2, NEW tr, NEW total, NEW rcv,
         Kinds(gs), WellFormed(gr, tr), Took(gr, g2, tr), StepOK(s, gs, gr, total, rcv)
  PROVE  AllSent(s.out, gs, g2)
<1>1. Kinds(gr) /\ Kinds(g2) /\ Grown(gs, gs) /\ Grown(gr, g2)
  BY GrownRefl DEF WellFormed, Took
<1> QED BY <1>1, AllSentGrown DEF StepOK

(* The packet at position k is named by its number.                        *)
LEMMA PositionIs ==
  ASSUME NEW g, NEW total, NEW j, NEW k, WellFormed(g, total), j \in 0 .. g.n + 1, k \in 0 .. g.n + 1,
         Nr(g.base, j) = Nr(g.base, k)
  PROVE  j = k
<1>1. /\ g.n < Half /\ g.n \in Nat /\ g.base \in Numbers
  BY ShortDirection
<1>2. j \in Nat /\ k \in Nat /\ j - k < SeqSpace /\ k - j < SeqSpace
  BY <1>1, SpaceInt, SMT
<1> QED BY <1>1, <1>2, NrInjective

(* The number expected next is that of the packet after the last taken in. *)
LEMMA ExpectedIs ==
  ASSUME NEW d, NEW g, NEW total, WellFormed(g, total), RecvSide(d, g)
  PROVE  /\ Expected(d) = Nr(g.base, g.r + 1) /\ g.r + 1 \in 0 .. g.n + 1 /\ g.r + 1 \in Nat
         /\ g.n \in Nat /\ g.r \in Nat /\ g.r <= g.n
         /\ \A k \in g.h : k \in 0 .. g.n + 1 /\ k \in 1 .. g.n /\ k \in Nat
         /\ \A k \in 1 .. g.n : k \in 0 .. g.n + 1 /\ k \in Nat
<1>1. /\ g.n < Half /\ g.n \in Nat /\ g.r \in Nat /\ g.r <= g.n /\ g.base \in Numbers
  BY ShortDirection
<1>2. d.last_remote = Nr(g.base, g.r)
  BY DEF RecvSide
<1>3. 1 \in Nat
  BY SMT
<1>4. wrapping_add(Nr(g.base, g.r), 1) = Nr(g.base, g.r + 1)
  BY <1>1, <1>3, NrFacts
<1>5. g.r + 1 \in 0 .. g.n + 1 /\ g.r + 1 \in Nat
  BY <1>1, SMT
<1>6. \A k \in 1 .. g.n : k \in 0 .. g.n + 1 /\ k \in Nat
  BY <1>1, SMT
<1>7. g.h \in SUBSET (1 .. g.n)
  BY DEF WellFormed, Kinds
<1> QED BY <1>1, <1>2, <1>4, <1>5, <1>6, <1>7 DEF Expected

(* The packet after the last one is taken in, and out of ooo if it was     *)
(* there.                                                                  *)
MovedOn(d, e, g) ==
  /\ e.last_remote = Nr(g.base, g.r + 1)
  /\ \A x : x \in DOMAIN e.ooo <=> x \in DOMAIN d.ooo /\ x # Nr(g.base, g.r + 1)
  /\ \A x \in DOMAIN e.ooo : e.ooo[x] = d.ooo[x]
  /\ \A x \in e.remote_fin : g.fin /\ x = Nr(g.base, g.n)
  /\ e.remote_eof => g.fin /\ g.r + 1 = g.n

TakesNext(e, g, total) ==
  \E g2 : /\ Took(g, g2, total) /\ RecvSide(e, g2)
          /\ g2.r = g.r + 1 /\ g2.h = g.h \cup {g.r + 1}

(* The receiver in agreement with the next packet taken in.                *)
LEMMA TakenIn ==
  ASSUME NEW d, NEW e, NEW g, NEW total, WellFormed(g, total), RecvSide(d, g),
         g.r + 1 \in 1 .. g.n, MovedOn(d, e, g)
  PROVE  TakesNext(e, g, total)
<1>1. /\ g.r + 1 \in 0 .. g.n + 1 /\ g.r + 1 \in Nat
      /\ g.n \in Nat /\ g.r \in Nat /\ g.r <= g.n
      /\ \A k \in g.h : k \in 0 .. g.n + 1 /\ k \in 1 .. g.n /\ k \in Nat
  BY ExpectedIs
<1>2. PICK r, h : r = g.r + 1 /\ h = g.h \cup {g.r + 1}
  OBVIOUS
<1>3. /\ r \in Nat /\ h \in SUBSET (1 .. g.n) /\ g.h \subseteq h
  BY <1>1, <1>2
<1>4. g.r <= r /\ r <= g.n /\ \A k \in 1 .. r : k \in 1 .. g.r \/ k = g.r + 1
  BY <1>1, <1>2, SMT
<1>5. \A k \in 1 .. r : k \in h
  BY <1>2, <1>4 DEF WellFormed, Taken
<1>6. PICK g2 : Took(g, g2, total) /\ g2.r = r /\ g2.h = h
  <2>1. TookTo(g, total, r, h)
    BY <1>3, <1>4, <1>5, Taking
  <2> QED BY <2>1 DEF TookTo
<1>7. g2.base = g.base /\ g2.n = g.n /\ g2.cut = g.cut /\ g2.fin = g.fin
  BY <1>6 DEF Took, Grown
<1>8. ASSUME NEW q \in DOMAIN e.ooo PROVE \E k \in g2.h : HeldAt(e, g2, q, k)
  <2>1. q \in DOMAIN d.ooo /\ q # Nr(g.base, g.r + 1) /\ e.ooo[q] = d.ooo[q]
    BY DEF MovedOn
  <2>2. PICK k \in g.h : HeldAt(d, g, q, k)
    BY <2>1 DEF RecvSide
  <2>3. k > g.r /\ q = Nr(g.base, k) /\ d.ooo[q] = Span(g.cut[k - 1], g.cut[k])
    BY <2>2 DEF HeldAt
  <2>4. k # g.r + 1
    BY <2>1, <2>3
  <2>5. k > r
    BY <1>1, <1>2, <2>3, <2>4, SMT
  <2>6. HeldAt(e, g2, q, k)
    BY <1>6, <1>7, <2>1, <2>3, <2>5 DEF HeldAt
  <2> QED BY <1>3, <1>6, <2>6
<1>9. ASSUME NEW k \in g2.h, k > g2.r PROVE Nr(g2.base, k) \in DOMAIN e.ooo
  <2>1. k \in 1 .. g.n
    BY <1>3, <1>6
  <2>2. k > g.r /\ k # g.r + 1 /\ k \in 0 .. g.n + 1
    BY <1>1, <1>2, <1>6, <1>9, <2>1, SMT
  <2>3. k \in g.h
    BY <1>2, <1>6, <2>2
  <2>4. Nr(g.base, k) \in DOMAIN d.ooo
    BY <2>2, <2>3 DEF RecvSide
  <2>5. Nr(g.base, k) # Nr(g.base, g.r + 1)
    BY <1>1, <2>2, PositionIs
  <2> QED BY <1>7, <2>4, <2>5 DEF MovedOn
<1>10. /\ e.last_remote = Nr(g2.base, g2.r)
       /\ \A q \in e.remote_fin : g2.fin /\ q = Nr(g2.base, g2.n)
       /\ e.remote_eof => g2.fin /\ g2.r = g2.n
  BY <1>2, <1>6, <1>7 DEF MovedOn
<1>11. RecvSide(e, g2)
  BY <1>8, <1>9, <1>10 DEF RecvSide
<1> QED BY <1>2, <1>6, <1>11 DEF TakesNext

(* What is ahead in ooo and next is the packet that follows.               *)
LEMMA NextHeld ==
  ASSUME NEW d, NEW g, NEW total, WellFormed(g, total), RecvSide(d, g), Expected(d) \in DOMAIN d.ooo
  PROVE  /\ g.r + 1 \in g.h /\ g.r + 1 \in 1 .. g.n
         /\ d.ooo[Expected(d)] = Span(g.cut[g.r], g.cut[g.r + 1])
         /\ ~d.remote_eof
         /\ \A q \in d.remote_fin : q = Expected(d) => g.r + 1 = g.n
<1>1. /\ Expected(d) = Nr(g.base, g.r + 1) /\ g.r + 1 \in 0 .. g.n + 1 /\ g.r + 1 \in Nat
      /\ g.n \in Nat /\ g.r \in Nat /\ g.r <= g.n
      /\ \A k \in g.h : k \in 0 .. g.n + 1 /\ k \in 1 .. g.n /\ k \in Nat
  BY ExpectedIs
<1>2. PICK k \in g.h : HeldAt(d, g, Expected(d), k)
  BY DEF RecvSide
<1>3. Expected(d) = Nr(g.base, k) /\ d.ooo[Expected(d)] = Span(g.cut[k - 1], g.cut[k])
  BY <1>2 DEF HeldAt
<1>4. k = g.r + 1
  BY <1>1, <1>3, PositionIs
<1>5. k - 1 = g.r /\ g.r # g.n /\ g.n \in 0 .. g.n + 1
  BY <1>1, <1>4, SMT
<1>6. ASSUME NEW q \in d.remote_fin, q = Expected(d) PROVE g.r + 1 = g.n
  <2>1. Nr(g.base, g.r + 1) = Nr(g.base, g.n)
    BY <1>1, <1>6 DEF RecvSide
  <2> QED BY <1>1, <1>5, <2>1, PositionIs
<1> QED BY <1>1, <1>3, <1>4, <1>5, <1>6 DEF RecvSide

LEMMA Following ==
  \A r \in Nat : \A n \in Nat : r + 1 \in 1 .. n =>
    r \in 0 .. n /\ r + 1 \in 0 .. n /\ r + 1 \in Nat /\ r <= r + 1
  BY SMT

(* A packet's bytes follow those of the packets before it.                 *)
LEMMA BytesFollow ==
  ASSUME NEW g, NEW total, NEW rcv, NEW up, WellFormed(g, total), g.r + 1 \in 1 .. g.n,
         IsSeq(rcv), IsSeq(up), rcv \o up = Span(0, g.cut[g.r])
  PROVE  /\ IsSeq(Span(g.cut[g.r], g.cut[g.r + 1]))
         /\ rcv \o (up \o Span(g.cut[g.r], g.cut[g.r + 1])) = Span(0, g.cut[g.r + 1])
<1>1. g.n \in Nat /\ g.r \in Nat /\ g.r <= g.n /\ g.cut \in [Nat -> Nat]
  BY ShortDirection DEF WellFormed, Kinds
<1>2. g.r \in 0 .. g.n /\ g.r + 1 \in 0 .. g.n /\ g.r + 1 \in Nat /\ g.r <= g.r + 1
  BY <1>1, Following
<1>3. PICK a \in Nat, b \in Nat : a = g.cut[g.r] /\ b = g.cut[g.r + 1]
  BY <1>1, <1>2
<1>4. a <= b
  BY <1>2, <1>3 DEF WellFormed, Cuts
<1>5. 0 <= a /\ 0 \in Nat
  BY <1>3, SMT
<1>6. IsSeq(Span(a, b))
  BY <1>3, <1>4, SpanFacts
<1>7. Span(0, a) \o Span(a, b) = Span(0, b)
  BY <1>3, <1>4, <1>5, SpanConcat
<1>8. rcv \o (up \o Span(a, b)) = (rcv \o up) \o Span(a, b)
  <2>1. Regrouped(rcv, up, Span(a, b))
    BY <1>6, ConcatAssoc
  <2> QED BY <2>1 DEF Regrouped
<1> QED BY <1>3, <1>6, <1>7, <1>8

(* Writing to the application's stream: nothing to write, the stream is    *)
(* closed, or the bytes are appended.                                      *)
WroteUp(s, t, payload, at) ==
  /\ t.out = s.out
  /\ \/ t = s /\ payload = <<>>
     \/ t.err /\ t.up = s.up /\ at.closed
     \/ /\ IsStep(t) /\ ~at.closed /\ SameSend(s.d, t.d) /\ SameRecv(s.d, t.d)
        /\ t.up = s.up \o payload

(* write_all_tracked.                                                      *)
LEMMA Written ==
  ASSUME NEW s, NEW payload, NEW at, IsStep(s)
  PROVE  WroteUp(s, write_all_tracked(s, payload, at), payload, at)
<1>1. PICK t : t = write_all_tracked(s, payload, at)
  OBVIOUS
<1>2. CASE payload = <<>>
  <2>1. t = s
    BY <1>1, <1>2 DEF write_all_tracked
  <2> QED BY <1>1, <1>2, <2>1 DEF WroteUp
<1>3. CASE payload # <<>> /\ at.closed
  <2>1. t = [s EXCEPT !.err = TRUE]
    BY <1>1, <1>3 DEF write_all_tracked
  <2>2. t.out = s.out /\ t.err /\ t.up = s.up
    BY <2>1 DEF IsStep
  <2> QED BY <1>1, <1>3, <2>2 DEF WroteUp
<1>4. CASE payload # <<>> /\ ~at.closed
  <2>1. PICK b : t = [s EXCEPT !.up = @ \o payload, !.d.buffered = b]
    BY <1>1, <1>4 DEF write_all_tracked
  <2>2. /\ IsStep(t) /\ SameSend(s.d, t.d) /\ SameRecv(s.d, t.d) /\ t.out = s.out
        /\ t.up = s.up \o payload
    BY <2>1 DEF IsStep, DriverFields, SameSend, SameRecv
  <2> QED BY <1>1, <1>4, <2>2 DEF WroteUp
<1> QED BY <1>2, <1>3, <1>4

LEMMA ConcatEmpty == ASSUME NEW q, IsSeq(q) PROVE q \o <<>> = q
<1>1. PICK S : q \in Seq(S)
  BY DEF IsSeq
<1> QED BY <1>1, SMT

(* The step t has taken in what follows, or failed on a closed stream.     *)
Advanced(t, gs, g, total, tr, rcv, at) ==
  /\ IF t.err THEN at.closed /\ t.up = <<>>
     ELSE /\ at.closed => t.up = <<>>
          /\ \E g2 : /\ Took(g, g2, tr) /\ StepOK(t, gs, g2, total, rcv)
                     /\ g2.r = g.r + 1 /\ g2.h = g.h \cup {g.r + 1}

(* The next packet is taken in and its bytes are written.                  *)
LEMMA Advance ==
  ASSUME NEW s, NEW a, NEW t, NEW at, NEW gs, NEW g, NEW total, NEW tr, NEW rcv,
         Kinds(gs), WellFormed(g, tr), StepOK(s, gs, g, total, rcv), IsSeq(rcv),
         at.closed => s.up = <<>>, g.r + 1 \in 1 .. g.n,
         IsStep(a), SendSide(a.d, gs, total), MovedOn(s.d, a.d, g), a.up = s.up, a.out = s.out,
         WroteUp(a, t, Span(g.cut[g.r], g.cut[g.r + 1]), at)
  PROVE  Advanced(t, gs, g, total, tr, rcv, at) /\ t.out = s.out
<1>1. PICK x : x = Span(g.cut[g.r], g.cut[g.r + 1])
  OBVIOUS
<1>2. t.out = s.out
  BY DEF WroteUp
<1>3. PICK g2 : /\ Took(g, g2, tr) /\ RecvSide(a.d, g2)
                /\ g2.r = g.r + 1 /\ g2.h = g.h \cup {g.r + 1}
  <2>1. TakesNext(a.d, g, tr)
    BY TakenIn DEF StepOK
  <2> QED BY <2>1 DEF TakesNext
<1>4. g2.cut = g.cut
  BY <1>3 DEF Took
<1>5. IsSeq(x) /\ rcv \o (s.up \o x) = Span(0, g.cut[g.r + 1])
  BY <1>1, BytesFollow DEF StepOK
<1>6. Span(0, g2.cut[g2.r]) = Span(0, g.cut[g.r + 1])
  BY <1>3, <1>4
<1>7. AllSent(t.out, gs, g2)
  BY <1>2, <1>3, SentStep
<1>8. IsSeq(s.up)
  BY DEF StepOK
<1>9. CASE t = a /\ x = <<>>
  <2>1. s.up \o x = s.up
    BY <1>8, <1>9, ConcatEmpty
  <2>2. StepOK(t, gs, g2, total, rcv)
    BY <1>3, <1>5, <1>6, <1>7, <1>8, <1>9, <2>1 DEF StepOK
  <2>3. ~t.err
    BY <1>9 DEF IsStep
  <2> QED BY <1>2, <1>3, <1>9, <2>2, <2>3 DEF Advanced
<1>10. CASE t.err /\ t.up = a.up /\ at.closed
  BY <1>2, <1>10 DEF Advanced
<1>11. CASE /\ IsStep(t) /\ ~at.closed /\ SameSend(a.d, t.d) /\ SameRecv(a.d, t.d)
            /\ t.up = a.up \o x
  <2>1. SendSide(t.d, gs, total) /\ RecvSide(t.d, g2)
    BY <1>3, <1>11, SendSame, RecvSame
  <2>2. IsSeq(s.up \o x)
    BY <1>5, <1>8, SeqConcat
  <2>3. t.up = s.up \o x
    BY <1>11
  <2>4. StepOK(t, gs, g2, total, rcv)
    BY <1>5, <1>6, <1>7, <1>11, <2>1, <2>2, <2>3 DEF StepOK
  <2>5. ~t.err
    BY <1>11 DEF IsStep
  <2> QED BY <1>2, <1>3, <1>11, <2>4, <2>5 DEF Advanced
<1> QED BY <1>1, <1>9, <1>10, <1>11 DEF WroteUp

(* A turn of deliver_buffered_payloads takes the next packet from ooo, or  *)
(* there is none there; or the stream is closed.                           *)
Delivered(t, gs, g, total, tr, rcv, at, more) ==
  /\ t.err => at.closed /\ t.up = <<>> /\ ~more
  /\ ~t.err => /\ at.closed => t.up = <<>>
               /\ \E g2 : /\ Took(g, g2, tr) /\ StepOK(t, gs, g2, total, rcv)
                          /\ ~more => Stopped(g2)

OneLess(T, S) == \E q \in S : T = S \ {q}

LEMMA NotHeld ==
  ASSUME NEW d, NEW g, NEW total, WellFormed(g, total), RecvSide(d, g),
         Expected(d) \notin DOMAIN d.ooo
  PROVE  Stopped(g)
<1>1. Expected(d) = Nr(g.base, g.r + 1) /\ g.r \in Nat
  BY ExpectedIs
<1>2. g.r + 1 > g.r
  BY <1>1, SMT
<1> QED BY <1>1, <1>2 DEF Stopped, RecvSide

LEMMA AfterFin ==
  ASSUME NEW g, NEW total, WellFormed(g, total), g.r = g.n
  PROVE  Stopped(g)
<1>1. g.n \in Nat /\ g.h \in SUBSET (1 .. g.n)
  BY DEF WellFormed, Kinds
<1>2. g.n + 1 \notin 1 .. g.n
  BY <1>1, SMT
<1> QED BY <1>1, <1>2 DEF Stopped

(* The FIN carries nothing.                                                *)
LEMMA FinEmpty ==
  ASSUME NEW g, NEW total, WellFormed(g, total), g.fin, g.r + 1 = g.n
  PROVE  Span(g.cut[g.r], g.cut[g.r + 1]) = <<>>
<1>1. g.n \in Nat /\ g.r \in Nat /\ total \in Nat
  BY DEF WellFormed, Kinds, Cuts
<1>2. g.n - 1 = g.r /\ total <= total
  BY <1>1, SMT
<1>3. g.cut[g.r] = total /\ g.cut[g.r + 1] = total
  BY <1>2 DEF WellFormed, Cuts
<1> QED BY <1>1, <1>2, <1>3, SpanEmpty

(* A turn of deliver_buffered_payloads, from the number expected.          *)
LEMMA DeliverTurn ==
  ASSUME NEW s, NEW at, NEW gs, NEW g, NEW total, NEW tr, NEW rcv,
         Kinds(gs), WellFormed(g, tr), StepOK(s, gs, g, total, rcv), IsSeq(rcv),
         at.closed => s.up = <<>>
  PROVE  LET x == DeliverNext(s, at)
         IN  /\ x.s.out = s.out
             /\ Delivered(x.s, gs, g, total, tr, rcv, at, x.more)
             /\ x.more => OneLess(DOMAIN x.s.d.ooo, DOMAIN s.d.ooo)
<1>1. PICK x, q, a, w :
        /\ x = DeliverNext(s, at) /\ q = Expected(s.d)
        /\ a = [s EXCEPT !.d.ooo = Without(@, q), !.d.last_remote = q]
        /\ w = write_all_tracked(a, s.d.ooo[q], at)
  OBVIOUS
<1>2. /\ WellFormed(g, tr) /\ RecvSide(s.d, g) /\ IsStep(s) /\ SendSide(s.d, gs, total)
      /\ ~s.err
  BY DEF StepOK, IsStep
<1>3. CASE q \notin DOMAIN s.d.ooo
  <2>1. x = [s |-> s, more |-> FALSE]
    BY <1>1, <1>3 DEF DeliverNext
  <2>2. x.s = s /\ ~x.more
    BY <2>1
  <2>3. Took(g, g, tr) /\ Stopped(g)
    BY <1>1, <1>2, <1>3, TookRefl, NotHeld
  <2>4. Delivered(s, gs, g, total, tr, rcv, at, x.more)
    BY <1>2, <2>2, <2>3 DEF Delivered
  <2> QED BY <1>1, <2>2, <2>4
<1>4. CASE q \in DOMAIN s.d.ooo
  <2>1. /\ g.r + 1 \in g.h /\ g.r + 1 \in 1 .. g.n
        /\ s.d.ooo[q] = Span(g.cut[g.r], g.cut[g.r + 1]) /\ ~s.d.remote_eof
        /\ q \in s.d.remote_fin => g.r + 1 = g.n
        /\ q = Nr(g.base, g.r + 1)
    BY <1>1, <1>2, <1>4, NextHeld, ExpectedIs
  <2>2. /\ IsStep(a) /\ SameSend(s.d, a.d) /\ a.out = s.out /\ a.up = s.up
        /\ a.d.last_remote = q /\ a.d.ooo = Without(s.d.ooo, q)
        /\ a.d.remote_fin = s.d.remote_fin /\ a.d.remote_eof = s.d.remote_eof
    BY <1>1, <1>2 DEF IsStep, DriverFields, SameSend
  <2>3. /\ DOMAIN a.d.ooo = DOMAIN s.d.ooo \ {q}
        /\ \A y \in DOMAIN a.d.ooo : a.d.ooo[y] = s.d.ooo[y]
    BY <2>2 DEF Without
  <2>4. SendSide(a.d, gs, total)
    BY <1>2, <2>2, SendSame
  <2>5. \A y \in s.d.remote_fin : g.fin /\ y = Nr(g.base, g.n)
    BY <1>2 DEF RecvSide
  <2>6. CASE q \in s.d.remote_fin
    <3>1. PICK e : e = [a EXCEPT !.d.remote_eof = TRUE, !.d.local_eof = TRUE]
      OBVIOUS
    <3>2. x = [s |-> e, more |-> FALSE]
      BY <1>1, <1>4, <2>6, <3>1 DEF DeliverNext
    <3>3. /\ IsStep(e) /\ e.out = s.out /\ e.up = s.up
          /\ e.d.last_remote = q /\ e.d.ooo = a.d.ooo /\ e.d.remote_fin = s.d.remote_fin
          /\ e.d.next_send = a.d.next_send /\ e.d.pending = a.d.pending
          /\ e.d.unacked = a.d.unacked /\ e.d.fin_sent = a.d.fin_sent
          /\ e.d.packet_size = a.d.packet_size /\ e.d.local_eof
      BY <2>2, <3>1 DEF IsStep, DriverFields
    <3>4. SendSide(e.d, gs, total)
      BY <2>4, <3>3 DEF SendSide, Covered
    <3>5. MovedOn(s.d, e.d, g)
      BY <2>1, <2>3, <2>5, <2>6, <3>3 DEF MovedOn
    <3>6. g.fin /\ g.r + 1 = g.n
      BY <2>1, <2>5, <2>6
    <3>7. Span(g.cut[g.r], g.cut[g.r + 1]) = <<>>
      BY <1>2, <3>6, FinEmpty
    <3>8. WroteUp(e, e, Span(g.cut[g.r], g.cut[g.r + 1]), at)
      BY <3>7 DEF WroteUp
    <3>9. Advanced(e, gs, g, total, tr, rcv, at)
      BY <1>2, <2>1, <3>3, <3>4, <3>5, <3>8, Advance
    <3>10. ~e.err
      BY <3>3 DEF IsStep
    <3>11. PICK g2 : Took(g, g2, tr) /\ StepOK(e, gs, g2, total, rcv) /\ g2.r = g.r + 1
      BY <3>9, <3>10 DEF Advanced
    <3>12. Stopped(g2)
      BY <3>6, <3>11, AfterFin DEF Took
    <3>13. x.s = e /\ ~x.more
      BY <3>2
    <3>14. Delivered(e, gs, g, total, tr, rcv, at, x.more)
      BY <3>9, <3>10, <3>11, <3>12 DEF Delivered, Advanced
    <3> QED BY <1>1, <3>3, <3>13, <3>14
  <2>7. CASE q \notin s.d.remote_fin
    <3>1. x = [s |-> w, more |-> ~w.err]
      BY <1>1, <1>4, <2>7 DEF DeliverNext
    <3>2. MovedOn(s.d, a.d, g)
      BY <2>1, <2>2, <2>3, <2>5 DEF MovedOn
    <3>3. WroteUp(a, w, Span(g.cut[g.r], g.cut[g.r + 1]), at)
      BY <1>1, <2>1, <2>2, Written
    <3>4. Advanced(w, gs, g, total, tr, rcv, at) /\ w.out = s.out
      BY <1>2, <2>1, <2>2, <2>4, <3>2, <3>3, Advance
    <3>5. x.s = w /\ (x.more <=> ~w.err)
      BY <3>1
    <3>6. Delivered(w, gs, g, total, tr, rcv, at, x.more)
      BY <3>4, <3>5 DEF Delivered, Advanced
    <3>7. ~w.err => w.d.ooo = a.d.ooo
      BY <3>3 DEF WroteUp, SameRecv
    <3>8. x.more => OneLess(DOMAIN x.s.d.ooo, DOMAIN s.d.ooo)
      BY <1>4, <2>3, <3>5, <3>7 DEF OneLess
    <3> QED BY <1>1, <3>4, <3>5, <3>6, <3>8
  <2> QED BY <2>6, <2>7
<1> QED BY <1>3, <1>4

NextTurn(x, at) == IF x.more THEN DeliverNext(x.s, at) ELSE x

FirstTurn(s) == [s |-> s, more |-> TRUE]

DeliverTurns(f, s, at, k) ==
  f = [n \in 0 .. k |-> IF n = 0 THEN FirstTurn(s) ELSE NextTurn(f[n - 1], at)]

DeliverRun(f, s, at, M) ==
  DeliverTurns(f, s, at, M) /\ deliver_buffered_payloads(s, at) = f[M].s

(* The turns of deliver_buffered_payloads as a function.                   *)
LEMMA DeliverLoop ==
  ASSUME SetFacts, NEW s, NEW at, NEW M \in Nat, M = Cardinality(DOMAIN s.d.ooo)
  PROVE  \E f : DeliverRun(f, s, at, M)
<1> DEFINE first == FirstTurn(s)
           Is(f, k) == DeliverTurns(f, s, at, k)
           P == {k \in Nat : \E f : Is(f, k)}
<1> HIDE DEF first
<1>1. 0 \in P
  <2>1. PICK f : f = [n \in 0 .. 0 |-> first]
    OBVIOUS
  <2>2. f = [n \in 0 .. 0 |-> IF n = 0 THEN first ELSE NextTurn(f[n - 1], at)]
    BY <2>1, SMT
  <2> QED BY <2>2 DEF DeliverTurns, first
<1>2. ASSUME NEW k \in Nat, k \in P PROVE k + 1 \in P
  <2>1. PICK f : Is(f, k)
    BY <1>2, SMT
  <2>2. PICK v : v = NextTurn(f[k], at)
    OBVIOUS
  <2>3. PICK g : g = [i \in 0 .. k + 1 |-> IF i = k + 1 THEN v ELSE f[i]]
    OBVIOUS
  <2>4. ASSUME NEW i \in 0 .. k + 1
        PROVE  g[i] = IF i = 0 THEN first ELSE NextTurn(g[i - 1], at)
    <3>1. CASE i = k + 1
      <4>1. i # 0 /\ i - 1 = k /\ k \in 0 .. k + 1 /\ k # k + 1
        BY <3>1, SMT
      <4>2. g[i] = v /\ g[i - 1] = f[k]
        BY <2>3, <3>1, <4>1
      <4> QED BY <2>2, <3>1, <4>1, <4>2
    <3>2. CASE i = 0
      <4>1. i # k + 1 /\ i \in 0 .. k
        BY <3>2, SMT
      <4>2. g[i] = f[i] /\ f[i] = first
        BY <2>1, <2>3, <3>2, <4>1 DEF DeliverTurns, first
      <4> QED BY <3>2, <4>2
    <3>3. CASE i # k + 1 /\ i # 0
      <4>1. i \in 0 .. k /\ i - 1 \in 0 .. k + 1 /\ i - 1 # k + 1
        BY <3>3, SMT
      <4>2. g[i] = f[i] /\ g[i - 1] = f[i - 1]
        BY <2>3, <3>3, <4>1
      <4>3. f[i] = NextTurn(f[i - 1], at)
        BY <2>1, <3>3, <4>1 DEF DeliverTurns
      <4> QED BY <3>3, <4>2, <4>3
    <3> QED BY <3>1, <3>2, <3>3
  <2>5. Is(g, k + 1)
    BY <2>3, <2>4 DEF DeliverTurns, first
  <2>6. k + 1 \in Nat
    BY SMT
  <2> QED BY <2>5, <2>6
<1>3. M \in P
  <2> HIDE DEF Is
  <2>1. P \in SUBSET Nat
    BY SMT
  <2> HIDE DEF P
  <2> QED BY <1>1, <1>2, <2>1, SetInduction, SMT
<1>4. PICK f : Is(f, M)
  BY <1>3, SMT
<1> DEFINE after[n \in 0 .. Cardinality(DOMAIN s.d.ooo)] ==
             IF n = 0 THEN [s |-> s, more |-> TRUE]
             ELSE IF after[n - 1].more THEN DeliverNext(after[n - 1].s, at)
             ELSE after[n - 1]
<1>5. after = [n \in 0 .. Cardinality(DOMAIN s.d.ooo) |->
                 IF n = 0 THEN [s |-> s, more |-> TRUE]
                 ELSE IF after[n - 1].more THEN DeliverNext(after[n - 1].s, at)
                 ELSE after[n - 1]]
  BY <1>4 DEF DeliverTurns, NextTurn, FirstTurn
<1>6. deliver_buffered_payloads(s, at) = after[Cardinality(DOMAIN s.d.ooo)].s
  BY DEF deliver_buffered_payloads
<1> HIDE DEF after
<1> QED BY <1>5, <1>6 DEF DeliverTurns, DeliverRun, NextTurn, FirstTurn

(* What a receiver holds ahead is finite.                                  *)
LEMMA AheadFinite ==
  ASSUME SetFacts, NEW d, NEW g, NEW total, WellFormed(g, total), RecvSide(d, g)
  PROVE  IsFiniteSet(DOMAIN d.ooo) /\ Cardinality(DOMAIN d.ooo) \in Nat
<1>1. DOMAIN d.ooo \subseteq Numbers
  <2>1. SUFFICES ASSUME NEW q \in DOMAIN d.ooo PROVE q \in Numbers
    OBVIOUS
  <2>2. PICK k \in g.h : HeldAt(d, g, q, k)
    BY DEF RecvSide
  <2>3. q = Nr(g.base, k) /\ k \in Nat /\ g.base \in Numbers
    BY <2>2, ExpectedIs DEF HeldAt, WellFormed, Kinds
  <2> QED BY <2>3, NrFacts
<1>2. 0 \in Int /\ SeqSpace - 1 \in Int
  BY SpaceInt, SMT
<1>3. IsFiniteSet(Numbers)
  BY <1>2 DEF Numbers, SetFacts
<1>4. IsFiniteSet(DOMAIN d.ooo)
  BY <1>1, <1>3 DEF SetFacts
<1> QED BY <1>4 DEF SetFacts

(* The loop: every turn but the last takes a packet out of ooo, so that    *)
(* none is left that is next.                                              *)
LEMMA DeliveredAll ==
  ASSUME SetFacts, NEW s, NEW at, NEW gs, NEW gr, NEW total, NEW tr, NEW rcv,
         Kinds(gs), WellFormed(gr, tr), StepOK(s, gs, gr, total, rcv), IsSeq(rcv),
         at.closed => s.up = <<>>
  PROVE  LET t == deliver_buffered_payloads(s, at)
         IN  t.out = s.out /\ Delivered(t, gs, gr, total, tr, rcv, at, FALSE)
<1> DEFINE C(x) == Cardinality(DOMAIN x.s.d.ooo)
           F(x) == IsFiniteSet(DOMAIN x.s.d.ooo)
<1>1. IsFiniteSet(DOMAIN s.d.ooo) /\ Cardinality(DOMAIN s.d.ooo) \in Nat
  BY AheadFinite DEF StepOK
<1>2. PICK M \in Nat : M = Cardinality(DOMAIN s.d.ooo)
  BY <1>1
<1>3. PICK f : DeliverTurns(f, s, at, M) /\ deliver_buffered_payloads(s, at) = f[M].s
  <2>1. \E f : DeliverRun(f, s, at, M)
    BY <1>2, DeliverLoop
  <2> QED BY <2>1 DEF DeliverRun
<1> DEFINE Q(x, k) ==
             /\ x.s.out = s.out /\ Delivered(x.s, gs, gr, total, tr, rcv, at, x.more)
             /\ x.more => F(x) /\ C(x) = M - k
           P == {k \in 0 .. M : Q(f[k], k)}
<1>4. 0 \in P
  <2>1. 0 \in 0 .. M /\ M - 0 = M
    BY SMT
  <2>2. f[0] = FirstTurn(s)
    BY <1>3, <2>1 DEF DeliverTurns
  <2>3. f[0].s = s /\ f[0].more
    <3>1. PICK x : x = f[0]
      OBVIOUS
    <3>2. x = [s |-> s, more |-> TRUE]
      BY <2>2, <3>1 DEF FirstTurn
    <3>3. x.s = s
      BY <3>2
    <3>4. x.more
      BY <3>2
    <3> QED BY <3>1, <3>3, <3>4
  <2>4. Took(gr, gr, tr) /\ ~s.err
    BY TookRefl DEF StepOK, IsStep
  <2>5. Delivered(s, gs, gr, total, tr, rcv, at, f[0].more)
    BY <2>3, <2>4 DEF Delivered
  <2> QED BY <1>1, <1>2, <2>1, <2>3, <2>5
<1>5. ASSUME NEW k \in 0 .. M - 1, k \in P PROVE k + 1 \in P
  <2>1. k + 1 \in 0 .. M /\ k + 1 # 0 /\ (k + 1) - 1 = k /\ (M - k) - 1 = M - (k + 1)
    BY SMT
  <2>2. PICK x, y : x = f[k] /\ y = f[k + 1]
    OBVIOUS
  <2>3. y = NextTurn(x, at)
    BY <1>3, <2>1, <2>2 DEF DeliverTurns
  <2>4. Q(x, k)
    BY <1>5, <2>2
  <2>5. Q(y, k + 1)
    <3>1. CASE ~x.more
      <4>1. y = x
        BY <2>3, <3>1 DEF NextTurn
      <4> QED BY <2>4, <3>1, <4>1
    <3>2. CASE x.more
      <4>1. y = DeliverNext(x.s, at)
        BY <2>3, <3>2 DEF NextTurn
      <4>2. ~x.s.err
        BY <2>4, <3>2 DEF Delivered
      <4>3. PICK g : Took(gr, g, tr) /\ StepOK(x.s, gs, g, total, rcv)
        BY <2>4, <4>2 DEF Delivered
      <4>4. WellFormed(g, tr)
        BY <4>3 DEF Took
      <4>5. at.closed => x.s.up = <<>>
        BY <2>4, <3>2 DEF Delivered
      <4>6. /\ y.s.out = x.s.out /\ Delivered(y.s, gs, g, total, tr, rcv, at, y.more)
            /\ y.more => OneLess(DOMAIN y.s.d.ooo, DOMAIN x.s.d.ooo)
        BY <4>1, <4>3, <4>4, <4>5, DeliverTurn
      <4>7. Delivered(y.s, gs, gr, total, tr, rcv, at, y.more)
        <5>1. ASSUME NEW g2, Took(g, g2, tr) PROVE Took(gr, g2, tr)
          BY <4>3, <5>1, TookTrans
        <5> QED BY <4>6, <5>1 DEF Delivered
      <4>8. y.more => F(y) /\ C(y) = M - (k + 1)
        <5>1. SUFFICES ASSUME y.more PROVE F(y) /\ C(y) = M - (k + 1)
          OBVIOUS
        <5>2. PICK S, T, q : /\ S = DOMAIN x.s.d.ooo /\ T = DOMAIN y.s.d.ooo
                             /\ q \in S /\ T = S \ {q}
          BY <4>6, <5>1 DEF OneLess
        <5>3. IsFiniteSet(S) /\ Cardinality(S) = M - k
          BY <2>4, <3>2, <5>2
        <5>4. IsFiniteSet(T) /\ Cardinality(T) = Cardinality(S) - 1
          BY <5>2, <5>3 DEF SetFacts
        <5> QED BY <2>1, <5>2, <5>3, <5>4
      <4> QED BY <2>4, <4>6, <4>7, <4>8
    <3> QED BY <3>1, <3>2
  <2> QED BY <2>1, <2>2, <2>5
<1>6. P \in SUBSET (0 .. M)
  OBVIOUS
<1>7. \A k \in 0 .. M : k \in P
  <2> HIDE DEF P
  <2> QED BY <1>4, <1>5, <1>6, BoundedInduction
<1>8. PICK x : x = f[M]
  OBVIOUS
<1>9. M \in 0 .. M /\ M - M = 0
  BY SMT
<1>10. Q(x, M)
  BY <1>7, <1>8, <1>9
<1>11. Delivered(x.s, gs, gr, total, tr, rcv, at, FALSE)
  <2>1. CASE ~x.more
    BY <1>10, <2>1 DEF Delivered
  <2>2. CASE x.more
    <3>1. ~x.s.err /\ (at.closed => x.s.up = <<>>)
      BY <1>10, <2>2 DEF Delivered
    <3>2. PICK g : Took(gr, g, tr) /\ StepOK(x.s, gs, g, total, rcv)
      BY <1>10, <3>1 DEF Delivered
    <3>3. DOMAIN x.s.d.ooo = {}
      <4>1. F(x) /\ C(x) = 0
        BY <1>9, <1>10, <2>2
      <4> QED BY <4>1 DEF SetFacts
    <3>4. Stopped(g)
      BY <3>2, <3>3, NotHeld DEF Took, StepOK
    <3> QED BY <3>1, <3>2, <3>4 DEF Delivered
  <2> QED BY <2>1, <2>2
<1> QED BY <1>3, <1>8, <1>10, <1>11

(* queue_state_ack.                                                        *)
LEMMA Queued ==
  ASSUME NEW s, NEW imm, NEW gs, NEW gr, NEW total, NEW tr, NEW rcv, WellFormed(gr, tr),
         StepOK(s, gs, gr, total, rcv)
  PROVE  StepOK(queue_state_ack(s, imm), gs, gr, total, rcv)
<1>1. PICK t : t = [s EXCEPT !.d.acks = @ + 1]
  OBVIOUS
<1>2. /\ IsStep(t) /\ SameSend(s.d, t.d) /\ SameRecv(s.d, t.d) /\ t.out = s.out /\ t.up = s.up
  BY <1>1 DEF StepOK, IsStep, DriverFields, SameSend, SameRecv
<1>3. SendSide(t.d, gs, total) /\ RecvSide(t.d, gr)
  BY <1>2, SendSame, RecvSame DEF StepOK
<1>4. StepOK(t, gs, gr, total, rcv)
  BY <1>2, <1>3 DEF StepOK
<1>5. StepOK(flush_delayed_ack(t), gs, gr, total, rcv)
  BY <1>4, Said
<1>6. queue_state_ack(s, imm) = t \/ queue_state_ack(s, imm) = flush_delayed_ack(t)
  BY <1>1 DEF queue_state_ack
<1> QED BY <1>4, <1>5, <1>6

LEMMA Near ==
  \A n \in Nat : n < Half =>
    /\ \A r \in Nat : r <= n => n - r < Half /\ r - n < Half
    /\ \A r \in Nat : r <= n => \A k \in 1 .. n : k - (r + 1) < Half /\ (r + 1) - k < Half
  BY SpaceInt, SMT

(* The order the code compares by is that of the positions.                *)
LEMMA AheadIs ==
  ASSUME NEW d, NEW g, NEW total, NEW k \in 1 .. g.n, WellFormed(g, total), RecvSide(d, g)
  PROVE  seq_gt(Nr(g.base, k), Expected(d)) => k > g.r + 1
<1>1. /\ Expected(d) = Nr(g.base, g.r + 1) /\ g.r + 1 \in Nat /\ g.r \in Nat /\ k \in Nat
  BY ExpectedIs
<1>2. g.n < Half /\ g.n \in Nat /\ g.base \in Numbers /\ g.r <= g.n
  BY ShortDirection
<1>3. k - (g.r + 1) < Half /\ (g.r + 1) - k < Half
  BY <1>1, <1>2, Near
<1>4. seq_gt(Nr(g.base, k), Nr(g.base, g.r + 1)) <=> k > g.r + 1
  BY <1>1, <1>2, <1>3, SequenceOrder
<1> QED BY <1>1, <1>4

(* A packet is kept for later.                                             *)
PutAhead(d, e, g, p) ==
  /\ e.last_remote = d.last_remote /\ e.remote_eof = d.remote_eof
  /\ DOMAIN e.ooo = DOMAIN d.ooo \cup {p.seq}
  /\ \A x \in DOMAIN d.ooo : e.ooo[x] = d.ooo[x]
  /\ p.seq \notin DOMAIN d.ooo => e.ooo[p.seq] = p.payload
  /\ \A x \in e.remote_fin : g.fin /\ x = Nr(g.base, g.n)

HoldsMore(e, g, total) ==
  \E g2 : Took(g, g2, total) /\ Stopped(g2) /\ RecvSide(e, g2) /\ g2.r = g.r

(* The receiver in agreement with one more packet held ahead.              *)
LEMMA HeldAhead ==
  ASSUME NEW d, NEW e, NEW g, NEW total, NEW p, NEW k \in 1 .. g.n, WellFormed(g, total),
         RecvSide(d, g), Stopped(g), ItemAt(p, g, k), k > g.r + 1, PutAhead(d, e, g, p)
  PROVE  HoldsMore(e, g, total)
<1>1. /\ g.r + 1 \in 0 .. g.n + 1 /\ g.r + 1 \in Nat
      /\ g.n \in Nat /\ g.r \in Nat /\ g.r <= g.n
      /\ \A j \in g.h : j \in 0 .. g.n + 1 /\ j \in 1 .. g.n /\ j \in Nat
      /\ k \in 0 .. g.n + 1 /\ k \in Nat
  BY ExpectedIs
<1>2. p.seq = Nr(g.base, k) /\ p.payload = Span(g.cut[k - 1], g.cut[k])
  BY DEF ItemAt
<1>3. PICK h : h = g.h \cup {k}
  OBVIOUS
<1>4. h \in SUBSET (1 .. g.n) /\ g.h \subseteq h
  BY <1>1, <1>3
<1>5. g.r <= g.r /\ k > g.r /\ k # g.r + 1
  BY <1>1, SMT
<1>6. \A j \in 1 .. g.r : j \in h
  BY <1>4 DEF WellFormed, Taken
<1>7. PICK g2 : Took(g, g2, total) /\ g2.r = g.r /\ g2.h = h
  <2>1. TookTo(g, total, g.r, h)
    BY <1>1, <1>4, <1>5, <1>6, Taking
  <2> QED BY <2>1 DEF TookTo
<1>8. g2.base = g.base /\ g2.n = g.n /\ g2.cut = g.cut /\ g2.fin = g.fin
  BY <1>7 DEF Took, Grown
<1>9. Stopped(g2)
  BY <1>3, <1>5, <1>7 DEF Stopped
<1>10. ASSUME NEW q \in DOMAIN d.ooo PROVE \E j \in g2.h : HeldAt(e, g2, q, j)
  <2>1. PICK j \in g.h : HeldAt(d, g, q, j)
    BY DEF RecvSide
  <2>2. e.ooo[q] = d.ooo[q]
    BY DEF PutAhead
  <2>3. HeldAt(e, g2, q, j)
    BY <1>7, <1>8, <2>1, <2>2 DEF HeldAt
  <2> QED BY <1>4, <1>7, <2>3
<1>11. ASSUME NEW q, q = p.seq, q \notin DOMAIN d.ooo PROVE \E j \in g2.h : HeldAt(e, g2, q, j)
  <2>1. e.ooo[q] = p.payload
    BY <1>11 DEF PutAhead
  <2>2. HeldAt(e, g2, q, k)
    BY <1>2, <1>5, <1>7, <1>8, <1>11, <2>1 DEF HeldAt
  <2> QED BY <1>3, <1>7, <2>2
<1>12. \A q \in DOMAIN e.ooo : \E j \in g2.h : HeldAt(e, g2, q, j)
  BY <1>10, <1>11 DEF PutAhead
<1>13. ASSUME NEW j \in g2.h, j > g2.r PROVE Nr(g2.base, j) \in DOMAIN e.ooo
  <2>1. j = k \/ j \in g.h
    BY <1>3, <1>7
  <2>2. j \in g.h => Nr(g.base, j) \in DOMAIN d.ooo
    BY <1>7, <1>13 DEF RecvSide
  <2> QED BY <1>2, <1>8, <2>1, <2>2 DEF PutAhead
<1>14. /\ e.last_remote = Nr(g2.base, g2.r)
       /\ \A q \in e.remote_fin : g2.fin /\ q = Nr(g2.base, g2.n)
       /\ e.remote_eof => g2.fin /\ g2.r = g2.n
  BY <1>7, <1>8 DEF PutAhead, RecvSide
<1>15. RecvSide(e, g2)
  BY <1>12, <1>13, <1>14 DEF RecvSide
<1> QED BY <1>7, <1>9, <1>15 DEF HoldsMore

(* entry(seq).or_insert(payload)                                           *)
InsertedAs(e, d, p) ==
  /\ DOMAIN e = DriverFields /\ SameSend(d, e)
  /\ e.last_remote = d.last_remote /\ e.remote_eof = d.remote_eof
  /\ e.remote_fin = d.remote_fin
  /\ DOMAIN e.ooo = DOMAIN d.ooo \cup {p.seq}
  /\ \A x \in DOMAIN d.ooo : e.ooo[x] = d.ooo[x]
  /\ p.seq \notin DOMAIN d.ooo => e.ooo[p.seq] = p.payload

LEMMA Inserted ==
  ASSUME NEW d, NEW p, DOMAIN d = DriverFields
  PROVE  InsertedAs(Ahead(d, p), d, p)
<1>1. PICK o : o = IF p.seq \in DOMAIN d.ooo THEN d.ooo
                   ELSE [x \in DOMAIN d.ooo \cup {p.seq} |->
                           IF x = p.seq THEN p.payload ELSE d.ooo[x]]
  OBVIOUS
<1>2. PICK e : e = Ahead(d, p)
  OBVIOUS
<1>3. e = [d EXCEPT !.ooo = o]
  BY <1>1, <1>2 DEF Ahead, DriverFields
<1>4. /\ DOMAIN e = DriverFields /\ SameSend(d, e)
      /\ e.last_remote = d.last_remote /\ e.remote_eof = d.remote_eof
      /\ e.remote_fin = d.remote_fin /\ e.ooo = o
  BY <1>3 DEF DriverFields, SameSend
<1>5. /\ DOMAIN o = DOMAIN d.ooo \cup {p.seq}
      /\ \A x \in DOMAIN d.ooo : o[x] = d.ooo[x]
      /\ p.seq \notin DOMAIN d.ooo => o[p.seq] = p.payload
  <2>1. CASE p.seq \in DOMAIN d.ooo
    <3>1. o = d.ooo
      BY <1>1, <2>1
    <3> QED BY <2>1, <3>1
  <2>2. CASE p.seq \notin DOMAIN d.ooo
    <3>1. o = [x \in DOMAIN d.ooo \cup {p.seq} |-> IF x = p.seq THEN p.payload ELSE d.ooo[x]]
      BY <1>1, <2>2
    <3> QED BY <2>2, <3>1
  <2> QED BY <2>1, <2>2
<1> QED BY <1>2, <1>4, <1>5 DEF InsertedAs

(* What a packet leaves: the receiver has taken in more, or nothing, or    *)
(* the driver ends.                                                        *)
Processed(t, gs, g, total, tr, rcv) ==
  /\ t.err => t.up = <<>> /\ AllSent(t.out, gs, g)
  /\ ~t.err => \E g2 : Took(g, g2, tr) /\ Stopped(g2) /\ StepOK(t, gs, g2, total, rcv)

LEMMA Unchanged ==
  ASSUME NEW s, NEW imm, NEW gs, NEW g, NEW total, NEW tr, NEW rcv,
         WellFormed(g, tr), Stopped(g), StepOK(s, gs, g, total, rcv)
  PROVE  Processed(queue_state_ack(s, imm), gs, g, total, tr, rcv)
<1>1. PICK t : t = queue_state_ack(s, imm)
  OBVIOUS
<1>2. StepOK(t, gs, g, total, rcv) /\ ~t.err
  <2>1. StepOK(t, gs, g, total, rcv)
    BY <1>1, Queued
  <2> QED BY <2>1 DEF StepOK, IsStep
<1>3. Took(g, g, tr)
  BY TookRefl
<1> QED BY <1>1, <1>2, <1>3 DEF Processed

(* A packet is kept for later.                                             *)
LEMMA KeptAhead ==
  ASSUME NEW s, NEW e, NEW imm, NEW gs, NEW g, NEW total, NEW tr, NEW rcv,
         Kinds(gs), WellFormed(g, tr), StepOK(s, gs, g, total, rcv),
         IsStep(e), SameSend(s.d, e.d), e.out = s.out, e.up = s.up, HoldsMore(e.d, g, tr)
  PROVE  Processed(queue_state_ack(e, imm), gs, g, total, tr, rcv)
<1>1. PICK g2 : Took(g, g2, tr) /\ Stopped(g2) /\ RecvSide(e.d, g2) /\ g2.r = g.r
  BY DEF HoldsMore
<1>2. AllSent(e.out, gs, g2)
  BY <1>1, SentStep
<1>3. SendSide(e.d, gs, total)
  BY SendSame DEF StepOK
<1>4. g2.cut = g.cut /\ WellFormed(g2, tr)
  BY <1>1 DEF Took
<1>5. StepOK(e, gs, g2, total, rcv)
  BY <1>1, <1>2, <1>3, <1>4 DEF StepOK
<1>6. PICK t : t = queue_state_ack(e, imm)
  OBVIOUS
<1>7. StepOK(t, gs, g2, total, rcv) /\ ~t.err
  <2>1. StepOK(t, gs, g2, total, rcv)
    BY <1>4, <1>5, <1>6, Queued
  <2> QED BY <2>1 DEF StepOK, IsStep
<1> QED BY <1>1, <1>6, <1>7 DEF Processed

(* The next packet is not in ooo.                                          *)
LEMMA NotAhead ==
  ASSUME NEW d, NEW g, NEW total, WellFormed(g, total), RecvSide(d, g), Stopped(g)
  PROVE  Nr(g.base, g.r + 1) \notin DOMAIN d.ooo
<1>1. Expected(d) = Nr(g.base, g.r + 1)
  BY ExpectedIs
<1>2. Expected(d) \in DOMAIN d.ooo => g.r + 1 \in g.h
  BY NextHeld
<1> QED BY <1>1, <1>2 DEF Stopped

(* process_incoming_packet, TYPE_DATA: the next packet is delivered with   *)
(* all that follows it in ooo; one ahead is kept if there is room; any     *)
(* other is only acknowledged.                                             *)
LEMMA DataTaken ==
  ASSUME SetFacts, NEW s, NEW p, NEW at, NEW gs, NEW g, NEW total, NEW tr, NEW rcv,
         Kinds(gs), WellFormed(g, tr), Stopped(g), StepOK(s, gs, g, total, rcv), IsSeq(rcv),
         at.closed => s.up = <<>>, Item(p, g)
  PROVE  Processed(ReceiveData(s, p, at), gs, g, total, tr, rcv)
<1> DEFINE imm == s.d.ooo # <<>>
<1>0. PICK R : R = ReceiveData(s, p, at)
  OBVIOUS
<1>1. PICK k \in 1 .. g.n : ItemAt(p, g, k)
  BY DEF Item
<1>2. p.seq = Nr(g.base, k) /\ p.payload = Span(g.cut[k - 1], g.cut[k])
  BY <1>1 DEF ItemAt
<1>3. /\ RecvSide(s.d, g) /\ SendSide(s.d, gs, total) /\ IsStep(s) /\ AllSent(s.out, gs, g)
  BY DEF StepOK
<1>4. /\ Expected(s.d) = Nr(g.base, g.r + 1) /\ g.r + 1 \in 0 .. g.n + 1
      /\ g.r \in Nat /\ g.n \in Nat /\ k \in 0 .. g.n + 1
  BY <1>3, ExpectedIs
<1>5. CASE p.seq = Expected(s.d)
  <2>1. k = g.r + 1
    BY <1>2, <1>4, <1>5, PositionIs
  <2>2. k - 1 = g.r /\ g.r # g.n
    BY <1>4, <2>1, SMT
  <2>3. p.payload = Span(g.cut[g.r], g.cut[g.r + 1])
    BY <1>2, <2>1, <2>2
  <2>4. PICK w, a, taken, next :
          /\ w = write_all_tracked(s, p.payload, at)
          /\ a = [s EXCEPT !.d.last_remote = p.seq]
          /\ taken = [w EXCEPT !.d.last_remote = p.seq]
          /\ next = IF w.err THEN w ELSE deliver_buffered_payloads(taken, at)
    OBVIOUS
  <2>5. R = IF next.err THEN next ELSE queue_state_ack(next, imm)
    <3>1. ~seq_gt(p.seq, Expected(s.d))
      BY <1>5 DEF seq_gt
    <3> QED BY <1>0, <1>5, <2>4, <3>1 DEF ReceiveData
  <2>6. WroteUp(s, w, p.payload, at)
    BY <1>3, <2>4, Written
  <2> HIDE DEF imm
  <2>7. CASE w.err
    <3>1. R = w
      BY <2>4, <2>5, <2>7
    <3>2. w.out = s.out /\ w.up = s.up /\ at.closed
      BY <1>3, <2>6, <2>7 DEF WroteUp, IsStep
    <3>3. w.up = <<>> /\ AllSent(w.out, gs, g)
      BY <1>3, <3>2
    <3>4. Processed(w, gs, g, total, tr, rcv)
      BY <2>7, <3>3 DEF Processed
    <3> QED BY <1>0, <3>1, <3>4
  <2>8. CASE ~w.err
    <3>1. /\ IsStep(a) /\ SameSend(s.d, a.d) /\ a.out = s.out /\ a.up = s.up
          /\ a.d.last_remote = p.seq /\ a.d.ooo = s.d.ooo
          /\ a.d.remote_fin = s.d.remote_fin /\ a.d.remote_eof = s.d.remote_eof
      BY <1>3, <2>4 DEF IsStep, DriverFields, SameSend
    <3>2. SendSide(a.d, gs, total)
      BY <1>3, <3>1, SendSame
    <3>3. Nr(g.base, g.r + 1) \notin DOMAIN s.d.ooo
      BY <1>3, NotAhead
    <3>4. MovedOn(s.d, a.d, g)
      BY <1>3, <1>4, <1>5, <2>2, <3>1, <3>3 DEF MovedOn, RecvSide
    <3>5. WroteUp(a, taken, p.payload, at) /\ ~taken.err
      <4>1. CASE w = s /\ p.payload = <<>>
        <5>1. taken = a
          BY <2>4, <4>1
        <5> QED BY <3>1, <4>1, <5>1 DEF WroteUp, IsStep
      <4>2. CASE /\ IsStep(w) /\ ~at.closed /\ SameSend(s.d, w.d) /\ SameRecv(s.d, w.d)
                 /\ w.up = s.up \o p.payload
        <5>1. w.out = s.out
          BY <2>6 DEF WroteUp
        <5>2. /\ IsStep(taken) /\ SameSend(w.d, taken.d) /\ taken.out = w.out /\ taken.up = w.up
              /\ taken.d.last_remote = p.seq /\ taken.d.ooo = w.d.ooo
              /\ taken.d.remote_fin = w.d.remote_fin /\ taken.d.remote_eof = w.d.remote_eof
          BY <2>4, <4>2 DEF IsStep, DriverFields, SameSend
        <5>3. SameSend(a.d, taken.d) /\ SameRecv(a.d, taken.d)
          BY <3>1, <4>2, <5>2 DEF SameSend, SameRecv
        <5> QED BY <3>1, <4>2, <5>1, <5>2, <5>3 DEF WroteUp, IsStep
      <4> QED BY <2>6, <2>8, <4>1, <4>2 DEF WroteUp
    <3>6. Advanced(taken, gs, g, total, tr, rcv, at) /\ taken.out = s.out
      BY <1>3, <2>1, <2>3, <3>1, <3>2, <3>4, <3>5, Advance
    <3>7. PICK g2 : Took(g, g2, tr) /\ StepOK(taken, gs, g2, total, rcv)
      BY <3>5, <3>6 DEF Advanced
    <3>8. WellFormed(g2, tr) /\ (at.closed => taken.up = <<>>)
      BY <3>5, <3>6, <3>7 DEF Took, Advanced
    <3>9. next = deliver_buffered_payloads(taken, at)
      BY <2>4, <2>8
    <3>10. next.out = taken.out /\ Delivered(next, gs, g2, total, tr, rcv, at, FALSE)
      BY <3>7, <3>8, <3>9, DeliveredAll
    <3>11. CASE next.err
      <4>1. R = next
        BY <2>5, <3>11
      <4>2. next.up = <<>> /\ AllSent(next.out, gs, g)
        BY <1>3, <3>6, <3>10, <3>11 DEF Delivered
      <4> QED BY <1>0, <3>11, <4>1, <4>2 DEF Processed
    <3>12. CASE ~next.err
      <4>1. R = queue_state_ack(next, imm)
        BY <2>5, <3>12
      <4>2. PICK g3 : Took(g2, g3, tr) /\ StepOK(next, gs, g3, total, rcv) /\ Stopped(g3)
        BY <3>10, <3>12 DEF Delivered
      <4>3. Took(g, g3, tr) /\ WellFormed(g3, tr)
        BY <3>7, <4>2, TookTrans DEF Took
      <4>4. StepOK(R, gs, g3, total, rcv) /\ ~R.err
        <5>1. StepOK(R, gs, g3, total, rcv)
          BY <4>1, <4>2, <4>3, Queued
        <5> QED BY <5>1 DEF StepOK, IsStep
      <4> QED BY <1>0, <4>2, <4>3, <4>4 DEF Processed
    <3> QED BY <3>11, <3>12
  <2> QED BY <2>7, <2>8
<1>6. CASE p.seq # Expected(s.d) /\ seq_gt(p.seq, Expected(s.d)) /\ HasRoom(s.d)
  <2>1. PICK e : e = [s EXCEPT !.d = Ahead(@, p)]
    OBVIOUS
  <2>2. R = queue_state_ack(e, TRUE)
    BY <1>0, <1>6, <2>1 DEF ReceiveData
  <2>3. IsStep(e) /\ e.d = Ahead(s.d, p) /\ e.out = s.out /\ e.up = s.up
    <3>1. InsertedAs(Ahead(s.d, p), s.d, p)
      BY <1>3, Inserted DEF IsStep
    <3> QED BY <1>3, <2>1, <3>1 DEF IsStep, InsertedAs
  <2>4. SameSend(s.d, e.d) /\ PutAhead(s.d, e.d, g, p)
    <3>1. InsertedAs(e.d, s.d, p)
      BY <1>3, <2>3, Inserted DEF IsStep
    <3>2. \A x \in s.d.remote_fin : g.fin /\ x = Nr(g.base, g.n)
      BY <1>3 DEF RecvSide
    <3> QED BY <3>1, <3>2 DEF PutAhead, InsertedAs
  <2>5. k > g.r + 1
    BY <1>2, <1>3, <1>6, AheadIs
  <2>6. HoldsMore(e.d, g, tr)
    BY <1>1, <1>3, <2>4, <2>5, HeldAhead
  <2> QED BY <1>0, <2>2, <2>3, <2>4, <2>6, KeptAhead
<1>7. CASE p.seq # Expected(s.d) /\ ~(seq_gt(p.seq, Expected(s.d)) /\ HasRoom(s.d))
  <2>1. R = queue_state_ack(s, TRUE)
    BY <1>0, <1>7 DEF ReceiveData
  <2> QED BY <1>0, <2>1, Unchanged
<1> QED BY <1>5, <1>6, <1>7

(* An end of the stream was told before, and everything is there.          *)
LEMMA FinRepeated ==
  ASSUME NEW d, NEW g, NEW total, NEW q \in d.remote_fin, WellFormed(g, total), RecvSide(d, g),
         seq_lte(q, d.last_remote)
  PROVE  g.fin /\ g.r = g.n
<1>1. q = Nr(g.base, g.n) /\ g.fin /\ d.last_remote = Nr(g.base, g.r)
  BY DEF RecvSide
<1>2. g.n < Half /\ g.n \in Nat /\ g.r \in Nat /\ g.base \in Numbers /\ g.r <= g.n
  BY ShortDirection
<1>3. g.n - g.r < Half /\ g.r - g.n < Half
  BY <1>2, Near
<1>4. g.n <= g.r
  BY <1>1, <1>2, <1>3, SequenceOrder
<1>5. g.r = g.n
  BY <1>2, <1>4, SMT
<1> QED BY <1>1, <1>5

(* process_incoming_packet, TYPE_FIN: the end of the stream is told when   *)
(* everything before it was taken in.                                      *)
LEMMA FinTaken ==
  ASSUME NEW s, NEW p, NEW at, NEW gs, NEW g, NEW total, NEW tr, NEW rcv,
         Kinds(gs), WellFormed(g, tr), Stopped(g), StepOK(s, gs, g, total, rcv), IsSeq(rcv),
         at.closed => s.up = <<>>, Item(p, g), p.type = "FIN"
  PROVE  Processed(ReceiveFin(s, p), gs, g, total, tr, rcv)
<1>0. PICK R, held, eof :
        /\ R = ReceiveFin(s, p)
        /\ eof = [s EXCEPT !.d.remote_eof = TRUE, !.d.local_eof = TRUE]
        /\ held = CASE p.seq = Expected(s.d) ->
                    [eof EXCEPT !.d.remote_fin = {p.seq}, !.d.last_remote = p.seq]
               [] seq_gt(p.seq, Expected(s.d)) /\ HasRoom(s.d) ->
                    [s EXCEPT !.d = Ahead([@ EXCEPT !.remote_fin = {p.seq}], p)]
               [] p.seq # Expected(s.d)
                  /\ ~(seq_gt(p.seq, Expected(s.d)) /\ HasRoom(s.d))
                  /\ \E q \in s.d.remote_fin : seq_lte(q, s.d.last_remote) -> eof
               [] OTHER -> s
  OBVIOUS
<1>a. R = queue_state_ack(held, TRUE)
  BY <1>0 DEF ReceiveFin
<1>1. PICK k \in 1 .. g.n : ItemAt(p, g, k)
  BY DEF Item
<1>2. /\ p.seq = Nr(g.base, k) /\ p.payload = Span(g.cut[k - 1], g.cut[k])
      /\ g.fin /\ k = g.n
  BY <1>1 DEF ItemAt, IsFin
<1>3. /\ RecvSide(s.d, g) /\ SendSide(s.d, gs, total) /\ IsStep(s) /\ AllSent(s.out, gs, g)
  BY DEF StepOK
<1>4. /\ Expected(s.d) = Nr(g.base, g.r + 1) /\ g.r + 1 \in 0 .. g.n + 1
      /\ g.r \in Nat /\ g.n \in Nat /\ k \in 0 .. g.n + 1
  BY <1>3, ExpectedIs
<1>5. /\ IsStep(eof) /\ eof.out = s.out /\ eof.up = s.up /\ eof.d.local_eof
      /\ eof.d.next_send = s.d.next_send /\ eof.d.pending = s.d.pending
      /\ eof.d.unacked = s.d.unacked /\ eof.d.fin_sent = s.d.fin_sent
      /\ eof.d.packet_size = s.d.packet_size
      /\ eof.d.last_remote = s.d.last_remote /\ eof.d.ooo = s.d.ooo
      /\ eof.d.remote_fin = s.d.remote_fin
  BY <1>0, <1>3 DEF IsStep, DriverFields
<1>6. SendSide(eof.d, gs, total)
  BY <1>3, <1>5 DEF SendSide, Covered
<1>7. CASE p.seq = Expected(s.d)
  <2>0. ~seq_gt(p.seq, Expected(s.d))
    BY <1>7 DEF seq_gt
  <2>1. held = [eof EXCEPT !.d.remote_fin = {p.seq}, !.d.last_remote = p.seq]
    BY <1>0, <1>7, <2>0
  <2>2. k = g.r + 1
    BY <1>2, <1>4, <1>7, PositionIs
  <2>3. /\ IsStep(held) /\ SameSend(eof.d, held.d) /\ held.out = s.out /\ held.up = s.up
        /\ held.d.last_remote = p.seq /\ held.d.ooo = s.d.ooo /\ held.d.remote_fin = {p.seq}
    BY <1>5, <2>1 DEF IsStep, DriverFields, SameSend
  <2>4. SendSide(held.d, gs, total)
    BY <1>6, <2>3, SendSame
  <2>5. Nr(g.base, g.r + 1) \notin DOMAIN s.d.ooo
    BY <1>3, NotAhead
  <2>6. MovedOn(s.d, held.d, g)
    BY <1>2, <2>2, <2>3, <2>5 DEF MovedOn
  <2>7. Span(g.cut[g.r], g.cut[g.r + 1]) = <<>>
    BY <1>2, <2>2, FinEmpty
  <2>8. WroteUp(held, held, Span(g.cut[g.r], g.cut[g.r + 1]), at)
    BY <2>7 DEF WroteUp
  <2>9. Advanced(held, gs, g, total, tr, rcv, at)
    BY <1>3, <2>2, <2>3, <2>4, <2>6, <2>8, Advance
  <2>10. ~held.err
    BY <2>3 DEF IsStep
  <2>11. PICK g2 : Took(g, g2, tr) /\ StepOK(held, gs, g2, total, rcv) /\ g2.r = g.r + 1
    BY <2>9, <2>10 DEF Advanced
  <2>12. WellFormed(g2, tr) /\ Stopped(g2)
    BY <1>2, <2>2, <2>11, AfterFin DEF Took
  <2>13. StepOK(R, gs, g2, total, rcv) /\ ~R.err
    <3>1. StepOK(R, gs, g2, total, rcv)
      BY <1>a, <2>11, <2>12, Queued
    <3> QED BY <3>1 DEF StepOK, IsStep
  <2> QED BY <1>0, <2>11, <2>12, <2>13 DEF Processed
<1>8. CASE p.seq # Expected(s.d) /\ seq_gt(p.seq, Expected(s.d)) /\ HasRoom(s.d)
  <2>1. PICK d, e : d = [s.d EXCEPT !.remote_fin = {p.seq}] /\ e = [s EXCEPT !.d = Ahead(d, p)]
    OBVIOUS
  <2>2. held = e
    BY <1>0, <1>3, <1>8, <2>1 DEF IsStep
  <2>3. /\ DOMAIN d = DriverFields /\ SameSend(s.d, d) /\ d.remote_fin = {p.seq}
        /\ d.last_remote = s.d.last_remote /\ d.ooo = s.d.ooo /\ d.remote_eof = s.d.remote_eof
    BY <1>3, <2>1 DEF IsStep, DriverFields, SameSend
  <2>4. IsStep(e) /\ e.d = Ahead(d, p) /\ e.out = s.out /\ e.up = s.up
    <3>1. InsertedAs(Ahead(d, p), d, p)
      BY <2>3, Inserted
    <3> QED BY <1>3, <2>1, <3>1 DEF IsStep, InsertedAs
  <2>5. SameSend(d, e.d) /\ e.d.remote_fin = {p.seq} /\ PutAhead(s.d, e.d, g, p)
    <3>1. InsertedAs(e.d, d, p)
      BY <2>3, <2>4, Inserted
    <3>2. e.d.remote_fin = {p.seq} /\ \A x \in e.d.remote_fin : g.fin /\ x = Nr(g.base, g.n)
      BY <1>2, <2>3, <3>1 DEF InsertedAs
    <3> QED BY <2>3, <3>1, <3>2 DEF PutAhead, InsertedAs
  <2>6. SameSend(s.d, e.d)
    BY <2>3, <2>5 DEF SameSend
  <2>7. k > g.r + 1
    BY <1>2, <1>3, <1>8, AheadIs
  <2>8. HoldsMore(e.d, g, tr)
    BY <1>1, <1>3, <2>5, <2>7, HeldAhead
  <2>9. R = queue_state_ack(e, TRUE)
    BY <1>a, <2>2
  <2>10. Processed(queue_state_ack(e, TRUE), gs, g, total, tr, rcv)
    BY <2>4, <2>6, <2>8, KeptAhead
  <2> QED BY <1>0, <2>9, <2>10
<1>9. CASE p.seq # Expected(s.d) /\ ~(seq_gt(p.seq, Expected(s.d)) /\ HasRoom(s.d))
  <2>1. CASE \E q \in s.d.remote_fin : seq_lte(q, s.d.last_remote)
    <3>1. held = eof
      BY <1>0, <1>9, <2>1
    <3>2. g.fin /\ g.r = g.n
      BY <1>3, <2>1, FinRepeated
    <3>3. RecvSide(eof.d, g)
      BY <1>3, <1>5, <3>2 DEF RecvSide, HeldAt
    <3>4. StepOK(eof, gs, g, total, rcv)
      BY <1>3, <1>5, <1>6, <3>3 DEF StepOK
    <3> QED BY <1>0, <1>a, <3>1, <3>4, Unchanged
  <2>2. CASE ~\E q \in s.d.remote_fin : seq_lte(q, s.d.last_remote)
    <3>1. held = s
      BY <1>0, <1>9, <2>2
    <3> QED BY <1>0, <1>a, <3>1, Unchanged
  <2> QED BY <2>1, <2>2
<1> QED BY <1>7, <1>8, <1>9

---------------------------------------------------------------------------
(* process_incoming_packet: whatever packet of the connection arrives, old *)
(* or new, the driver ends in agreement with histories that go on.         *)
LEMMA PacketProcessed ==
  ASSUME SetFacts, NEW d, NEW p, NEW at, NEW due, NEW s \in process_incoming_packet(d, p, at, due),
         NEW gs, NEW gr, NEW total, NEW tr, NEW rcv,
         WellFormed(gs, total), WellFormed(gr, tr), Stopped(gr), DOMAIN d = DriverFields,
         SendSide(d, gs, total), RecvSide(d, gr), IsSeq(rcv), rcv = Span(0, gr.cut[gr.r]),
         p.type = "RESET" \/ Sent(p, gr, gs)
  PROVE  Processed(s, gs, gr, total, tr, rcv)
<1>1. PICK heard, o, t : /\ heard = [d EXCEPT !.remote_window = p.wnd]
                         /\ o = acknowledge_packets(heard, p)
                         /\ t = apply_ack_outcome(Step(heard), o, p, due)
  OBVIOUS
<1>2. DOMAIN heard = DriverFields /\ SameSend(d, heard) /\ SameRecv(d, heard)
  BY <1>1 DEF DriverFields, SameSend, SameRecv
<1>3. SendSide(heard, gs, total) /\ RecvSide(heard, gr)
  BY <1>2, SendSame, RecvSame
<1>4. PICK z : z = Step(heard)
  OBVIOUS
<1>5. /\ DOMAIN z = {"d", "out", "up", "err"} /\ z.d = heard /\ z.out = <<>> /\ z.up = <<>>
      /\ ~z.err /\ DOMAIN z.d = DriverFields /\ IsStep(z)
  BY <1>2, <1>4 DEF Step, IsStep
<1>6. AllSent(<<>>, gs, gr)
  BY SeqEmpty DEF AllSent
<1>7. rcv \o <<>> = rcv
  BY ConcatEmpty
<1>8. StepOK(z, gs, gr, total, rcv)
  BY <1>3, <1>5, <1>6, <1>7, SeqEmpty DEF StepOK
<1>9. CASE p.type = "RESET"
  <2>1. s = [z EXCEPT !.err = TRUE]
    BY <1>1, <1>4, <1>9 DEF process_incoming_packet
  <2>2. s.err /\ s.up = <<>> /\ s.out = <<>>
    BY <1>5, <2>1
  <2> QED BY <1>6, <2>2 DEF Processed
<1>10. CASE p.type # "RESET"
  <2>1. Sent(p, gr, gs)
    BY <1>10
  <2>2. Releases(o, heard, gs)
    <3>1. Acks(p, gs)
      BY <2>1 DEF Sent
    <3> QED BY <1>1, <1>3, <3>1, Acknowledged
  <2>3. Resent(z, t, gs, gr, total, rcv)
    BY <1>1, <1>4, <1>5, <1>8, <2>2, Applied
  <2>4. AllSent(t.out, gs, gr) /\ t.up = <<>> /\ (~t.err => StepOK(t, gs, gr, total, rcv))
    BY <1>5, <2>3 DEF Resent
  <2>5. CASE t.err
    <3>1. s = t
      BY <1>1, <1>10, <2>5 DEF process_incoming_packet
    <3> QED BY <2>4, <2>5, <3>1 DEF Processed
  <2>6. CASE ~t.err
    <3> DEFINE lossy == t.out # <<>>
               Payload(u) == CASE p.type = "DATA" -> ReceiveData(u, p, at)
                               [] p.type = "FIN" -> ReceiveFin(u, p)
                               [] p.type = "STATE" -> u
    <3>1. s \in {Payload([t EXCEPT !.d = x]) : x \in WindowOutcomes(t.d, lossy, Bytes(o.acked))}
      BY <1>1, <1>10, <2>6 DEF process_incoming_packet
    <3> HIDE DEF lossy, Payload
    <3>2. PICK x \in WindowOutcomes(t.d, lossy, Bytes(o.acked)) : s = Payload([t EXCEPT !.d = x])
      BY <3>1
    <3>3. StepOK(t, gs, gr, total, rcv)
      BY <2>4, <2>6
    <3>4. Reopened(t.d, x)
      BY <3>2, <3>3, Windowed DEF StepOK, IsStep, SendSide
    <3>5. PICK u : u = [t EXCEPT !.d = x]
      OBVIOUS
    <3>6. IsStep(u) /\ u.d = x /\ u.out = t.out /\ u.up = <<>>
      BY <2>4, <3>3, <3>4, <3>5 DEF StepOK, IsStep, Reopened
    <3>7. SendSide(x, gs, total) /\ RecvSide(x, gr)
      <4>1. Likewise(t.d, x)
        BY <3>3, <3>4, SameUnacked DEF Reopened, StepOK, SendSide
      <4> QED BY <3>3, <3>4, <4>1, SendLike, RecvSame DEF Reopened, StepOK
    <3>8. StepOK(u, gs, gr, total, rcv)
      BY <3>3, <3>6, <3>7, <2>4 DEF StepOK
    <3>9. Kinds(gs) /\ (at.closed => u.up = <<>>)
      BY <3>6 DEF WellFormed
    <3>10. CASE p.type = "DATA"
      <4>1. s = ReceiveData(u, p, at) /\ Item(p, gr)
        BY <2>1, <3>2, <3>5, <3>10 DEF Payload, Sent
      <4> QED BY <3>8, <3>9, <4>1, DataTaken
    <3>11. CASE p.type = "FIN"
      <4>1. s = ReceiveFin(u, p) /\ Item(p, gr)
        BY <2>1, <3>2, <3>5, <3>11 DEF Payload, Sent
      <4> QED BY <3>8, <3>9, <3>11, <4>1, FinTaken
    <3>12. CASE p.type = "STATE"
      <4>1. s = u
        BY <3>2, <3>5, <3>12 DEF Payload
      <4>2. Took(gr, gr, tr) /\ ~u.err
        BY <3>6, TookRefl DEF IsStep
      <4> QED BY <3>8, <4>1, <4>2 DEF Processed
    <3>13. p.type = "STATE" \/ p.type = "DATA" \/ p.type = "FIN"
      BY <2>1 DEF Sent, Item, ItemAt
    <3> QED BY <3>10, <3>11, <3>12, <3>13
  <2> QED BY <2>5, <2>6
<1> QED BY <1>9, <1>10
=============================================================================
