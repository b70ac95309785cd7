----------------------------- MODULE BasicFacts -----------------------------
(***************************************************************************)
(* What the proofs of several components need of the library's data:       *)
(* induction over the natural numbers in terms of sets, and the items of   *)
(* a sequence that grows at its end or loses its head.                     *)
(***************************************************************************)
EXTENDS Integers, Sequences, SequenceTheorems, WellFoundedInduction, TLAPS

\* A non-empty set of natural numbers has a least member.
LEMMA LeastNumber ==
  ASSUME NEW S, S \subseteq Nat, S # {}
  PROVE  \E x \in S : \A y \in S : x <= y
<1> DEFINE R == {ss \in Nat \X Nat : ss[1] < ss[2]}
<1>1. IsWellFoundedOn(R, Nat)
  BY NatLessThanWellFounded DEF OpToRel
<1>2. PICK x \in S : \A y \in S : ~ (<<y, x>> \in R)
  BY <1>1, WFMin
<1>3. \A y \in S : ~ (y < x)
  BY <1>2
<1>. QED
  BY <1>3

\* A set with 0 that has the successor of each member is all of Nat.
LEMMA SetInduction ==
  ASSUME NEW S, 0 \in S, \A n \in Nat : n \in S => n + 1 \in S
  PROVE  \A n \in Nat : n \in S
<1> SUFFICES ASSUME Nat \ S # {} PROVE FALSE
  OBVIOUS
<1>1. PICK m \in Nat \ S : \A y \in Nat \ S : m <= y
  BY LeastNumber
<1>2. m # 0 /\ m - 1 \in Nat /\ m - 1 < m /\ (m - 1) + 1 = m
  BY <1>1
<1>3. m - 1 \in S
  BY <1>1, <1>2
<1>. QED
  BY <1>1, <1>2, <1>3
-----------------------------------------------------------------------------
\* Append leaves the items there are where they are.
LEMMA AppendItems ==
  ASSUME NEW S, NEW q \in Seq(S), NEW x \in S
  PROVE  /\ Append(q, x) \in Seq(S)
         /\ Len(q) \in Nat
         /\ Len(Append(q, x)) = Len(q) + 1
         /\ \A k \in 1 .. Len(q) : Append(q, x)[k] = q[k]
         /\ Append(q, x)[Len(q) + 1] = x
OBVIOUS

\* Tail moves every item one place forward.
LEMMA TailItems ==
  ASSUME NEW S, NEW q \in Seq(S), q # <<>>
  PROVE  /\ Head(q) \in S /\ Head(q) = q[1]
         /\ Tail(q) \in Seq(S)
         /\ Len(q) \in Nat /\ Len(q) >= 1
         /\ Len(Tail(q)) = Len(q) - 1
         /\ \A k \in 1 .. Len(q) - 1 : Tail(q)[k] = q[k + 1]
OBVIOUS

\* A sequence whose items are in T is a sequence over T.
LEMMA Retyped ==
  ASSUME NEW S, NEW T, NEW q \in Seq(S), \A k \in 1 .. Len(q) : q[k] \in T
  PROVE  q \in Seq(T)
<1>1. PICK n \in Nat : n = Len(q)
  OBVIOUS
<1>2. q = [k \in 1 .. n |-> q[k]]
  BY <1>1
<1>3. [k \in 1 .. n |-> q[k]] \in [1 .. n -> T]
  BY <1>1
<1>. QED
  BY <1>2, <1>3

\* The first n items of a sequence, and the others.
LEMMA CutInTwo ==
  ASSUME NEW S, NEW q \in Seq(S), NEW n \in 0 .. Len(q)
  PROVE  /\ SubSeq(q, 1, n) \in Seq(S) /\ SubSeq(q, n + 1, Len(q)) \in Seq(S)
         /\ Len(q) \in Nat /\ n \in Nat
         /\ Len(SubSeq(q, 1, n)) = n
         /\ Len(SubSeq(q, n + 1, Len(q))) = Len(q) - n
         /\ \A k \in 1 .. n : SubSeq(q, 1, n)[k] = q[k]
         /\ \A k \in 1 .. Len(q) - n : SubSeq(q, n + 1, Len(q))[k] = q[n + k]
<1>1. PICK m \in Nat : m = Len(q) /\ n \in 0 .. m
  OBVIOUS
<1>2. \A i \in 1 .. n : q[i] \in S
  BY <1>1
<1>3. \A i \in n + 1 .. m : q[i] \in S
  BY <1>1
<1>4. /\ SubSeq(q, 1, n) \in Seq(S)
      /\ Len(SubSeq(q, 1, n)) = IF 1 <= n THEN n - 1 + 1 ELSE 0
      /\ \A k \in 1 .. n - 1 + 1 : SubSeq(q, 1, n)[k] = q[1 + k - 1]
  BY <1>1, <1>2, SubSeqProperties
<1>5. /\ SubSeq(q, n + 1, m) \in Seq(S)
      /\ Len(SubSeq(q, n + 1, m)) =
           IF n + 1 <= m THEN m - (n + 1) + 1 ELSE 0
      /\ \A k \in 1 .. m - (n + 1) + 1 :
           SubSeq(q, n + 1, m)[k] = q[n + 1 + k - 1]
  BY <1>1, <1>3, SubSeqProperties
<1>6. \A k \in 1 .. n : SubSeq(q, 1, n)[k] = q[k]
  <2>1. \A k \in 1 .. n : 1 + k - 1 = k /\ k \in 1 .. n - 1 + 1
    BY <1>1
  <2>. QED
    BY <1>4, <2>1
<1>7. \A k \in 1 .. m - n : SubSeq(q, n + 1, m)[k] = q[n + k]
  <2>1. \A k \in 1 .. m - n :
          n + 1 + k - 1 = n + k /\ k \in 1 .. m - (n + 1) + 1
    BY <1>1
  <2>. QED
    BY <1>5, <2>1
<1>8. (1 <= n => n - 1 + 1 = n) /\ (~(1 <= n) => n = 0)
  BY <1>1
<1>9. /\ n + 1 <= m => m - (n + 1) + 1 = m - n
      /\ ~(n + 1 <= m) => m - n = 0
  BY <1>1
<1>. QED
  BY <1>1, <1>4, <1>5, <1>6, <1>7, <1>8, <1>9
=============================================================================
