----------------------------- MODULE LoopProofs -----------------------------
(* Induction over what a loop has done so far, by the least counterexample, *)
(* and what the loop of Drain leaves, whatever is in the queue.              *)
EXTENDS Drain, SequenceTheorems, WellFoundedInduction, TLAPS

\* A set of natural numbers that is not empty has a least member.
LEMMA LeastMember ==
  ASSUME NEW S \in SUBSET Nat, S # {}
  PROVE  \E x \in S : \A y \in S : x <= y
<1> DEFINE R == {ss \in Nat \X Nat : ss[1] < ss[2]}
<1>1. IsWellFoundedOn(R, Nat)
  BY NatLessThanWellFounded, Zenon DEF OpToRel
<1>2. \A x, y \in Nat : y < x => <<y, x>> \in R
  OBVIOUS
<1> HIDE DEF R
<1>3. PICK x \in S : \A y \in S : <<y, x>> \notin R
  BY <1>1, WFMin
<1>4. \A y \in S : x <= y
  <2> SUFFICES ASSUME NEW y \in S PROVE x <= y
    OBVIOUS
  <2>1. x \in Nat /\ y \in Nat
    OBVIOUS
  <2>2. ~(y < x)
    BY <1>2, <1>3, <2>1
  <2> QED
    BY <2>1, <2>2
<1> QED
  BY <1>4

\* The function that sums up the first n terms of f, by recursion.

\* A set of numbers that has 0 and the successor of each member below n has
\* every number up to n.
LEMMA UpTo ==
  ASSUME NEW n \in Nat, NEW B \in SUBSET (0 .. n),
         0 \notin B, \A m \in 1 .. n : m \in B => m - 1 \in B
  PROVE  B = {}
<1> SUFFICES ASSUME B # {} PROVE FALSE
  OBVIOUS
<1>1. B \in SUBSET Nat
  OBVIOUS
<1>2. PICK m \in B : \A y \in B : m <= y
  BY <1>1, LeastMember
<1>3. m \in 1 .. n /\ m - 1 \in B
  BY <1>2
<1> QED
  BY <1>2, <1>3

-----------------------------------------------------------------------------
(* The queue that BOOT drains. *)

Turn(keep, q, drained, n) ==
  IF n = 0 THEN << >>
  ELSE IF q[n] \in drained THEN keep[n - 1] ELSE Append(keep[n - 1], q[n])

\* What the loop has kept after each of its first m turns.
Drains(keep, q, drained, m) ==
  keep = [n \in 0 .. m |-> Turn(keep, q, drained, n)]

\* There is such a function, for a queue of any length: the definition by
\* recursion in Kept is one.
LEMMA DrainsExist ==
  ASSUME NEW S, NEW q \in Seq(S), NEW drained
  PROVE  \E keep : Drains(keep, q, drained, Len(q))
<1> DEFINE N == Len(q)
           P(m) == \E keep \in [0 .. m -> Seq(S)] : Drains(keep, q, drained, m)
           B == {m \in 0 .. N : ~P(m)}
<1>1. N \in Nat /\ \A i \in 1 .. N : q[i] \in S
  BY LenProperties, ElementOfSeq
<1>2. P(0)
  <2> DEFINE keep == [n \in 0 .. 0 |-> << >>]
  <2>1. keep \in [0 .. 0 -> Seq(S)]
    BY EmptySeq
  <2>2. Drains(keep, q, drained, 0)
    BY DEF Drains, Turn
  <2> QED
    BY <2>1, <2>2
<1> HIDE DEF N
<1>3. ASSUME NEW m \in 1 .. N, P(m - 1)
      PROVE  P(m)
  <2>1. PICK keep \in [0 .. m - 1 -> Seq(S)] : Drains(keep, q, drained, m - 1)
    BY <1>3
  <2>2. \A n \in 0 .. m - 1 : keep[n] = Turn(keep, q, drained, n)
    BY <2>1 DEF Drains
  <2>3. m \in Nat /\ m > 0 /\ m - 1 \in 0 .. m - 1 /\ q[m] \in S
    BY <1>1
  <2>4. keep[m - 1] \in Seq(S)
    BY <2>1, <2>3
  <2> DEFINE new == Turn(keep, q, drained, m)
             longer == [n \in 0 .. m |-> IF n = m THEN new ELSE keep[n]]
  <2>5. new \in Seq(S)
    BY <2>3, <2>4, AppendProperties DEF Turn
  <2>6. longer \in [0 .. m -> Seq(S)]
    <3> HIDE DEF new
    <3> QED
      BY <2>1, <2>3, <2>5
  <2>7. \A n \in 0 .. m : longer[n] = Turn(longer, q, drained, n)
    <3> TAKE n \in 0 .. m
    <3>1. CASE n = m
      <4>1. longer[m - 1] = keep[m - 1] /\ longer[m] = new
        BY <2>3
      <4> QED
        BY <2>3, <3>1, <4>1 DEF Turn
    <3>2. CASE n # m
      <4>1. n \in 0 .. m - 1 /\ longer[n] = keep[n]
        BY <2>3, <3>2
      <4>2. n # 0 => n - 1 \in 0 .. m /\ n - 1 # m /\ longer[n - 1] = keep[n - 1]
        BY <2>3, <4>1
      <4> QED
        BY <2>2, <4>1, <4>2 DEF Turn
    <3> QED
      BY <3>1, <3>2
  <2> HIDE DEF longer
  <2>8. longer = [n \in 0 .. m |-> longer[n]]
    BY <2>6
  <2>9. Drains(longer, q, drained, m)
    BY <2>7, <2>8 DEF Drains
  <2> QED
    BY <2>6, <2>9
<1> HIDE DEF P
<1>4. B = {}
  <2>1. 0 \notin B /\ \A m \in 1 .. N : m \in B => m - 1 \in B
    BY <1>1, <1>2, <1>3
  <2> HIDE DEF B
  <2>2. B \in SUBSET (0 .. N)
    BY DEF B
  <2> QED
    BY <1>1, <2>1, <2>2, UpTo
<1>5. P(N)
  BY <1>1, <1>4
<1> QED
  BY <1>5 DEF P, N

\* BOOT loses no command but the drained ones: what is kept of a queue is a
\* queue no longer than it, of its commands, and has each that is not drained.
LEMMA KeptType ==
  ASSUME NEW S, NEW q \in Seq(S), NEW drained
  PROVE  /\ Kept(q, drained) \in Seq(S)
         /\ Len(Kept(q, drained)) <= Len(q)
         /\ \A i \in 1 .. Len(Kept(q, drained)) : Kept(q, drained)[i] \notin drained
         /\ \A i \in 1 .. Len(q) : q[i] \notin drained =>
              \E j \in 1 .. Len(Kept(q, drained)) : Kept(q, drained)[j] = q[i]
<1> DEFINE N == Len(q)
           keep == CHOOSE keep : Drains(keep, q, drained, N)
<1>1. N \in Nat /\ \A i \in 1 .. N : q[i] \in S
  BY LenProperties, ElementOfSeq
<1>2. Drains(keep, q, drained, N)
  BY DrainsExist
<1>3. Kept(q, drained) = keep[N]
  BY DEF Kept, Drains, Turn
<1> HIDE DEF N, keep
<1>4. \A n \in 0 .. N : keep[n] = Turn(keep, q, drained, n)
  BY <1>2 DEF Drains
<1> DEFINE Good(n) ==
             /\ keep[n] \in Seq(S)
             /\ Len(keep[n]) <= n
             /\ \A i \in 1 .. Len(keep[n]) : keep[n][i] \notin drained
             /\ \A i \in 1 .. n : q[i] \notin drained =>
                  \E j \in 1 .. Len(keep[n]) : keep[n][j] = q[i]
           B == {n \in 0 .. N : ~Good(n)}
<1>5. Good(0)
  <2>1. keep[0] = << >>
    BY <1>1, <1>4 DEF Turn
  <2> QED
    BY <2>1, EmptySeq
<1>6. ASSUME NEW n \in 1 .. N, Good(n - 1)
      PROVE  Good(n)
  <2>1. n \in Nat /\ n > 0 /\ n - 1 \in Nat /\ q[n] \in S
    BY <1>1
  <2>2. keep[n] = IF q[n] \in drained THEN keep[n - 1] ELSE Append(keep[n - 1], q[n])
    BY <1>4, <2>1 DEF Turn
  <2>3. \A i \in 1 .. n : i = n \/ i \in 1 .. n - 1
    BY <2>1
  <2> DEFINE k == keep[n - 1]
  <2>4. /\ k \in Seq(S) /\ Len(k) \in Nat /\ Len(k) <= n - 1
        /\ \A i \in 1 .. Len(k) : k[i] \notin drained
        /\ \A i \in 1 .. n - 1 : q[i] \notin drained => \E j \in 1 .. Len(k) : k[j] = q[i]
    BY <1>6, LenProperties
  <2>5. CASE q[n] \in drained
    <3>1. keep[n] = k
      BY <2>2, <2>5
    <3> HIDE DEF k
    <3> QED
      BY <2>1, <2>3, <2>4, <2>5, <3>1
  <2>6. CASE q[n] \notin drained
    <3>1. keep[n] = Append(k, q[n])
      BY <2>2, <2>6
    <3> HIDE DEF k
    <3>2. /\ Append(k, q[n]) \in Seq(S)
          /\ Len(Append(k, q[n])) = Len(k) + 1
          /\ \A i \in 1 .. Len(k) : Append(k, q[n])[i] = k[i]
          /\ Append(k, q[n])[Len(k) + 1] = q[n]
      BY <2>1, <2>4, AppendProperties
    <3>3. \A i \in 1 .. Len(k) + 1 : i \in 1 .. Len(k) \/ i = Len(k) + 1
      BY <2>4
    <3>4. \A i \in 1 .. Len(keep[n]) : keep[n][i] \notin drained
      BY <2>4, <2>6, <3>1, <3>2, <3>3
    <3>5. \A i \in 1 .. n : q[i] \notin drained =>
            \E j \in 1 .. Len(keep[n]) : keep[n][j] = q[i]
      <4> SUFFICES ASSUME NEW i \in 1 .. n, q[i] \notin drained
                   PROVE  \E j \in 1 .. Len(keep[n]) : keep[n][j] = q[i]
        OBVIOUS
      <4>1. \A j \in 1 .. Len(k) : j \in 1 .. Len(k) + 1
        BY <2>4
      <4>2. CASE i = n
        BY <2>4, <3>1, <3>2, <4>2
      <4>3. CASE i \in 1 .. n - 1
        BY <2>4, <3>1, <3>2, <4>1, <4>3
      <4> QED
        BY <2>3, <4>2, <4>3
    <3> QED
      BY <2>1, <2>4, <3>1, <3>2, <3>4, <3>5
  <2> QED
    BY <2>5, <2>6
<1> HIDE DEF Good
<1>7. B = {}
  <2>1. 0 \notin B /\ \A n \in 1 .. N : n \in B => n - 1 \in B
    BY <1>1, <1>5, <1>6
  <2> HIDE DEF B
  <2>2. B \in SUBSET (0 .. N)
    BY DEF B
  <2> QED
    BY <1>1, <2>1, <2>2, UpTo
<1>8. Good(N)
  BY <1>1, <1>7
<1> QED
  BY <1>3, <1>8 DEF Good, N
=============================================================================
