----------------------------- MODULE RingProofs -----------------------------
(***************************************************************************)
(* The ring keeps every live sample where its readers look for it, for     *)
(* every capacity and every sequence of batches.                           *)
(***************************************************************************)
EXTENDS IqRing, TLAPS

\* What every step of the writer keeps.
RingInv ==
    /\ counted \in Nat /\ total \in 0..counted
    /\ data \in [Positions -> Int]
    /\ RingTrue

\* A product with a larger factor is larger by at least the other factor.
LEMMA ProductStep ==
    ASSUME NEW c \in Nat, NEW p \in Int, NEW q \in Int, p < q
    PROVE  c * q >= c * p + c
<1>1. PICK d \in Nat : q = p + 1 + d
  <2>1. q - p - 1 \in Nat /\ q = p + 1 + (q - p - 1)
    OBVIOUS
  <2> QED BY <2>1
<1>2. c * q = c * p + c + c * d
  BY <1>1
<1>3. c * d >= 0
  OBVIOUS
<1> QED
  BY <1>2, <1>3

\* Two samples fewer than a capacity apart have different positions.
LEMMA PositionsDiffer ==
    ASSUME NEW i \in Nat, NEW j \in Nat, i < j, j < i + Capacity
    PROVE  i % Capacity # j % Capacity
<1>1. Capacity \in Nat \ {0}
  BY RingAssumption
<1>2. ASSUME NEW x \in Nat
      PROVE  /\ x \div Capacity \in Int /\ x % Capacity \in 0..(Capacity - 1)
             /\ x = Capacity * (x \div Capacity) + (x % Capacity)
  BY <1>1
<1> DEFINE a == i \div Capacity
           b == j \div Capacity
           r == i % Capacity
           s == j % Capacity
<1>3. SUFFICES ASSUME r = s PROVE FALSE
  BY DEF r, s
<1>4. /\ a \in Int /\ b \in Int /\ r \in Int /\ s \in Int
      /\ i = Capacity * a + r /\ j = Capacity * b + s
  BY <1>2
<1> HIDE DEF a, b, r, s
<1>5. CASE a < b
  <2>1. Capacity * b >= Capacity * a + Capacity
    BY <1>1, <1>4, <1>5, ProductStep
  <2>2. /\ Capacity * a \in Int /\ Capacity * b \in Int
    BY <1>1, <1>4
  <2> DEFINE x == Capacity * a
             y == Capacity * b
  <2>3. x \in Int /\ y \in Int /\ y >= x + Capacity /\ i = x + r /\ j = y + s
    BY <2>1, <2>2, <1>4
  <2> HIDE DEF x, y
  <2> QED
    BY <2>3, <1>1, <1>3, <1>4
<1>6. CASE b < a
  <2>1. Capacity * a >= Capacity * b + Capacity
    BY <1>1, <1>4, <1>6, ProductStep
  <2>2. /\ Capacity * a \in Int /\ Capacity * b \in Int
    BY <1>1, <1>4
  <2> DEFINE x == Capacity * a
             y == Capacity * b
  <2>3. x \in Int /\ y \in Int /\ x >= y + Capacity /\ i = x + r /\ j = y + s
    BY <2>1, <2>2, <1>4
  <2> HIDE DEF x, y
  <2> QED
    BY <2>3, <1>1, <1>3, <1>4
<1>7. CASE a = b
  BY <1>3, <1>4, <1>7
<1> QED
  BY <1>4, <1>5, <1>6, <1>7

LEMMA PositionInRing ==
    ASSUME NEW i \in Nat
    PROVE  i % Capacity \in Positions
BY RingAssumption DEF Positions

LEMMA RingInitially ==
    RingInit => RingInv
BY RingAssumption DEF RingInit, RingInv, RingTrue, Oldest, Positions

\* process_sample_buf() keeps the ring true: a batch overwrites only samples
\* that are no longer live.
LEMMA RingStep ==
    ASSUME RingInv, Count \/ iq_ring_append
    PROVE  RingInv'
<1>1. CASE Count
  <2>1. counted' \in Nat /\ counted' >= counted /\ total' = total /\ data' = data
    BY <1>1, RingAssumption DEF Count, RingInv
  <2> QED
    BY <2>1 DEF RingInv, RingTrue, Oldest
<1>2. CASE iq_ring_append
  <2> DEFINE n == counted - total
             k == LesserOf(n, Capacity)
             first == counted - k
             Here(p) == {i \in first..(first + k - 1) : i % Capacity = p}
  <2>1. /\ Capacity \in Nat \ {0} /\ counted \in Nat /\ total \in Nat
        /\ n \in Nat \ {0} /\ total' = counted /\ counted' = counted
        /\ k \in Nat \ {0} /\ k <= Capacity /\ k <= n
        /\ k = n \/ k = Capacity
        /\ first \in Nat
    BY <1>2, RingAssumption DEF RingInv, iq_ring_append, LesserOf
  <2>2. data' = [p \in Positions |->
                   IF Here(p) = {} THEN data[p] ELSE CHOOSE i \in Here(p) : TRUE]
    BY <1>2 DEF iq_ring_append, Stored
  <2>3. \A p : Here(p) # {} => (CHOOSE i \in Here(p) : TRUE) \in Here(p)
    OBVIOUS
  <2>4. \A p : Here(p) \subseteq Nat
    BY <2>1
  <2> HIDE DEF Here
  <2>5. data' \in [Positions -> Int]
    BY <2>2, <2>3, <2>4 DEF RingInv
  <2>6. ASSUME NEW i \in Oldest'..(total' - 1) PROVE data'[i % Capacity] = i
    <3>1. /\ i \in Nat /\ i < counted /\ i >= counted - Capacity
          /\ i >= first \/ i < total
      BY <2>1 DEF Oldest
    <3>2. i % Capacity \in Positions
      BY <3>1, PositionInRing
    <3>3. CASE i >= first
      <4>1. i \in Here(i % Capacity)
        BY <3>1, <3>3, <2>1 DEF Here
      <4>2. ASSUME NEW j \in Here(i % Capacity) PROVE j = i
        <5>1. /\ j \in Nat /\ j >= first /\ j < counted
              /\ j % Capacity = i % Capacity
          BY <2>1 DEF Here
        <5>2. j < i + Capacity /\ i < j + Capacity
          BY <5>1, <3>1, <3>3, <2>1
        <5> QED
          BY <5>1, <5>2, <3>1, PositionsDiffer
      <4> QED
        BY <4>1, <4>2, <2>2, <2>3, <3>2
    <3>4. CASE i < first
      <4>1. Here(i % Capacity) = {}
        <5> SUFFICES ASSUME NEW j \in Here(i % Capacity) PROVE FALSE
          OBVIOUS
        <5>1. /\ j \in Nat /\ j >= first /\ j < counted
              /\ j % Capacity = i % Capacity
          BY <2>1 DEF Here
        <5>2. i < j /\ j < i + Capacity
          BY <5>1, <3>1, <3>4, <2>1
        <5> QED
          BY <5>1, <5>2, <3>1, PositionsDiffer
      <4>2. i \in Oldest..(total - 1)
        BY <3>1, <3>4, <2>1 DEF Oldest
      <4>3. data[i % Capacity] = i
        BY <4>2 DEF RingInv, RingTrue
      <4> QED
        BY <4>1, <4>3, <2>2, <3>2
    <3> QED
      BY <3>1, <3>3, <3>4, <2>1
  <2> QED
    BY <2>1, <2>5, <2>6 DEF RingInv, RingTrue
<1> QED
  BY <1>1, <1>2

\* The window iq_ring_get_window() copies holds the samples asked for.
LEMMA WindowTrue ==
    ASSUME RingInv, NEW from \in Nat, NEW n \in Nat,
           NEW k \in 0..(WindowCount(from, n) - 1)
    PROVE  WindowAt(from, k) = WindowFrom(from) + k
<1>1. Capacity \in Nat \ {0} /\ total \in Nat
  BY RingAssumption DEF RingInv
<1>2. WindowFrom(from) + k \in Oldest..(total - 1)
  BY <1>1 DEF WindowCount, WindowFrom, Oldest, LesserOf
<1> QED
  BY <1>2 DEF RingInv, RingTrue, WindowAt
=============================================================================
