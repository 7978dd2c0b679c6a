-------------------------- MODULE SequenceNumbers --------------------------
(***************************************************************************)
(* Arithmetic of 32-bit sequence numbers, for any even number of them:     *)
(* what streaming.c:186 relies on when it casts a difference of two of     *)
(* them to a signed number.                                                *)
(***************************************************************************)
EXTENDS Integers, TLAPS

\* The remainder is in range, and it is what the quotient leaves.
LEMMA DivMod ==
    ASSUME NEW a \in Int, NEW n \in Nat \ {0}
    PROVE  /\ a % n \in 0 .. n - 1
           /\ a \div n \in Int
           /\ a = n * (a \div n) + (a % n)
OBVIOUS

\* Two numbers less than n apart that differ by a multiple of n are equal.
LEMMA MultipleInWindow ==
    ASSUME NEW n \in Nat \ {0}, NEW k \in Int, NEW r \in Int,
           -n < r, r < n, r = n * k
    PROVE  r = 0
OBVIOUS

\* Packets less than the whole space apart have the same sequence number only
\* if they are the same (streaming.c:185).
LEMMA RemaindersDiffer ==
    ASSUME NEW n \in Nat \ {0}, NEW p \in Int, NEW q \in Int,
           -n < p - q, p - q < n, p % n = q % n
    PROVE  p = q
<1> DEFINE k == (p \div n) - (q \div n)
<1>1. /\ p \div n \in Int /\ p = n * (p \div n) + (p % n)
      /\ q \div n \in Int /\ q = n * (q \div n) + (q % n)
      /\ p % n \in Int
  BY DivMod
<1>2. k \in Int /\ n * k = n * (p \div n) - n * (q \div n)
  BY <1>1
<1>3. p - q = n * k
  BY <1>1, <1>2
<1> HIDE DEF k
<1> QED BY <1>2, <1>3, MultipleInWindow

\* A difference modulo the space read as a signed number.
Signed(d, n, h) == IF d < h THEN d ELSE d - n

\* Taken modulo the space and read as a signed number, the difference of two
\* sequence numbers is the distance of the packets, as long as that is less
\* than half the space.
LEMMA SignedDistance ==
    ASSUME NEW n \in Nat, NEW h \in Nat \ {0}, n = h + h,
           NEW p \in Int, NEW e \in Int, p - e \in -h .. h - 1
    PROVE  Signed(((p % n) - (e % n)) % n, n, h) = p - e
<1> DEFINE wp == p % n
           we == e % n
           d  == (wp - we) % n
           qp == p \div n
           qe == e \div n
           qd == (wp - we) \div n
           k  == qe - qp - qd
<1>1. n \in Nat \ {0}
  OBVIOUS
<1>2. /\ qp \in Int /\ p = n * qp + wp /\ wp \in Int
      /\ qe \in Int /\ e = n * qe + we /\ we \in Int
  <2>1. wp \in 0 .. n - 1 /\ qp \in Int /\ p = n * qp + wp
    BY <1>1, DivMod
  <2>2. we \in 0 .. n - 1 /\ qe \in Int /\ e = n * qe + we
    BY <1>1, DivMod
  <2> HIDE DEF wp, we, qp, qe
  <2> QED BY <1>1, <2>1, <2>2
<1>3. d \in 0 .. n - 1 /\ qd \in Int /\ wp - we = n * qd + d
  <2>1. wp - we \in Int
    BY <1>2
  <2> HIDE DEF wp, we
  <2> QED BY <1>1, <2>1, DivMod
<1>4. d - (p - e) = n * k /\ k \in Int
  <2> HIDE DEF d, wp, we, qp, qe, qd
  <2>1. k \in Int /\ n * k = n * qe - n * qp - n * qd
    BY <1>1, <1>2, <1>3
  <2> HIDE DEF k
  <2> QED BY <2>1, <1>1, <1>2, <1>3
<1> HIDE DEF k, d, wp, we, qp, qe, qd
<1>5. ASSUME p - e >= 0
      PROVE  (IF d < h THEN d ELSE d - n) = p - e
  <2>1. d - (p - e) = 0
    BY <1>1, <1>3, <1>4, <1>5, MultipleInWindow
  <2> QED BY <2>1, <1>1, <1>3
<1>6. ASSUME p - e < 0
      PROVE  (IF d < h THEN d ELSE d - n) = p - e
  <2>1. d - (p - e) - n = n * (k - 1) /\ k - 1 \in Int
    BY <1>1, <1>3, <1>4
  <2>2. d - (p - e) - n = 0
    BY <2>1, <1>1, <1>3, <1>6, MultipleInWindow
  <2> QED BY <2>2, <1>1, <1>3, <1>6
<1>7. (IF d < h THEN d ELSE d - n) = p - e
  BY <1>5, <1>6
<1> QED BY <1>7 DEF Signed, d, wp, we

\* Taken modulo the space, the difference of two counts is what the later one
\* is ahead by, as long as that is less than the whole space
\* (hpsdr-protocol2.c:509).
LEMMA UnsignedDistance ==
    ASSUME NEW n \in Nat \ {0}, NEW p \in Int, NEW e \in Int, p - e \in 0 .. n - 1
    PROVE  ((p % n) - (e % n)) % n = p - e
<1> DEFINE wp == p % n
           we == e % n
           d  == (wp - we) % n
           qp == p \div n
           qe == e \div n
           qd == (wp - we) \div n
           k  == qe - qp - qd
<1>1. /\ qp \in Int /\ p = n * qp + wp /\ wp \in Int
      /\ qe \in Int /\ e = n * qe + we /\ we \in Int
  <2>1. wp \in 0 .. n - 1 /\ qp \in Int /\ p = n * qp + wp
    BY DivMod
  <2>2. we \in 0 .. n - 1 /\ qe \in Int /\ e = n * qe + we
    BY DivMod
  <2> HIDE DEF wp, we, qp, qe
  <2> QED BY <2>1, <2>2
<1>2. d \in 0 .. n - 1 /\ qd \in Int /\ wp - we = n * qd + d
  <2>1. wp - we \in Int
    BY <1>1
  <2> HIDE DEF wp, we
  <2> QED BY <2>1, DivMod
<1> HIDE DEF d, wp, we, qp, qe, qd
<1>3. k \in Int /\ n * k = n * qe - n * qp - n * qd
  BY <1>1, <1>2
<1> HIDE DEF k
<1>4. d - (p - e) = n * k
  BY <1>1, <1>2, <1>3
<1>5. d - (p - e) = 0
  BY <1>2, <1>3, <1>4, MultipleInWindow
<1>6. d = p - e
  BY <1>2, <1>5
<1> QED BY <1>6 DEF d, wp, we
=============================================================================
