------------------------------- MODULE NatLemmas -------------------------------
(* Arithmetic of masked positions: offsets in a stream that only grow, and   *)
(* the cells of a ring of N bytes they fall on.  And induction, as a fact    *)
(* about sets, which the provers can instantiate.                            *)
EXTENDS Integers, WellFoundedInduction, TLAPS

LEMMA ModRange == ASSUME NEW N \in Nat, N > 0, NEW a \in Int
                  PROVE  a % N \in 0..(N - 1)
  OBVIOUS

LEMMA DivMod == ASSUME NEW N \in Nat, N > 0, NEW a \in Int
                PROVE  /\ a \div N \in Int
                       /\ a = N * (a \div N) + (a % N)
  OBVIOUS

LEMMA MulGap == ASSUME NEW N \in Nat, N > 0, NEW d \in Int, d >= 1
                PROVE N * d >= N
  OBVIOUS

LEMMA ModUnique == ASSUME NEW N \in Nat, N > 0, NEW q \in Int, NEW r \in 0..(N - 1), NEW a \in Int,
                       a = (N * q) + r
                PROVE a % N = r
<1> DEFINE p == a \div N
           s == a % N
<1>1. p \in Int /\ s \in 0..(N - 1) /\ a = (N * p) + s
  BY DivMod, ModRange
<1> HIDE DEF p, s
<1>2. N * (q - p) = s - r
  BY <1>1
<1>3. q - p \in Int BY <1>1
<1>4. ~(q - p >= 1)
  BY <1>1, <1>2, <1>3, MulGap
<1>5. ~(p - q >= 1)
  <2>1. SUFFICES ASSUME p - q >= 1 PROVE FALSE OBVIOUS
  <2>2. N * (p - q) >= N BY <1>1, <2>1, MulGap
  <2>3. N * (p - q) = r - s BY <1>1
  <2> QED BY <1>1, <2>2, <2>3
<1>6. p = q BY <1>1, <1>4, <1>5
<1> QED BY <1>1, <1>6 DEF s

LEMMA ModSmall == ASSUME NEW N \in Nat, N > 0, NEW a \in Int
                  PROVE /\ a \in 0..(N - 1) => a % N = a
                        /\ a + N \in 0..(N - 1) => a % N = a + N
                        /\ a - N \in 0..(N - 1) => a % N = a - N
<1>1. a = (N * 0) + a /\ a = (N * (-1)) + (a + N) /\ a = (N * 1) + (a - N)
  OBVIOUS
<1>2. a \in 0..(N - 1) => a % N = a
  BY ONLY <1>1, ModUnique, N \in Nat, N > 0, a \in Int, 0 \in Int
<1>3. a + N \in 0..(N - 1) => a % N = a + N
  BY ONLY <1>1, ModUnique, N \in Nat, N > 0, a \in Int, -1 \in Int
<1>4. a - N \in 0..(N - 1) => a % N = a - N
  BY ONLY <1>1, ModUnique, N \in Nat, N > 0, a \in Int, 1 \in Int
<1> QED BY <1>2, <1>3, <1>4

\* Masking twice is masking once: the stored tail may be used for the offset.
LEMMA ModAdd == ASSUME NEW N \in Nat, N > 0, NEW a \in Int, NEW b \in Int
                PROVE ((a % N) + b) % N = (a + b) % N
<1> DEFINE p == a \div N
           s == a % N
           q == (a + b) \div N
           r == (a + b) % N
<1>1. p \in Int /\ s \in 0..(N - 1) /\ a = (N * p) + s
  BY DivMod, ModRange
<1>2. q \in Int /\ r \in 0..(N - 1) /\ a + b = (N * q) + r
  <2>1. a + b \in Int OBVIOUS
  <2> QED BY <2>1, DivMod, ModRange
<1> HIDE DEF p, s, q, r
<1>3. s + b = (N * (q - p)) + r
  BY <1>1, <1>2
<1>4. q - p \in Int /\ s + b \in Int BY <1>1, <1>2
<1>5. (s + b) % N = r
  <2> DEFINE u == q - p
             t == s + b
  <2>1. u \in Int /\ t \in Int /\ r \in 0..(N - 1) /\ t = (N * u) + r
    BY <1>2, <1>3, <1>4
  <2> HIDE DEF u, t
  <2>2. t % N = r
    BY ONLY <2>1, ModUnique, N \in Nat, N > 0
  <2> QED BY <2>2 DEF t
<1> QED BY <1>5 DEF s, r

LEMMA ModSub == ASSUME NEW N \in Nat, N > 0, NEW a \in Int, NEW b \in Int
                PROVE (b - (a % N)) % N = (b - a) % N
<1> DEFINE p == a \div N
           s == a % N
           q == (b - a) \div N
           r == (b - a) % N
           u == q + p
           t == b - s
<1>1. p \in Int /\ s \in 0..(N - 1) /\ a = (N * p) + s
  BY DivMod, ModRange
<1>2. q \in Int /\ r \in 0..(N - 1) /\ b - a = (N * q) + r
  <2>1. b - a \in Int OBVIOUS
  <2> QED BY <2>1, DivMod, ModRange
<1> HIDE DEF p, s, q, r
<1>3. u \in Int /\ t \in Int /\ t = (N * u) + r
  BY <1>1, <1>2
<1> HIDE DEF u, t
<1>4. t % N = r BY ONLY <1>2, <1>3, ModUnique, N \in Nat, N > 0
<1> QED BY <1>4 DEF t, s, r

\* Two offsets less than one ring apart lie in different cells.
LEMMA ModInj == ASSUME NEW N \in Nat, N > 0, NEW a \in Int, NEW b \in Int,
                       a % N = b % N, a - b < N, b - a < N
                PROVE a = b
<1> DEFINE p == a \div N
           q == b \div N
<1>1. p \in Int /\ a = (N * p) + (a % N)  BY DivMod
<1>2. q \in Int /\ b = (N * q) + (b % N)  BY DivMod
<1>3. a % N \in Int BY ModRange
<1> HIDE DEF p, q
<1>4. N * (p - q) = a - b BY <1>1, <1>2, <1>3
<1>5. N * (q - p) = b - a BY <1>1, <1>2, <1>3
<1>6. ~(p - q >= 1)
  <2>1. p - q >= 1 => N * (p - q) >= N BY <1>1, <1>2, MulGap
  <2> QED BY <2>1, <1>4
<1>7. ~(q - p >= 1)
  <2>1. q - p >= 1 => N * (q - p) >= N BY <1>1, <1>2, MulGap
  <2> QED BY <2>1, <1>5
<1>8. p = q BY <1>1, <1>2, <1>6, <1>7
<1> QED BY <1>1, <1>2, <1>8

\* Going n bytes on from the cell of R, with at most one wrap.
LEMMA CellStep == ASSUME NEW N \in Nat, N > 0, NEW R \in Int, NEW n \in 0..N
                  PROVE (R + n) % N = IF (R % N) + n < N THEN (R % N) + n
                                                         ELSE (R % N) + n - N
<1>1. R % N \in 0..(N - 1) BY ModRange
<1>2. ((R % N) + n) % N = (R + n) % N
  <2>1. n \in Int OBVIOUS
  <2> QED BY <2>1, ModAdd
<1>3. (R % N) + n \in Int BY <1>1
<1>4. CASE (R % N) + n < N
  BY <1>1, <1>2, <1>3, <1>4, ModSmall
<1>5. CASE ~((R % N) + n < N)
  <2>1. (R % N) + n - N \in 0..(N - 1) BY <1>1, <1>5
  <2> QED BY <1>2, <1>3, <1>5, <2>1, ModSmall
<1> QED BY <1>4, <1>5

\* A set that has 0 and is closed under successor has every natural number.
LEMMA SetInduction ==
  ASSUME NEW S, 0 \in S, \A n \in Nat : n \in S => n + 1 \in S
  PROVE  Nat \subseteq S
<1> DEFINE T == Nat \ S
           R == OpToRel(<, Nat)
<1>1. SUFFICES ASSUME T # {} PROVE FALSE
  OBVIOUS
<1>2. IsWellFoundedOn(R, Nat)
  BY NatLessThanWellFounded
<1>3. PICK m \in T : \A k \in T : <<k, m>> \notin R
  <2>1. T \subseteq Nat  OBVIOUS
  <2> HIDE DEF T, R
  <2> QED BY <1>1, <1>2, <2>1, WFMin
<1>4. m # 0 /\ m \in Nat
  BY <1>3
<1>5. m - 1 \in T
  <2>1. m - 1 \in Nat /\ (m - 1) + 1 = m
    BY <1>4
  <2>2. m \notin S
    OBVIOUS
  <2> QED BY <2>1, <2>2
<1>6. <<m - 1, m>> \in R
  BY <1>4 DEF OpToRel
<1> QED BY <1>3, <1>5, <1>6
=============================================================================
