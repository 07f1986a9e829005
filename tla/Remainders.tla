----------------------------- MODULE Remainders -----------------------------
(***************************************************************************)
(* Facts about division by a number that is not known, which the proofs    *)
(* about the circular queue and about the screen rest on.                  *)
(***************************************************************************)
EXTENDS Integers, TLAPS

LEMMA DivMod ==
  ASSUME NEW a \in Int, NEW b \in Nat \ {0}
  PROVE  /\ a \div b \in Int /\ a % b \in 0 .. b - 1
         /\ a = b * (a \div b) + (a % b)
OBVIOUS

\* Multiples of c are c apart.
LEMMA Multiples ==
  ASSUME NEW a \in Int, NEW b \in Int, NEW c \in Nat, a < b
  PROVE  c * a + c <= c * b
<1>1. PICK d \in Nat \ {0} : b = a + d
  <2>1. b - a \in Nat \ {0} /\ b = a + (b - a)
    OBVIOUS
  <2> QED BY <2>1
<1>2. c * d >= c
  OBVIOUS
<1>3. c * b = c * a + c * d
  BY <1>1
<1> QED BY <1>1, <1>2, <1>3

\* A remainder is known by the sum it is part of.
LEMMA Remainder ==
  ASSUME NEW q \in Int, NEW b \in Nat \ {0}, NEW r \in 0 .. b - 1
  PROVE  (b * q + r) % b = r
<1> DEFINE a == b * q + r
           p == a \div b
           s == a % b
<1>1. p \in Int /\ s \in 0 .. b - 1 /\ a = b * p + s
  <2>1. a \in Int
    OBVIOUS
  <2> QED BY <2>1, DivMod
<1>2. b * q + r = b * p + s
  BY <1>1
<1> HIDE DEF p, s
<1> DEFINE x == b * p
           y == b * q
<1>3. x \in Int /\ y \in Int
  BY <1>1
<1>4. ~(p < q)
  <2> SUFFICES ASSUME p < q PROVE FALSE
    OBVIOUS
  <2>1. b * p + b <= b * q
    BY Multiples, <1>1
  <2> HIDE DEF x, y
  <2> QED BY <2>1, <1>1, <1>2, <1>3 DEF x, y
<1>5. ~(q < p)
  <2> SUFFICES ASSUME q < p PROVE FALSE
    OBVIOUS
  <2>1. b * q + b <= b * p
    BY Multiples, <1>1
  <2> HIDE DEF x, y
  <2> QED BY <2>1, <1>1, <1>2, <1>3 DEF x, y
<1>6. p = q
  BY <1>1, <1>4, <1>5
<1>7. s = r
  BY <1>1, <1>2, <1>3, <1>6
<1> QED BY <1>7 DEF s

\* And so is the quotient.
LEMMA Quotient ==
  ASSUME NEW q \in Int, NEW b \in Nat \ {0}, NEW r \in 0 .. b - 1
  PROVE  (b * q + r) \div b = q
<1> DEFINE a == b * q + r
           p == a \div b
<1>1. a \in Int
  OBVIOUS
<1>2. p \in Int /\ a % b = r /\ a = b * p + r
  <2>1. a % b = r
    BY Remainder
  <2>2. p \in Int /\ a = b * p + (a % b)
    BY <1>1, DivMod
  <2> QED BY <2>1, <2>2
<1>3. b * q + r = b * p + r
  BY <1>2
<1> HIDE DEF p
<1>4. b * p \in Int /\ b * q \in Int /\ b * p = b * q
  BY <1>2, <1>3
<1>5. ~(p < q) /\ ~(q < p)
  <2>1. p < q => b * p + b <= b * q
    BY <1>2, Multiples
  <2>2. q < p => b * q + b <= b * p
    BY <1>2, Multiples
  <2> QED BY <2>1, <2>2, <1>4
<1>6. p = q
  BY <1>2, <1>5
<1> QED BY <1>6 DEF p

\* Multiples of the divisor make no difference.
LEMMA AddMultiple ==
  ASSUME NEW a \in Int, NEW b \in Nat \ {0}, NEW q \in Int
  PROVE  (a + b * q) % b = a % b
<1> DEFINE p == a \div b
           r == a % b
<1>1. p \in Int /\ r \in 0 .. b - 1 /\ a = b * p + r
  BY DivMod
<1> HIDE DEF p, r
<1>2. a + b * q = b * (p + q) + r
  <2>1. b * (p + q) = b * p + b * q
    BY <1>1
  <2>2. b * p \in Int /\ b * q \in Int
    BY <1>1
  <2> QED BY <1>1, <2>1, <2>2
<1>3. (b * (p + q) + r) % b = r
  BY <1>1, Remainder
<1> QED BY <1>2, <1>3 DEF r

\* Reducing a term of a sum makes no difference.
LEMMA AddReduced ==
  ASSUME NEW a \in Int, NEW c \in Int, NEW b \in Nat \ {0}
  PROVE  ((a % b) + c) % b = (a + c) % b
<1> DEFINE p == a \div b
           r == a % b
<1>1. p \in Int /\ r \in 0 .. b - 1 /\ a = b * p + r
  BY DivMod
<1> HIDE DEF p, r
<1>2. b * p \in Int /\ r + c \in Int
  BY <1>1
<1>3. (r + c) + b * p = a + c
  BY <1>1, <1>2
<1>4. ((r + c) + b * p) % b = (r + c) % b
  <2> DEFINE t == r + c
  <2>1. t \in Int
    BY <1>2
  <2> HIDE DEF t
  <2>2. (t + b * p) % b = t % b
    BY <1>1, <2>1, AddMultiple
  <2> QED BY <2>2 DEF t
<1> QED BY <1>3, <1>4 DEF r

LEMMA SubtractReduced ==
  ASSUME NEW a \in Int, NEW c \in Int, NEW b \in Nat \ {0}
  PROVE  (c - (a % b)) % b = (c - a) % b
<1> DEFINE p == a \div b
           r == a % b
<1>1. p \in Int /\ r \in 0 .. b - 1 /\ a = b * p + r
  BY DivMod
<1> HIDE DEF p, r
<1>2. b * p \in Int /\ c - a \in Int
  BY <1>1
<1>3. (c - a) + b * p = c - r
  BY <1>1, <1>2
<1>4. ((c - a) + b * p) % b = (c - a) % b
  <2> DEFINE t == c - a
  <2>1. t \in Int
    BY <1>2
  <2> HIDE DEF t
  <2>2. (t + b * p) % b = t % b
    BY <1>1, <2>1, AddMultiple
  <2> QED BY <2>2 DEF t
<1> QED BY <1>3, <1>4 DEF r

LEMMA Small ==
  ASSUME NEW b \in Nat \ {0}, NEW r \in 0 .. b - 1
  PROVE  r % b = r /\ r \div b = 0
<1>1. b * 0 + r = r
  OBVIOUS
<1>2. r % b = r
  BY <1>1, Remainder
<1> DEFINE p == r \div b
<1>3. p \in Int /\ r = b * p + r
  BY DivMod, <1>2
<1>4. p = 0
  <2> HIDE DEF p
  <2>1. b * p \in Int /\ b * p = 0
    BY <1>3
  <2>2. p < 0 => b * p + b <= b * 0
    BY <1>3, Multiples
  <2>3. 0 < p => b * 0 + b <= b * p
    BY <1>3, Multiples
  <2> QED BY <1>3, <2>1, <2>2, <2>3
<1> QED BY <1>2, <1>4

\* One more and one less, away from the ends.
LEMMA NextRemainder ==
  ASSUME NEW a \in Int, NEW b \in Nat \ {0}, a % b # b - 1
  PROVE  (a + 1) % b = (a % b) + 1
<1> DEFINE r == a % b
<1>1. r \in 0 .. b - 1 /\ r # b - 1
  BY DivMod
<1>2. (r + 1) % b = (a + 1) % b
  <2>1. 1 \in Int
    OBVIOUS
  <2> QED BY <2>1, AddReduced
<1> HIDE DEF r
<1>3. r + 1 \in 0 .. b - 1
  BY <1>1
<1>4. (r + 1) % b = r + 1
  BY <1>3, Small
<1> QED BY <1>2, <1>4 DEF r

LEMMA PreviousRemainder ==
  ASSUME NEW a \in Int, NEW b \in Nat \ {0}, a % b # 0
  PROVE  (a - 1) % b = (a % b) - 1
<1> DEFINE r == a % b
<1>1. r \in 0 .. b - 1 /\ r # 0
  BY DivMod
<1>2. (r + (-1)) % b = (a + (-1)) % b
  <2>1. -1 \in Int
    OBVIOUS
  <2> QED BY <2>1, AddReduced
<1> HIDE DEF r
<1>3. r - 1 \in 0 .. b - 1 /\ r + (-1) = r - 1 /\ a + (-1) = a - 1
  BY <1>1
<1>4. (r - 1) % b = r - 1
  BY <1>3, Small
<1> QED BY <1>2, <1>3, <1>4 DEF r

\* Numbers that are less than b apart have different remainders.
LEMMA Distinct ==
  ASSUME NEW a \in Int, NEW b \in Nat \ {0}, NEW d \in 1 .. b - 1
  PROVE  (a + d) % b # a % b
<1> SUFFICES ASSUME (a + d) % b = a % b PROVE FALSE
  OBVIOUS
<1> DEFINE s == a + d
<1>1. s \in Int /\ s - a = d /\ s - s = 0
  OBVIOUS
<1>2. s % b = a % b
  OBVIOUS
<1> HIDE DEF s
<1>3. (s - (a % b)) % b = (s - a) % b
  BY <1>1, SubtractReduced
<1>4. (s - (s % b)) % b = (s - s) % b
  BY <1>1, SubtractReduced
<1>5. d \in 0 .. b - 1 /\ 0 \in 0 .. b - 1
  OBVIOUS
<1>6. d % b = d /\ 0 % b = 0
  BY <1>5, Small
<1> QED BY <1>1, <1>2, <1>3, <1>4, <1>6

=============================================================================
