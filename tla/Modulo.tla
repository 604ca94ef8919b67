------------------------------- MODULE Modulo --------------------------------
(***************************************************************************)
(* What the proofs about clocks use of remainders, for any modulus T.      *)
(***************************************************************************)
EXTENDS Integers, TLAPS

LEMMA Division ==
    ASSUME NEW T \in Nat \ {0}, NEW x \in Int
    PROVE  /\ (x % T) \in 0 .. T - 1
           /\ x = (T * (x \div T)) + (x % T)
           /\ (x \div T) \in Int
  OBVIOUS

\* No multiple of T but 0 is nearer to 0 than T.
LEMMA Multiples ==
    ASSUME NEW T \in Nat \ {0}, NEW d \in Int
    PROVE  /\ d >= 1 => T * d >= T
           /\ d <= -1 => T * d <= -T
  OBVIOUS

LEMMA MultiplesLeaveNothing ==
    ASSUME NEW T \in Nat \ {0}, NEW k \in Int
    PROVE  (T * k) % T = 0
<1> DEFINE q == (T * k) \div T
           r == (T * k) % T
<1>1. T * k \in Int
  OBVIOUS
<1>2. r \in 0 .. T - 1 /\ T * k = T * q + r /\ q \in Int
  BY <1>1, Division
<1> HIDE DEF q, r
<1>3. T * (k - q) = r
  BY <1>2
<1>4. k - q \in Int /\ ~(k - q >= 1) /\ ~(k - q <= -1)
  BY <1>2, <1>3, Multiples
<1>5. k - q = 0
  BY <1>4
<1>6. r = 0
  BY <1>3, <1>5
<1>7. QED
  BY <1>6 DEF r

LEMMA ShiftByT ==
    ASSUME NEW T \in Nat \ {0}, NEW x \in Int, x % T = 0
    PROVE  (x + T) % T = 0 /\ (x - T) % T = 0
<1> DEFINE q == x \div T
<1>1. x = T * q /\ q \in Int
  BY Division
<1> HIDE DEF q
<1>2. x + T = T * (q + 1) /\ x - T = T * (q - 1)
  BY <1>1
<1>3. q + 1 \in Int /\ q - 1 \in Int
  BY <1>1
<1>4. QED
  BY <1>2, <1>3, MultiplesLeaveNothing

\* The remainder of a count that goes on by one.
LEMMA CountModulo ==
    ASSUME NEW T \in Nat \ {0}, NEW p \in 0 .. T - 1
    PROVE  (p + 1) % T = IF p + 1 = T THEN 0 ELSE p + 1
<1>1. CASE p + 1 = T
  BY <1>1
<1>2. CASE p + 1 # T
  <2>1. p + 1 \in 0 .. T - 1
    BY <1>2
  <2>2. QED
    BY <1>2, <2>1
<1>3. QED
  BY <1>1, <1>2

\* Numbers have the same remainder when T divides their difference.
LEMMA SameRemainder ==
    ASSUME NEW T \in Nat \ {0}, NEW x \in Int, NEW y \in Int
    PROVE  x % T = y % T <=> (x - y) % T = 0
<1> DEFINE a == x \div T
           b == y \div T
           r == x % T
           s == y % T
<1>1. /\ a \in Int /\ r \in 0 .. T - 1 /\ x = T * a + r
      /\ b \in Int /\ s \in 0 .. T - 1 /\ y = T * b + s
  BY Division
<1>2. x - y = T * (a - b) + (r - s)
  <2> HIDE DEF a, b, r, s
  <2>1. QED
    BY <1>1
<1>3. ASSUME r = s PROVE (x - y) % T = 0
  <2> HIDE DEF a, b, r, s
  <2>1. x - y = T * (a - b) /\ a - b \in Int
    BY <1>1, <1>2, <1>3
  <2>2. QED
    BY <2>1, MultiplesLeaveNothing
<1>4. ASSUME (x - y) % T = 0 PROVE r = s
  <2> DEFINE q == (x - y) \div T
  <2>1. x - y = T * q /\ q \in Int
    BY <1>4, Division
  <2> HIDE DEF a, b, r, s, q
  <2>2. T * (q - (a - b)) = r - s
    BY <1>1, <1>2, <2>1
  <2>3. r - s < T /\ r - s > -T
    BY <1>1
  <2>4. q - (a - b) \in Int
    BY <1>1, <2>1
  <2>5. ~(q - (a - b) >= 1) /\ ~(q - (a - b) <= -1)
    BY <2>2, <2>3, <2>4, Multiples
  <2>6. q - (a - b) = 0
    BY <2>4, <2>5
  <2>7. QED
    BY <1>1, <2>2, <2>6
<1>5. QED
  BY <1>3, <1>4

\* A remainder may stand for its number in a difference.
LEMMA RemainderInDifference ==
    ASSUME NEW T \in Nat \ {0}, NEW x \in Int, NEW y \in Int
    PROVE  /\ ((x % T) - y) % T = (x - y) % T
           /\ (x - (y % T)) % T = (x - y) % T
<1> DEFINE a == x \div T
           b == y \div T
           r == x % T
           s == y % T
<1>1. /\ a \in Int /\ r \in Int /\ x = T * a + r
      /\ b \in Int /\ s \in Int /\ y = T * b + s
  BY Division
<1> HIDE DEF a, b, r, s
<1>2. (r - y) - (x - y) = T * (-a) /\ (x - s) - (x - y) = T * b /\ -a \in Int
  BY <1>1
<1>3. ((r - y) - (x - y)) % T = 0 /\ ((x - s) - (x - y)) % T = 0
  BY <1>1, <1>2, MultiplesLeaveNothing
<1>4. r - y \in Int /\ x - y \in Int /\ x - s \in Int
  BY <1>1
<1>5. (r - y) % T = (x - y) % T /\ (x - s) % T = (x - y) % T
  BY <1>3, <1>4, SameRemainder
<1>6. QED
  BY <1>5 DEF r, s

==============================================================================
