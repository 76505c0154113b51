--------------------------- MODULE NaturalLemmas ----------------------------
(***************************************************************************)
(* Facts about natural numbers that the proofs share.  The induction       *)
(* theorems of the library take an operator; here the same is stated of a  *)
(* set, from the least element of a set of natural numbers, and applied to *)
(* what the models compute by recursion or by CHOOSE.                      *)
(***************************************************************************)
EXTENDS Integers, Sequences, FiniteSets, TLAPS, WellFoundedInduction

(* Every set of natural numbers has a least element.                       *)
LEMMA LeastElement ==
  ASSUME NEW T, T \subseteq Nat, T # {}
  PROVE  \E x \in T : \A y \in T : x <= y
<1> DEFINE R == OpToRel(<, Nat)
<1>1. IsWellFoundedOn(R, Nat)
  BY NatLessThanWellFounded
<1>2. \E x \in T : \A y \in T : ~ (<<y, x>> \in R)
  <2> HIDE DEF R
  <2> QED
    BY <1>1, WFMin, Zenon
<1>3. \A x, y \in Nat : <<y, x>> \in R <=> y < x
  BY Zenon DEF OpToRel
<1> HIDE DEF R
<1>4. PICK x \in T : \A y \in T : ~ (<<y, x>> \in R)
  BY <1>2, Zenon
<1>5. \A y \in T : ~ (y < x)
  BY <1>4, <1>3, Zenon
<1> QED
  BY <1>5, x \in Nat

(* A set that holds 0 and the successor of each number in it holds all.    *)
LEMMA Induct ==
  ASSUME NEW S, 0 \in S, \A n \in Nat : n \in S => n + 1 \in S
  PROVE  \A n \in Nat : n \in S
<1> SUFFICES ASSUME Nat \ S # {} PROVE FALSE
  OBVIOUS
<1>1. PICK x \in Nat \ S : \A y \in Nat \ S : x <= y
  BY LeastElement, Zenon
<1>2. x - 1 \in Nat /\ x - 1 \notin Nat \ S
  BY <1>1
<1> QED
  BY <1>1, <1>2

(* Every set of numbers that is not empty and has a bound has a greatest.  *)
LEMMA Greatest ==
  ASSUME NEW n \in Nat, NEW A, A \subseteq 0..n, A # {}
  PROVE  \E x \in A : \A y \in A : y <= x
<1> DEFINE T == {k \in Nat : n - k \in A}
<1>1. PICK a \in A : TRUE
  OBVIOUS
<1>2. n - a \in T
  BY <1>1
<1>3. PICK k \in T : \A j \in T : k <= j
  BY <1>2, LeastElement, Zenon
<1>4. ASSUME NEW y \in A PROVE y <= n - k
  <2>1. y \in Nat /\ n - y \in T
    BY <1>4
  <2>2. k <= n - y
    BY <2>1, <1>3
  <2>3. k \in Nat
    OBVIOUS
  <2> HIDE DEF T
  <2> QED
    BY <2>1, <2>2, <2>3
<1> QED
  BY <1>3, <1>4

(* A place where integers in finitely many places are least.               *)
LEMMA LowestPlace ==
  ASSUME NEW n \in Nat, NEW D, D \subseteq 1..n, D # {},
         NEW f, \A i \in D : f[i] \in Int
  PROVE  \E i \in D : \A j \in D : f[i] <= f[j]
<1> DEFINE S == {m \in Nat : \A E \in SUBSET D : E # {} /\ E \subseteq 1..m =>
                              \E i \in E : \A j \in E : f[i] <= f[j]}
<1>1. 0 \in S
  <2>1. \A E : E \subseteq 1..0 => E = {}
    OBVIOUS
  <2> QED
    BY <2>1
<1>2. ASSUME NEW m \in Nat, m \in S PROVE m + 1 \in S
  <2> SUFFICES ASSUME NEW E \in SUBSET D, E # {}, E \subseteq 1..m + 1
               PROVE  \E i \in E : \A j \in E : f[i] <= f[j]
    OBVIOUS
  <2>1. CASE m + 1 \notin E
    <3>1. E \subseteq 1..m
      BY <2>1
    <3> QED
      BY <3>1, <1>2
  <2>2. CASE E = {m + 1}
    BY <2>2
  <2>3. CASE m + 1 \in E /\ E # {m + 1}
    <3> DEFINE F == E \ {m + 1}
    <3>1. F \in SUBSET D /\ F # {} /\ F \subseteq 1..m
      BY <2>3
    <3>2. PICK i \in F : \A j \in F : f[i] <= f[j]
      BY <3>1, <1>2
    <3>3. f[i] \in Int /\ f[m + 1] \in Int
      BY <3>1, <2>3
    <3>4. CASE f[i] <= f[m + 1]
      BY <3>2, <3>4
    <3>5. CASE f[m + 1] < f[i]
      <4>1. \A j \in F : f[j] \in Int
        BY <3>1
      <4>2. \A j \in F : f[m + 1] <= f[j]
        BY <3>2, <3>3, <3>5, <4>1
      <4> QED
        BY <4>2, <3>3, <2>3
    <3> QED
      BY <3>3, <3>4, <3>5
  <2> QED
    BY <2>1, <2>2, <2>3
<1> HIDE DEF S
<1>3. n \in S
  BY <1>1, <1>2, Induct
<1> QED
  BY <1>3 DEF S

-----------------------------------------------------------------------------
(* Indexes modulo the size of a FIFO, of any size.                         *)
LEMMA ModRange ==
  ASSUME NEW n \in Nat \ {0}, NEW a \in Nat
  PROVE  a % n \in 0..n - 1
  OBVIOUS

(* A number by its quotient and its remainder.                             *)
LEMMA Division ==
  ASSUME NEW n \in Nat \ {0}, NEW a \in Nat
  PROVE  a = n * (a \div n) + (a % n) /\ a \div n \in Nat
  BY SMTT(30)

(* A multiple is not less.                                                 *)
LEMMA Grow ==
  ASSUME NEW n \in Nat \ {0}, NEW d \in Nat \ {0}
  PROVE  n * d >= n
  BY SMTT(30)

(* Quotient and remainder are unique.                                      *)
LEMMA Unique ==
  ASSUME NEW n \in Nat \ {0}, NEW p \in Nat, NEW q \in Nat,
         NEW r \in 0..n - 1, NEW s \in 0..n - 1, n * p + r = n * q + s
  PROVE  p = q /\ r = s
<1>1. n * p \in Nat /\ n * q \in Nat
  BY SMTT(30)
<1>2. ASSUME NEW x \in Nat, NEW y \in Nat, x < y
      PROVE  n * y >= n * x + n
  <2>1. n * (y - x) >= n
    BY <1>2, y - x \in Nat \ {0}, Grow
  <2>2. n * (y - x) = n * y - n * x /\ n * x \in Nat /\ n * y \in Nat
    BY <1>2, SMTT(30)
  <2> QED
    BY <2>1, <2>2
<1>3. ~ p < q
  BY <1>1, <1>2
<1>4. ~ q < p
  BY <1>1, <1>2
<1> QED
  BY <1>1, <1>3, <1>4

(* What is left over determines the remainder.                             *)
LEMMA Remainder ==
  ASSUME NEW n \in Nat \ {0}, NEW q \in Nat, NEW r \in 0..n - 1
  PROVE  (n * q + r) % n = r
<1>1. n * q \in Nat
  BY SMTT(30)
<1> DEFINE a == n * q + r
           m == a % n
           d == a \div n
<1>2. a \in Nat
  BY <1>1
<1> HIDE DEF a
<1>3. a = n * d + m /\ d \in Nat /\ m \in 0..n - 1
  BY <1>2, Division, ModRange
<1> USE DEF a
<1> HIDE DEF m, d
<1>4. m = r
  BY <1>3, Unique
<1> QED
  BY <1>4 DEF m

(* Without a wrap the remainder grows with the number.                     *)
LEMMA Shift ==
  ASSUME NEW n \in Nat \ {0}, NEW a \in Nat, NEW j \in Nat, (a % n) + j < n
  PROVE  (a + j) % n = (a % n) + j
<1> DEFINE q == a \div n
           r == (a % n) + j
<1>1. a = n * q + (a % n) /\ q \in Nat
  BY Division
<1>2. a % n \in 0..n - 1
  BY ModRange
<1>3. r \in 0..n - 1
  BY <1>2
<1>4. n * q \in Nat
  BY <1>1, SMTT(30)
<1>5. a + j = n * q + r
  BY <1>1, <1>2, <1>4
<1> HIDE DEF q, r
<1>6. (a + j) % n = r
  BY <1>1, <1>3, <1>5, Remainder
<1> QED
  BY <1>6 DEF r

(* Two places less than n apart differ.                                    *)
LEMMA Differ ==
  ASSUME NEW n \in Nat \ {0}, NEW a \in Nat, NEW b \in Nat,
         a < b, b - a < n
  PROVE  a % n # b % n
<1> SUFFICES ASSUME a % n = b % n
             PROVE  FALSE
  OBVIOUS
<1> DEFINE p == a \div n
           q == b \div n
           r == a % n
<1>1. a = n * p + r /\ b = n * q + r /\ p \in Nat /\ q \in Nat /\ r \in 0..n - 1
  BY Division, ModRange
<1> HIDE DEF p, q, r
<1>2. n * p \in Nat /\ n * q \in Nat
  BY <1>1, SMTT(30)
<1>3. n * q - n * p \in 1..n - 1
  BY <1>1, <1>2
<1>4. CASE p < q
  <2>1. n * (q - p) >= n
    BY <1>1, <1>4, q - p \in Nat \ {0}, Grow
  <2>2. n * (q - p) = n * q - n * p
    BY <1>1, SMTT(30)
  <2> QED
    BY <1>3, <2>1, <2>2
<1>5. CASE q <= p
  <2>1. n * (p - q) \in Nat /\ n * (p - q) = n * p - n * q
    BY <1>1, <1>5, p - q \in Nat, SMTT(30)
  <2> QED
    BY <1>2, <1>3, <2>1
<1> QED
  BY <1>1, <1>4, <1>5

(* A round of a multiple of n does not show modulo n.                      *)
LEMMA Rounds ==
  ASSUME NEW n \in Nat \ {0}, NEW m \in Nat \ {0}, m % n = 0, NEW a \in Nat,
         NEW j \in Nat
  PROVE  ((a % m) + j) % n = (a + j) % n
<1> DEFINE k == m \div n
           q == a \div m
           b == (a % m) + j
           p == b \div n
           r == b % n
<1>1. m = n * k /\ k \in Nat
  BY Division
<1>2. a = m * q + (a % m) /\ q \in Nat /\ a % m \in Nat
  BY Division, ModRange
<1>3. b \in Nat
  BY <1>2
<1>4. b = n * p + r /\ p \in Nat /\ r \in 0..n - 1
  BY <1>3, Division, ModRange
<1>6. m * q \in Nat
  BY <1>2, SMTT(30)
<1>7. a + j = m * q + b
  BY <1>2, <1>3, <1>6
<1> HIDE DEF k, q, b, p, r
<1>8. m * q = n * (k * q) /\ k * q \in Nat
  BY <1>1, <1>2, SMTT(30)
<1>9. n * (k * q) + n * p = n * (k * q + p) /\ k * q + p \in Nat /\ n * p \in Nat
  BY <1>1, <1>2, <1>4, <1>8, SMTT(30)
<1>11. a + j = n * (k * q + p) + r
  BY <1>4, <1>6, <1>7, <1>8, <1>9
<1>13. (a + j) % n = r
  BY <1>4, <1>9, <1>11, Remainder
<1> QED
  BY <1>13 DEF r, b

(* The same with nothing added.                                            *)
LEMMA WholeRounds ==
  ASSUME NEW n \in Nat \ {0}, NEW m \in Nat \ {0}, m % n = 0, NEW a \in Nat
  PROVE  (a % m) % n = a % n
<1>1. ASSUME NEW j \in Nat
      PROVE  ((a % m) + j) % n = (a + j) % n
  BY m % n = 0, Rounds, Zenon
<1> DEFINE x == a % m
<1>2. \A j \in Nat : (x + j) % n = (a + j) % n
  BY <1>1
<1>3. x \in Nat
  BY ModRange
<1> HIDE DEF x
<1>4. (x + 0) % n = (a + 0) % n
  BY <1>2
<1>5. x + 0 = x /\ a + 0 = a
  BY <1>3
<1>6. x % n = a % n
  BY <1>4, <1>5
<1> QED
  BY <1>6 DEF x

(* A reduced index moves as the index does.                                *)
LEMMA Turn ==
  ASSUME NEW m \in Nat \ {0}, NEW a \in Nat, NEW j \in Nat
  PROVE  ((a % m) + j) % m = (a + j) % m
<1>1. m = m * 1 + 0 /\ 0 \in 0..m - 1
  OBVIOUS
<1>2. m % m = 0
  BY <1>1, Remainder
<1> QED
  BY <1>2, Rounds, Zenon

(* Below twice n there is at most one round.                               *)
LEMMA Wrap ==
  ASSUME NEW n \in Nat \ {0}, NEW a \in Nat, a < 2 * n
  PROVE  (a < n => a % n = a) /\ (~ a < n => a % n = a - n)
<1>1. CASE a < n
  <2>1. a = n * 0 + a /\ a \in 0..n - 1
    BY <1>1
  <2> QED
    BY <2>1, <1>1, Remainder
<1>2. CASE ~ a < n
  <2>1. a = n * 1 + (a - n) /\ a - n \in 0..n - 1
    BY <1>2
  <2> QED
    BY <2>1, <1>2, Remainder
<1> QED
  BY <1>1, <1>2

(* The distance around a ring of n places from the place after len ones    *)
(* that start at h.                                                        *)
LEMMA Distance ==
  ASSUME NEW n \in Nat \ {0}, NEW h \in Nat, NEW len \in 0..n, NEW i \in 1..n
  PROVE  (((h + i - 1) % n) + n - ((h + len) % n)) % n
           = IF i - 1 < len THEN n + (i - 1 - len) ELSE i - 1 - len
<1> DEFINE x == h + i - 1
           y == h + len
           a == x \div n
           b == y \div n
           v == (x % n) + n - (y % n)
           r == IF i - 1 < len THEN n + (i - 1 - len) ELSE i - 1 - len
           q == IF i - 1 < len THEN b - a ELSE (b - a) + 1
<1>1. x \in Nat /\ y \in Nat
  OBVIOUS
<1>2. /\ x = n * a + (x % n) /\ a \in Nat /\ x % n \in 0..n - 1
      /\ y = n * b + (y % n) /\ b \in Nat /\ y % n \in 0..n - 1
  <2> HIDE DEF x, y
  <2> QED
    BY <1>1, Division, ModRange
<1>3. r \in 0..n - 1
  OBVIOUS
<1>4. v \in 1..2 * n - 1
  BY <1>2
<1>5. v = n * q + r
  <2> DEFINE na == n * a
             nb == n * b
             k == x % n
             l == y % n
  <2>1. na \in Nat /\ nb \in Nat
    <3> HIDE DEF a, b
    <3> QED
      BY <1>2, SMTT(30)
  <2>2. n * (b - a) = nb - na /\ n * ((b - a) + 1) = nb - na + n
    <3> HIDE DEF a, b
    <3> QED
      BY <1>2, SMTT(30)
  <2>3. x = na + k /\ y = nb + l /\ k \in Nat /\ l \in Nat
    BY <1>2
  <2>4. v = (x - na) + n - (y - nb)
    <3> HIDE DEF x, y, na, nb, k, l
    <3> QED
      BY <2>1, <2>3, <1>1 DEF k, l
  <2>5. v = (i - 1 - len) + n + (nb - na)
    <3> HIDE DEF v, na, nb
    <3> QED
      BY <2>1, <2>4
  <2>6. n * q = IF i - 1 < len THEN nb - na ELSE nb - na + n
    BY <2>2
  <2> HIDE DEF v, na, nb, q
  <2> QED
    BY <2>1, <2>5, <2>6
<1>6. q \in Nat
  <2>1. q \in Int
    BY <1>2
  <2>2. ~ q <= -1
    <3> SUFFICES ASSUME q <= -1 PROVE FALSE
      OBVIOUS
    <3> HIDE DEF q, r, v
    <3>1. n * (-q) >= n
      BY <2>1, -q \in Nat \ {0}, Grow
    <3>2. n * (-q) = -(n * q) /\ n * q \in Int
      BY <2>1, SMTT(30)
    <3> QED
      BY <1>3, <1>4, <1>5, <3>1, <3>2
  <2> HIDE DEF q
  <2> QED
    BY <2>1, <2>2
<1> HIDE DEF q, r, v
<1>7. v % n = r
  BY <1>3, <1>5, <1>6, Remainder
<1> QED
  BY <1>7 DEF v, r
=============================================================================
