----------------------- MODULE LendResourcePoolProofs -----------------------
(***************************************************************************)
(* What the proofs of the components rest on.                              *)
(*                                                                         *)
(* First induction over the natural numbers and recursion, the decimal     *)
(* arithmetic for every ONE and every length of the year, and sums of      *)
(* sequences and over finite sets.  Induction comes from the pigeonhole    *)
(* fact of the library on finite sets: in a set A that holds 0 and is      *)
(* closed under +1, a missing number would let n |-> n - 1 map the finite  *)
(* set of missing numbers up to it into itself without reaching it.        *)
(* Powers and sums are recursive: that their definitions have solutions    *)
(* comes from the recursion theorem or, over a finite set, from induction  *)
(* on its size, and what holds of all of them by induction too.            *)
(*                                                                         *)
(* Then what each method of a lending pool leaves behind: a well-formed    *)
(* pool whose last update is not in the future, with its vault, its dx     *)
(* supply and its loan shares changed by what the method moves; and, of a  *)
(* pool with no negative rate or book, indices that do not fall and debts  *)
(* changed by what is paid.                                                *)
(***************************************************************************)
EXTENDS LendResourcePool, Sums, FiniteSetsExt, FiniteSetTheorems, TLAPS

-----------------------------------------------------------------------------
(* Induction *)

\* A set of natural numbers that holds 0 and is closed under +1 holds all.
LEMMA SetInduction ==
  ASSUME NEW A \in SUBSET Nat, 0 \in A, \A n \in A : n + 1 \in A
  PROVE  A = Nat
<1>1. SUFFICES ASSUME NEW m \in Nat, m \notin A PROVE FALSE
  OBVIOUS
<1> DEFINE T == (0..m) \ A
           f == [n \in T |-> n - 1]
<1>2. m \in T
  BY <1>1, m \in 0..m
<1>3. \A n \in T : n \in Nat /\ n # 0 /\ n - 1 \in T
  BY <1>1
<1>4. f \in Injection(T, T)
  BY <1>3 DEF Injection, IsInjective
<1>5. IsFiniteSet(T)
  <2>1. IsFiniteSet(0..m)
    BY FS_Interval, 0 \in Int, m \in Int
  <2> QED BY <2>1, FS_Subset, T \in SUBSET (0..m)
<1>6. f \in Surjection(T, T)
  BY <1>4, <1>5, FS_Injection
<1>7. PICK n \in T : n - 1 = m
  BY <1>2, <1>6 DEF Surjection
<1> QED BY <1>7, <1>3

\* A set of natural numbers that holds n when it holds all below n holds all.
LEMMA StrongInduction ==
  ASSUME NEW A \in SUBSET Nat,
         \A n \in Nat : (\A k \in Nat : k < n => k \in A) => n \in A
  PROVE  A = Nat
<1> DEFINE B == {n \in Nat : \A k \in Nat : k < n => k \in A}
<1>1. 0 \in B
  OBVIOUS
<1>2. ASSUME NEW n \in B PROVE n + 1 \in B
  <2>1. n \in A
    OBVIOUS
  <2>2. \A k \in Nat : k < n + 1 => k < n \/ k = n
    OBVIOUS
  <2> QED BY <2>1, <2>2
<1>3. B = Nat
  <2>1. B \in SUBSET Nat
    OBVIOUS
  <2> HIDE DEF B
  <2> QED BY <1>1, <1>2, <2>1, SetInduction
<1> QED BY <1>3

-----------------------------------------------------------------------------
(* Recursion *)

\* H[n][g] is the n-th value of a function whose earlier values are those of g.
Steps(D) == [Nat -> [[Nat -> D] -> D]]

\* A step looks at earlier values only.
LooksBack(H, D) ==
  \A n \in Nat : \A g, h \in [Nat -> D] :
     (\A k \in 0..(n - 1) : g[k] = h[k]) => H[n][g] = H[n][h]

\* g follows H up to m.
Follows(H, D, g, m) == g \in [Nat -> D] /\ \A i \in 0..m : g[i] = H[i][g]

LEMMA FollowedSoFar ==
  ASSUME NEW D, D # {}, NEW H \in Steps(D), LooksBack(H, D)
  PROVE  \A m \in Nat : \E g : Follows(H, D, g, m)
<1> DEFINE A == {m \in Nat : \E g : Follows(H, D, g, m)}
<1>1. ASSUME NEW m \in Nat, NEW g \in [Nat -> D], \A i \in 0..(m - 1) : g[i] = H[i][g]
      PROVE  \E h : Follows(H, D, h, m)
  <2> DEFINE h == [g EXCEPT ![m] = H[m][g]]
  <2>1. h \in [Nat -> D]
    BY DEF Steps
  <2>2. \A k \in 0..(m - 1) : h[k] = g[k]
    OBVIOUS
  <2>3. h[m] = H[m][g]
    OBVIOUS
  <2> HIDE DEF h
  <2>4. ASSUME NEW i \in 0..m PROVE h[i] = H[i][h]
    <3>1. H[i][h] = H[i][g]
      <4>1. i \in Nat /\ \A k \in 0..(i - 1) : h[k] = g[k]
        BY <2>2
      <4> QED BY <4>1, <2>1 DEF LooksBack
    <3>2. CASE i = m
      BY <2>3, <3>1, <3>2
    <3>3. CASE i # m
      <4>1. i \in 0..(m - 1)
        BY <3>3
      <4> QED BY <1>1, <2>2, <3>1, <4>1
    <3> QED BY <3>2, <3>3
  <2> QED BY <2>1, <2>4 DEF Follows
<1>2. 0 \in A
  <2>1. PICK d \in D : TRUE
    OBVIOUS
  <2> DEFINE g == [n \in Nat |-> d]
  <2>2. g \in [Nat -> D] /\ \A i \in 0..(0 - 1) : g[i] = H[i][g]
    OBVIOUS
  <2> HIDE DEF g
  <2> QED BY <1>1, <2>2
<1>3. ASSUME NEW m \in A PROVE m + 1 \in A
  <2>1. PICK g : Follows(H, D, g, m)
    OBVIOUS
  <2>2. g \in [Nat -> D] /\ \A i \in 0..((m + 1) - 1) : g[i] = H[i][g]
    BY <2>1 DEF Follows
  <2> QED BY <1>1, <2>2
<1>4. A = Nat
  <2>1. A \in SUBSET Nat
    OBVIOUS
  <2> HIDE DEF A
  <2> QED BY <1>2, <1>3, <2>1, SetInduction
<1> QED BY <1>4

LEMMA FollowedOneWay ==
  ASSUME NEW D, NEW H \in Steps(D), LooksBack(H, D), NEW m \in Nat, NEW k \in Nat,
         NEW g, NEW h, Follows(H, D, g, m), Follows(H, D, h, k)
  PROVE  \A i \in Nat : i <= m /\ i <= k => g[i] = h[i]
<1> DEFINE A == {i \in Nat : i <= m /\ i <= k => g[i] = h[i]}
<1>1. ASSUME NEW n \in Nat, \A j \in Nat : j < n => j \in A
      PROVE  n \in A
  <2>1. SUFFICES ASSUME n <= m, n <= k PROVE g[n] = h[n]
    OBVIOUS
  <2>2. \A j \in 0..(n - 1) : g[j] = h[j]
    BY <1>1, <2>1
  <2>3. H[n][g] = H[n][h]
    BY <2>2 DEF LooksBack, Follows
  <2> QED BY <2>1, <2>3 DEF Follows
<1>2. A = Nat
  <2>1. A \in SUBSET Nat
    OBVIOUS
  <2> HIDE DEF A
  <2> QED BY <1>1, <2>1, StrongInduction
<1> QED BY <1>2

\* A recursive definition whose steps look back has a solution.
THEOREM RecursionTheorem ==
  ASSUME NEW D, D # {}, NEW H \in Steps(D), LooksBack(H, D)
  PROVE  \E f \in [Nat -> D] : \A n \in Nat : f[n] = H[n][f]
<1> DEFINE G(m) == CHOOSE g : Follows(H, D, g, m)
           F    == [n \in Nat |-> G(n)[n]]
<1>1. \A m \in Nat : Follows(H, D, G(m), m)
  BY FollowedSoFar
<1>2. F \in [Nat -> D]
  BY <1>1 DEF Follows
<1>3. ASSUME NEW n \in Nat PROVE F[n] = H[n][F]
  <2>1. F[n] = G(n)[n]
    OBVIOUS
  <2>2. G(n)[n] = H[n][G(n)] /\ G(n) \in [Nat -> D]
    BY <1>1, SMTT(30) DEF Follows
  <2>3. \A i \in 0..(n - 1) : G(n)[i] = F[i]
    <3> SUFFICES ASSUME NEW i \in 0..(n - 1) PROVE G(n)[i] = G(i)[i]
      OBVIOUS
    <3>1. i \in Nat /\ i <= n /\ i <= i
      OBVIOUS
    <3>2. Follows(H, D, G(n), n) /\ Follows(H, D, G(i), i)
      BY <1>1, <3>1
    <3> HIDE DEF G
    <3> QED BY <3>1, <3>2, FollowedOneWay
  <2>4. H[n][G(n)] = H[n][F]
    <3> HIDE DEF F, G
    <3> QED BY <1>2, <2>2, <2>3 DEF LooksBack
  <2> QED BY <2>1, <2>2, <2>4
<1> HIDE DEF F
<1> QED BY <1>2, <1>3

-----------------------------------------------------------------------------
(* Division, products and quotients *)

\* A truncated quotient is an integer, of the sign of the dividend.
LEMMA TruncType ==
  ASSUME NEW a \in Int, NEW b \in Nat \ {0}
  PROVE  /\ Trunc(a, b) \in Int
         /\ a >= 0 => Trunc(a, b) >= 0
  BY DEF Trunc

LEMMA DMulType ==
  ASSUME NEW a \in Int, NEW b \in Int
  PROVE  DMul(a, b) \in Int
<1>1. a * b \in Int
  OBVIOUS
<1> QED BY <1>1, TruncType, DecimalsAssumption DEF DMul

LEMMA DMulNat ==
  ASSUME NEW a \in Nat, NEW b \in Nat
  PROVE  DMul(a, b) \in Nat
<1>1. a * b \in Nat
  OBVIOUS
<1>2. a * b \in Int /\ a * b >= 0
  BY <1>1
<1> QED BY <1>2, TruncType, DecimalsAssumption DEF DMul

\* A product with a factor of at least ONE is at least the other factor.
LEMMA DMulGrows ==
  ASSUME NEW a \in Nat, NEW c \in Nat, c >= ONE
  PROVE  DMul(a, c) >= a
<1>1. /\ a * ONE \in Nat /\ a * c \in Nat
      /\ a * c >= a * ONE
  BY DecimalsAssumption
<1>2. (a * c) \div ONE >= (a * ONE) \div ONE
  BY <1>1, DecimalsAssumption
<1>3. (a * ONE) \div ONE = a
  BY DecimalsAssumption
<1> QED BY <1>1, <1>2, <1>3 DEF DMul, Trunc

LEMMA DDivType ==
  ASSUME NEW a \in Int, NEW b \in Int, b # 0
  PROVE  DDiv(a, b) \in Int
<1>1. a * ONE \in Int /\ (-a) * ONE \in Int
  BY DecimalsAssumption
<1>2. CASE b > 0
  BY <1>1, <1>2, TruncType DEF DDiv
<1>3. CASE b < 0
  <2>1. -b \in Nat \ {0}
    BY <1>3
  <2> QED BY <1>1, <1>3, <2>1, TruncType DEF DDiv
<1> QED BY <1>2, <1>3

LEMMA AtMostType ==
  ASSUME NEW a \in Int, NEW b \in Int
  PROVE  AtMost(a, b) \in Int /\ AtMost(a, b) <= a /\ AtMost(a, b) <= b
  BY DEF AtMost

\* Rounding down and up: by less than a unit, to a multiple of it.
LEMMA FloorToBounds ==
  ASSUME NEW x \in Int, NEW unit \in Nat \ {0}
  PROVE  /\ FloorTo(x, unit) \in Int
         /\ FloorTo(x, unit) <= x /\ x < FloorTo(x, unit) + unit
         /\ x >= 0 => FloorTo(x, unit) >= 0
<1>1. x % unit \in 0..(unit - 1)
  OBVIOUS
<1>2. x >= 0 => x % unit <= x
  OBVIOUS
<1> QED BY <1>1, <1>2 DEF FloorTo

LEMMA CeilToBounds ==
  ASSUME NEW x \in Int, NEW unit \in Nat \ {0}
  PROVE  /\ CeilTo(x, unit) \in Int
         /\ x <= CeilTo(x, unit) /\ CeilTo(x, unit) < x + unit
<1> DEFINE down == FloorTo(-x, unit)
<1>1. down \in Int /\ down <= -x /\ -x < down + unit
  <2>1. -x \in Int
    OBVIOUS
  <2> QED BY <2>1, FloorToBounds
<1>2. CeilTo(x, unit) = -down
  BY DEF CeilTo
<1> HIDE DEF down
<1> QED BY <1>1, <1>2

LEMMA PercentMulType ==
  ASSUME NEW a \in Int, NEW percent \in Int
  PROVE  PercentMul(a, percent) \in Int
  BY DMulType, TruncType, 100 \in Nat \ {0} DEF PercentMul

\* A larger factor makes no smaller product.
LEMMA TimesMonotone ==
  ASSUME NEW a \in Int, NEW b \in Int, NEW c \in Nat, a <= b
  PROVE  a * c \in Int /\ b * c \in Int /\ a * c <= b * c
<1>1. b - a \in Nat
  OBVIOUS
<1>2. (b - a) * c \in Nat
  BY <1>1
<1>3. (b - a) * c = b * c - a * c
  OBVIOUS
<1> QED BY <1>2, <1>3

LEMMA QuotientMonotone ==
  ASSUME NEW a \in Nat, NEW b \in Nat, NEW n \in Nat \ {0}, a <= b
  PROVE  a \div n \in Nat /\ b \div n \in Nat /\ a \div n <= b \div n
  OBVIOUS

\* So many units can be taken out of a bucket.
LEMMA UnitsTakeable ==
  ASSUME NEW k \in Nat, NEW unit \in Nat \ {0}
  PROVE  Takeable(k * unit, unit)
<1> DEFINE p == k * unit   r == p % unit   d == p \div unit
<1>1. p \in Nat
  OBVIOUS
<1>2. r \in 0..(unit - 1) /\ d \in Int /\ p = unit * d + r
  <2> HIDE DEF p
  <2> QED BY <1>1
<1> HIDE DEF r, d
<1>3. r = (k - d) * unit /\ k - d \in Int
  BY <1>2
<1> DEFINE z == k - d
<1>4. CASE z >= 1
  <2>1. 1 * unit <= z * unit
    BY <1>3, <1>4, TimesMonotone
  <2> QED BY <1>2, <1>3, <2>1
<1>5. CASE z <= 0
  <2>1. z * unit <= 0 * unit
    BY <1>3, <1>5, TimesMonotone
  <2>2. r = 0
    BY <1>2, <1>3, <2>1
  <2> QED BY <1>1, <2>2 DEF Takeable, r
<1> HIDE DEF z
<1> QED BY <1>3, <1>4, <1>5 DEF z

\* What a product of amounts, and a quotient of them, is to the last digit.
LEMMA DMulBounds ==
  ASSUME NEW a \in Nat, NEW b \in Nat
  PROVE  /\ a * b \in Nat /\ DMul(a, b) \in Nat /\ DMul(a, b) * ONE \in Nat
         /\ DMul(a, b) * ONE <= a * b
         /\ a * b < DMul(a, b) * ONE + ONE
<1>1. a * b \in Nat
  OBVIOUS
<1>2. DMul(a, b) = (a * b) \div ONE
  BY <1>1 DEF DMul, Trunc
<1> DEFINE p == a * b
<1>3. p \in Nat /\ DMul(a, b) = p \div ONE
  BY <1>1, <1>2
<1> HIDE DEF p
<1>4. /\ p \div ONE \in Nat /\ (p \div ONE) * ONE \in Nat
      /\ (p \div ONE) * ONE <= p
      /\ p < (p \div ONE) * ONE + ONE
  BY <1>3, DecimalsAssumption
<1> QED BY <1>3, <1>4 DEF p

LEMMA DMulMonotone ==
  ASSUME NEW a \in Nat, NEW b \in Nat, NEW c \in Nat, a <= b
  PROVE  DMul(a, c) <= DMul(b, c)
<1>1. a * c \in Nat /\ b * c \in Nat /\ a * c <= b * c
  BY TimesMonotone
<1>2. DMul(a, c) = (a * c) \div ONE /\ DMul(b, c) = (b * c) \div ONE
  BY <1>1 DEF DMul, Trunc
<1> QED BY <1>1, <1>2, QuotientMonotone, DecimalsAssumption

\* Of decimals that may be negative: it keeps the sign.
LEMMA TruncMonotone ==
  ASSUME NEW a \in Int, NEW b \in Int, NEW n \in Nat \ {0}, a <= b
  PROVE  Trunc(a, n) <= Trunc(b, n)
<1>1. CASE a >= 0
  BY <1>1, QuotientMonotone DEF Trunc
<1>2. CASE a < 0 /\ b >= 0
  <2>1. (-a) \div n \in Nat /\ b \div n \in Nat
    BY <1>2
  <2> QED BY <1>2, <2>1 DEF Trunc
<1>3. CASE a < 0 /\ b < 0
  <2>1. -a \in Nat /\ -b \in Nat /\ -b <= -a
    BY <1>3
  <2>2. (-b) \div n <= (-a) \div n /\ (-b) \div n \in Nat /\ (-a) \div n \in Nat
    BY <2>1, QuotientMonotone
  <2> QED BY <1>3, <2>2 DEF Trunc
<1> QED BY <1>1, <1>2, <1>3

LEMMA DMulOrder ==
  ASSUME NEW a \in Int, NEW b \in Int, NEW c \in Nat, a <= b
  PROVE  DMul(a, c) <= DMul(b, c)
<1>1. a * c \in Int /\ b * c \in Int /\ a * c <= b * c
  BY TimesMonotone
<1> QED BY <1>1, TruncMonotone, DecimalsAssumption DEF DMul

\* Of amounts of the other sign it is the same but for the sign.
LEMMA TruncNegative ==
  ASSUME NEW a \in Int, NEW n \in Nat \ {0}
  PROVE  Trunc(-a, n) = -Trunc(a, n)
<1>1. CASE a = 0
  <2>1. 0 \div n = 0
    OBVIOUS
  <2> QED BY <1>1, <2>1 DEF Trunc
<1>2. CASE a > 0
  <2>1. a \div n \in Int /\ -(-a) = a
    BY <1>2
  <2> QED BY <1>2, <2>1 DEF Trunc
<1>3. CASE a < 0
  <2>1. (-a) \div n \in Int
    BY <1>3
  <2> QED BY <1>3, <2>1 DEF Trunc
<1> QED BY <1>1, <1>2, <1>3

LEMMA DMulNegative ==
  ASSUME NEW a \in Int, NEW p \in Int
  PROVE  DMul(-a, p) = -DMul(a, p)
<1> DEFINE c == a * p
<1>1. c \in Int /\ (-a) * p = -c
  OBVIOUS
<1> HIDE DEF c
<1>2. Trunc(-c, ONE) = -Trunc(c, ONE)
  BY <1>1, TruncNegative, DecimalsAssumption
<1> QED BY <1>1, <1>2 DEF DMul, c

LEMMA DDivNegative ==
  ASSUME NEW a \in Int, NEW p \in Nat \ {0}
  PROVE  DDiv(-a, p) = -DDiv(a, p)
<1> DEFINE c == a * ONE
<1>1. c \in Int /\ (-a) * ONE = -c
  BY DecimalsAssumption
<1> HIDE DEF c
<1>2. Trunc(-c, p) = -Trunc(c, p)
  BY <1>1, TruncNegative
<1> QED BY <1>1, <1>2 DEF DDiv, c

LEMMA DMulCommutes ==
  ASSUME NEW a \in Int, NEW b \in Int
  PROVE  DMul(a, b) = DMul(b, a)
<1>1. a * b = b * a
  OBVIOUS
<1> QED BY <1>1 DEF DMul

LEMMA DMulOne ==
  ASSUME NEW a \in Nat
  PROVE  DMul(a, ONE) = a
<1>1. a * ONE \in Nat /\ (a * ONE) \div ONE = a
  BY DecimalsAssumption
<1> QED BY <1>1 DEF DMul, Trunc

LEMMA DMulZero ==
  ASSUME NEW a \in Int
  PROVE  DMul(0, a) = 0 /\ DMul(a, 0) = 0
<1>1. 0 * a = 0 /\ a * 0 = 0
  OBVIOUS
<1>2. 0 \div ONE = 0
  BY DecimalsAssumption
<1> QED BY <1>1, <1>2 DEF DMul, Trunc

LEMMA DDivBounds ==
  ASSUME NEW a \in Nat, NEW b \in Nat \ {0}
  PROVE  /\ a * ONE \in Nat /\ DDiv(a, b) \in Nat /\ DDiv(a, b) * b \in Nat
         /\ DDiv(a, b) * b <= a * ONE
         /\ a * ONE < DDiv(a, b) * b + b
<1> DEFINE p == a * ONE
<1>1. p \in Nat
  BY DecimalsAssumption
<1>2. DDiv(a, b) = p \div b
  BY <1>1 DEF DDiv, Trunc
<1> HIDE DEF p
<1>3. /\ p \div b \in Nat /\ (p \div b) * b \in Nat
      /\ (p \div b) * b <= p
      /\ p < (p \div b) * b + b
  BY <1>1
<1> QED BY <1>1, <1>2, <1>3 DEF p

\* Adding up two amounts of shares, each is worth its part to the last digit.
LEMMA DMulOfSum ==
  ASSUME NEW a \in Nat, NEW b \in Nat, NEW L \in Nat, NEW x \in Nat
  PROVE  /\ b * L <= x * ONE => DMul(a + b, L) <= DMul(a, L) + x
         /\ DMul(a + b, L) * ONE > DMul(a, L) * ONE + b * L - ONE
<1> DEFINE p == a * L   q == b * L
           m == DMul(a, L)   n == DMul(a + b, L)
           k == m * ONE      l == n * ONE    y == x * ONE
<1>1. /\ p \in Nat /\ q \in Nat /\ (a + b) * L = p + q /\ a + b \in Nat
      /\ y \in Nat /\ ONE \in Nat \ {0}
  BY DecimalsAssumption
<1>2. /\ m \in Nat /\ n \in Nat /\ k \in Nat /\ l \in Nat
      /\ k <= p /\ p < k + ONE
      /\ l <= p + q /\ p + q < l + ONE
  <2>1. /\ DMul(a, L) \in Nat /\ DMul(a, L) * ONE \in Nat
        /\ DMul(a, L) * ONE <= a * L /\ a * L < DMul(a, L) * ONE + ONE
    BY DMulBounds
  <2>2. /\ DMul(a + b, L) \in Nat /\ DMul(a + b, L) * ONE \in Nat
        /\ DMul(a + b, L) * ONE <= (a + b) * L
        /\ (a + b) * L < DMul(a + b, L) * ONE + ONE
    BY <1>1, DMulBounds
  <2>3. (a + b) * L = p + q
    BY <1>1
  <2> QED BY <2>1, <2>2, <2>3
<1>3. l > k + q - ONE
  <2> HIDE DEF p, q, m, n, k, l, y
  <2> QED BY <1>1, <1>2
<1>4. ASSUME q <= y PROVE n <= m + x
  <2>1. l < k + y + ONE
    <3> HIDE DEF p, q, m, n, k, l, y
    <3> QED BY <1>1, <1>2, <1>4
  <2>2. k + y + ONE = (m + x + 1) * ONE /\ m + x + 1 \in Nat
    <3>1. m \in Nat /\ x \in Nat /\ ONE \in Nat
      BY <1>1, <1>2
    <3> HIDE DEF m
    <3> QED BY <3>1
  <2>3. SUFFICES ASSUME n >= m + x + 1 PROVE FALSE
    BY <1>2
  <2>4. (m + x + 1) * ONE <= n * ONE
    BY <1>1, <1>2, <2>2, <2>3, TimesMonotone
  <2>5. k + y + ONE <= l
    BY <2>2, <2>4
  <2> HIDE DEF p, q, m, n, k, l, y
  <2> QED BY <1>1, <1>2, <2>1, <2>5
<1> QED BY <1>3, <1>4

LEMMA TimesCancel ==
  ASSUME NEW a \in Int, NEW b \in Int, NEW c \in Nat \ {0}, a * c < b * c + c
  PROVE  a <= b
<1>1. SUFFICES ASSUME b + 1 <= a PROVE FALSE
  OBVIOUS
<1>2. (b + 1) * c \in Int /\ a * c \in Int /\ (b + 1) * c <= a * c
  BY <1>1, TimesMonotone
<1>3. (b + 1) * c = b * c + c
  OBVIOUS
<1> QED BY <1>2, <1>3

\* A multiple of a unit that is less than d rounded up is at most d.
LEMMA BelowCeil ==
  ASSUME NEW u \in Nat \ {0}, NEW d \in Int, NEW p \in Int, p % u = 0, p < CeilTo(d, u)
  PROVE  p <= d
<1> DEFINE r == (-d) % u   j == (-d) \div u   k == p \div u
<1>1. /\ r \in Nat /\ r < u /\ j \in Int /\ k \in Int
      /\ -d = u * j + r /\ p = u * k
  OBVIOUS
<1>2. CeilTo(d, u) = d + r
  BY DEF CeilTo, FloorTo
<1> HIDE DEF r, j, k
<1>3. SUFFICES ASSUME d < p PROVE FALSE
  BY <1>1
<1>4. u * k < -(u * j)
  BY <1>1, <1>2
<1>5. k * u + u <= (-j) * u
  <2>1. u * k = k * u /\ -(u * j) = (-j) * u /\ -j \in Int
    BY <1>1
  <2>2. SUFFICES k + 1 <= -j
    <3>1. (k + 1) * u <= (-j) * u
      BY <1>1, <2>1, <2>2, TimesMonotone
    <3>2. (k + 1) * u = k * u + u
      BY <1>1
    <3> QED BY <3>1, <3>2
  <2>3. SUFFICES ASSUME -j <= k PROVE FALSE
    BY <1>1
  <2>4. (-j) * u <= k * u
    BY <1>1, <2>1, <2>3, TimesMonotone
  <2> QED BY <1>1, <1>4, <2>1, <2>4
<1>6. u * k = k * u /\ -(u * j) = (-j) * u /\ u * k \in Int /\ u * j \in Int
  BY <1>1
<1> QED BY <1>1, <1>3, <1>5, <1>6
\* Dropping the fraction moves a number by less than 1, towards 0.
LEMMA TruncBounds ==
  ASSUME NEW a \in Int, NEW n \in Nat \ {0}
  PROVE  /\ Trunc(a, n) \in Int /\ Trunc(a, n) * n \in Int
         /\ a < Trunc(a, n) * n + n /\ Trunc(a, n) * n < a + n
         /\ a >= 0 => Trunc(a, n) * n <= a
         /\ a < 0 => a <= Trunc(a, n) * n
<1>1. CASE a >= 0
  <2>1. /\ a \div n \in Int /\ (a \div n) * n \in Int
        /\ (a \div n) * n <= a /\ a < (a \div n) * n + n
    BY <1>1
  <2> QED BY <1>1, <2>1 DEF Trunc
<1>2. CASE a < 0
  <2> DEFINE p == -a   q == p \div n   r == q * n
  <2>1. p \in Nat
    BY <1>2
  <2> HIDE DEF p
  <2>2. /\ q \in Int /\ r \in Int /\ r <= p /\ p < r + n
    BY <2>1
  <2>3. Trunc(a, n) = -q
    BY <1>2 DEF Trunc, p
  <2> HIDE DEF q
  <2>4. (-q) * n = -r
    BY <2>2 DEF r
  <2> QED BY <1>2, <2>2, <2>3, <2>4 DEF p, r
<1> QED BY <1>1, <1>2

\* Taking m times n off takes at most m off the quotient.
LEMMA TruncShift ==
  ASSUME NEW x \in Int, NEW m \in Nat, NEW n \in Nat \ {0}
  PROVE  Trunc(x - m * n, n) >= Trunc(x, n) - m
<1> DEFINE w == m * n   y == x - w   t == Trunc(x, n)   u == Trunc(y, n)
           tn == t * n  un == u * n
<1>1. w \in Nat /\ y \in Int /\ y <= x
  OBVIOUS
<1>2. /\ t \in Int /\ tn \in Int /\ tn < x + n /\ (x >= 0 => tn <= x)
  BY TruncBounds
<1>3. /\ u \in Int /\ un \in Int /\ y < un + n /\ (y < 0 => y <= un)
  <2> HIDE DEF y
  <2> QED BY <1>1, TruncBounds
<1>4. (t - m) * n = tn - w
  BY <1>2
<1>5. y = x - w
  OBVIOUS
<1> HIDE DEF w, y, t, u, tn, un
<1>6. tn - w < un + n
  BY <1>1, <1>2, <1>3, <1>5
<1>7. (t - m) * n < u * n + n /\ t - m \in Int
  BY <1>2, <1>4, <1>6 DEF un
<1>8. t - m <= u
  BY <1>3, <1>7, TimesCancel
<1> QED BY <1>2, <1>3, <1>8 DEF t, u, y, w

\* What is left after removing what an amount is worth, rounded down.
LEMMA DMulLess ==
  ASSUME NEW c \in Int, NEW k \in Int, NEW S \in Nat \ {0}, NEW amount \in Nat,
         k >= c - DDiv(amount, S)
  PROVE  DMul(k, S) >= DMul(c, S) - amount
<1> DEFINE q == DDiv(amount, S)   w == amount * ONE
           kS == k * S   cS == c * S   qS == q * S
<1>1. /\ q \in Nat /\ w \in Nat /\ qS \in Nat /\ qS <= w
  BY DDivBounds
<1>2. kS \in Int /\ cS \in Int /\ ONE \in Nat \ {0}
  BY DecimalsAssumption
<1>3. cS - qS <= kS
  <2>1. c - q <= k /\ c - q \in Int
    BY <1>1
  <2>2. (c - q) * S <= k * S
    BY <2>1, TimesMonotone
  <2>3. (c - q) * S = cS - qS
    BY <1>1
  <2> QED BY <2>2, <2>3
<1> HIDE DEF q, w, kS, cS, qS
<1>4. cS - w <= kS /\ cS - w \in Int
  BY <1>1, <1>2, <1>3
<1>5. Trunc(cS - w, ONE) <= Trunc(kS, ONE)
  BY <1>2, <1>4, TruncMonotone
<1>6. Trunc(cS - w, ONE) >= Trunc(cS, ONE) - amount
  BY <1>2, TruncShift DEF w
<1>7. Trunc(cS - w, ONE) \in Int /\ Trunc(cS, ONE) \in Int /\ Trunc(kS, ONE) \in Int
  BY <1>2, <1>4, TruncType
<1>8. Trunc(kS, ONE) >= Trunc(cS, ONE) - amount
  BY <1>5, <1>6, <1>7
<1> QED BY <1>8 DEF DMul, kS, cS

\* k more shares, worth no more than amount, add no more than it.
LEMMA DMulMore ==
  ASSUME NEW n \in Nat, NEW k \in Int, NEW L \in Nat, NEW amount \in Nat,
         k * L <= amount * ONE
  PROVE  DMul(n + k, L) <= DMul(n, L) + amount
<1>1. CASE k >= 0
  <2>1. k \in Nat
    BY <1>1
  <2> QED BY <2>1, DMulOfSum
<1>2. CASE k < 0
  <2> DEFINE m == n + k
  <2>1. m \in Int /\ m <= n /\ n \in Int /\ L \in Int
    BY <1>2
  <2> HIDE DEF m
  <2>2. DMul(m, L) <= DMul(n, L) /\ DMul(m, L) \in Int /\ DMul(n, L) \in Int
    BY <2>1, DMulOrder, DMulType
  <2> QED BY <2>2 DEF m
<1> QED BY <1>1, <1>2

\* No more than V is worth at the price p.
LEMMA WorthOfQuotient ==
  ASSUME NEW V \in Int, NEW p \in Nat \ {0}, NEW d \in Nat \ {0}, d <= DDiv(V, p)
  PROVE  V > 0 /\ DMul(d, p) <= V
<1>1. DDiv(V, p) \in Int
  BY DDivType
<1>2. V > 0
  <2> SUFFICES ASSUME V <= 0 PROVE FALSE
    OBVIOUS
  <2>1. V * ONE <= 0 * ONE /\ V * ONE \in Int /\ 0 * ONE = 0
    BY DecimalsAssumption, TimesMonotone
  <2>2. Trunc(V * ONE, p) <= Trunc(0, p)
    BY <2>1, TruncMonotone
  <2>3. Trunc(0, p) = 0
    BY DEF Trunc
  <2>4. DDiv(V, p) <= 0
    BY <2>2, <2>3 DEF DDiv
  <2> QED BY <1>1, <2>4
<1>3. /\ DDiv(V, p) * p \in Nat /\ DDiv(V, p) * p <= V * ONE /\ V * ONE \in Nat
  BY <1>2, DDivBounds
<1>4. d * p \in Int /\ d * p <= DDiv(V, p) * p
  BY <1>1, TimesMonotone
<1>5. /\ DMul(d, p) \in Nat /\ DMul(d, p) * ONE \in Nat /\ DMul(d, p) * ONE <= d * p
  BY DMulBounds
<1>6. DMul(d, p) * ONE < V * ONE + ONE
  BY <1>3, <1>4, <1>5, DecimalsAssumption
<1> QED BY <1>2, <1>5, <1>6, DecimalsAssumption, TimesCancel

\* A quotient is at most 1 only if the numerator is at most the denominator, to
\* the last digit.
LEMMA QuotientAtMostOne ==
  ASSUME NEW N \in Int, NEW D \in Nat \ {0}
  PROVE  /\ DDiv(N, D) <= ONE => N * ONE < D * (ONE + 1)
         /\ N <= D => DDiv(N, D) <= ONE
<1> DEFINE p == N * ONE   t == Trunc(p, D)   tD == t * D   oD == ONE * D   w == D * (ONE + 1)
<1>1. /\ p \in Int /\ ONE \in Nat \ {0} /\ oD \in Nat /\ w = oD + D /\ w \in Nat
  BY DecimalsAssumption
<1>2. DDiv(N, D) = t
  BY DEF DDiv
<1> HIDE DEF p, oD, w
<1>3. /\ t \in Int /\ tD \in Int /\ p < tD + D /\ tD < p + D /\ (p >= 0 => tD <= p)
  BY <1>1, TruncBounds
<1> HIDE DEF t
<1>4. ASSUME t <= ONE PROVE p < w
  <2>1. t * D <= ONE * D
    BY <1>1, <1>3, <1>4, TimesMonotone
  <2>2. tD <= oD
    BY <2>1 DEF oD
  <2> QED BY <1>1, <1>3, <2>2
<1>5. ASSUME N <= D PROVE t <= ONE
  <2>1. N * ONE <= D * ONE
    BY <1>1, <1>5, TimesMonotone
  <2>2. D * ONE = ONE * D
    BY <1>1
  <2>3. p <= oD
    BY <2>1, <2>2 DEF p, oD
  <2>4. t * D < ONE * D + D
    <3>1. tD < oD + D
      <4>1. CASE p >= 0
        BY <1>1, <1>3, <2>3, <4>1
      <4>2. CASE p < 0
        BY <1>1, <1>3, <4>2
      <4> QED BY <1>1, <4>1, <4>2
    <3> QED BY <3>1 DEF oD, tD
  <2> QED BY <1>1, <1>3, <2>4, TimesCancel
<1> QED BY <1>2, <1>4, <1>5 DEF p, w

-----------------------------------------------------------------------------
(* Powers *)

Powers == [Int -> Int]

LEMMA Halves ==
  ASSUME NEW n \in Nat, n > 1
  PROVE  /\ n \div 2 \in 0..(n - 1)
         /\ (n - 1) \div 2 \in 0..(n - 1)
         /\ n % 2 \in {0, 1}
  OBVIOUS

LEMMA PowiStepType ==
  ASSUME NEW n \in Nat, NEW g, \A i \in 0..(n - 1) : g[i] \in Powers
  PROVE  PowiStep(g, n) \in Powers
<1>1. SUFFICES ASSUME NEW b \in Int PROVE PowiStep(g, n)[b] \in Int
  BY DEF PowiStep, Powers
<1>2. DMul(b, b) \in Int
  BY DMulType
<1>3. CASE n = 0
  BY <1>3, DecimalsAssumption DEF PowiStep
<1>4. CASE n = 1
  BY <1>4 DEF PowiStep
<1>5. CASE n > 1 /\ n % 2 = 0
  <2>1. g[n \div 2] \in Powers
    BY <1>5, Halves
  <2>2. g[n \div 2][DMul(b, b)] \in Int
    BY <2>1, <1>2 DEF Powers
  <2> QED BY <1>5, <2>2 DEF PowiStep
<1>6. CASE n > 1 /\ n % 2 # 0
  <2>1. g[(n - 1) \div 2] \in Powers
    BY <1>6, Halves
  <2>2. DMul(b, g[(n - 1) \div 2][DMul(b, b)]) \in Int
    BY <2>1, <1>2, DMulType DEF Powers
  <2> QED BY <1>6, <2>2 DEF PowiStep
<1> QED BY <1>3, <1>4, <1>5, <1>6

\* A level of the definition looks at lower levels only.
LEMMA PowiStepCongruent ==
  ASSUME NEW n \in Nat, NEW g, NEW h, \A i \in 0..(n - 1) : g[i] = h[i]
  PROVE  PowiStep(g, n) = PowiStep(h, n)
<1>1. n > 1 => g[n \div 2] = h[n \div 2] /\ g[(n - 1) \div 2] = h[(n - 1) \div 2]
  BY Halves
<1>2. CASE n > 1
  BY <1>1, <1>2 DEF PowiStep
<1>3. CASE n = 0
  BY <1>3 DEF PowiStep
<1>4. CASE n = 1
  BY <1>4 DEF PowiStep
<1> QED BY <1>2, <1>3, <1>4

\* The recursive definition of PowiFcn has a solution, so PowiFcn satisfies it.
LEMMA PowiDef == PowiFcn = [n \in Nat |-> PowiStep(PowiFcn, n)]
<1> DEFINE H == [n \in Nat |-> [g \in [Nat -> Powers] |-> PowiStep(g, n)]]
<1>1. \A n \in Nat, g \in [Nat -> Powers] : H[n][g] = PowiStep(g, n)
  OBVIOUS
<1>2. H \in Steps(Powers)
  <2>1. \A n \in Nat, g \in [Nat -> Powers] : PowiStep(g, n) \in Powers
    <3> TAKE n \in Nat, g \in [Nat -> Powers]
    <3>1. \A i \in 0..(n - 1) : g[i] \in Powers
      OBVIOUS
    <3> QED BY <3>1, PowiStepType
  <2> QED BY <2>1 DEF Steps
<1> HIDE DEF H
<1>3. LooksBack(H, Powers)
  <2> SUFFICES ASSUME NEW n \in Nat, NEW g \in [Nat -> Powers], NEW h \in [Nat -> Powers],
                      \A k \in 0..(n - 1) : g[k] = h[k]
               PROVE  H[n][g] = H[n][h]
    BY DEF LooksBack
  <2>1. PowiStep(g, n) = PowiStep(h, n)
    BY PowiStepCongruent
  <2> QED BY <1>1, <2>1
<1>4. Powers # {}
  <2>1. [b \in Int |-> b] \in Powers
    BY DEF Powers
  <2> QED BY <2>1
<1>5. PICK f \in [Nat -> Powers] : \A n \in Nat : f[n] = H[n][f]
  BY <1>2, <1>3, <1>4, RecursionTheorem
<1>6. f = [n \in Nat |-> PowiStep(f, n)]
  <2>1. \A n \in Nat : f[n] = PowiStep(f, n)
    BY <1>1, <1>5
  <2>2. f = [n \in Nat |-> f[n]]
    OBVIOUS
  <2> QED BY <2>1, <2>2
<1>7. PowiFcn = CHOOSE g : g = [n \in Nat |-> PowiStep(g, n)]
  BY DEF PowiFcn
<1> QED BY <1>6, <1>7

\* Every power of a decimal is a decimal.
THEOREM PowiType == \A n \in Nat, b \in Int : Powi(b, n) \in Int
<1> DEFINE A == {n \in Nat : PowiFcn[n] \in Powers}
<1>1. ASSUME NEW n \in Nat, \A j \in Nat : j < n => j \in A PROVE n \in A
  <2>1. PowiFcn[n] = PowiStep(PowiFcn, n)
    BY PowiDef
  <2>2. \A j \in 0..(n - 1) : PowiFcn[j] \in Powers
    BY <1>1
  <2> QED BY <2>1, <2>2, PowiStepType
<1>2. A = Nat
  <2>1. A \in SUBSET Nat
    OBVIOUS
  <2> HIDE DEF A
  <2> QED BY <1>1, <2>1, StrongInduction
<1> QED BY <1>2 DEF Powi, Powers

\* A power of what is at least 1 is at least 1: compound interest at a rate of
\* 0 or more never lowers a debt.
THEOREM PowiGrows == \A n \in Nat, b \in Nat : b >= ONE => Powi(b, n) >= ONE
<1> DEFINE Large == {b \in Nat : b >= ONE}
           A == {n \in Nat : \A b \in Large : PowiFcn[n][b] \in Large}
<1>1. ASSUME NEW n \in Nat, \A j \in Nat : j < n => j \in A PROVE n \in A
  <2>1. SUFFICES ASSUME NEW b \in Large PROVE PowiFcn[n][b] \in Large
    OBVIOUS
  <2>2. PowiFcn[n][b] = PowiStep(PowiFcn, n)[b]
    BY PowiDef
  <2>3. DMul(b, b) \in Large
    BY DMulNat, DMulGrows, DecimalsAssumption
  <2>4. CASE n = 0
    BY <2>2, <2>4, DecimalsAssumption DEF PowiStep
  <2>5. CASE n = 1
    BY <2>2, <2>5 DEF PowiStep
  <2>6. CASE n > 1 /\ n % 2 = 0
    <3>1. PowiFcn[n \div 2][DMul(b, b)] \in Large
      BY <1>1, <2>3, <2>6, Halves
    <3>2. PowiStep(PowiFcn, n)[b] = PowiFcn[n \div 2][DMul(b, b)]
      BY <2>6 DEF PowiStep
    <3> QED BY <2>2, <3>1, <3>2
  <2>7. CASE n > 1 /\ n % 2 # 0
    <3>1. PowiFcn[(n - 1) \div 2][DMul(b, b)] \in Large
      BY <1>1, <2>3, <2>7, Halves
    <3>2. DMul(b, PowiFcn[(n - 1) \div 2][DMul(b, b)]) \in Large
      BY <3>1, DMulNat, DMulGrows, DecimalsAssumption
    <3>3. PowiStep(PowiFcn, n)[b] = DMul(b, PowiFcn[(n - 1) \div 2][DMul(b, b)])
      BY <2>7 DEF PowiStep
    <3> QED BY <2>2, <3>2, <3>3
  <2> QED BY <2>4, <2>5, <2>6, <2>7
<1>2. A = Nat
  <2>1. A \in SUBSET Nat
    OBVIOUS
  <2> HIDE DEF A
  <2> QED BY <1>1, <2>1, StrongInduction
<1> QED BY <1>2 DEF Powi


\* A power of what is not negative is not negative.
LEMMA PowiNat == \A n \in Nat, b \in Nat : Powi(b, n) \in Nat
<1> DEFINE A == {n \in Nat : \A b \in Nat : PowiFcn[n][b] \in Nat}
<1>1. ASSUME NEW n \in Nat, \A j \in Nat : j < n => j \in A PROVE n \in A
  <2>1. SUFFICES ASSUME NEW b \in Nat PROVE PowiFcn[n][b] \in Nat
    OBVIOUS
  <2>2. PowiFcn[n][b] = PowiStep(PowiFcn, n)[b]
    BY PowiDef
  <2>3. DMul(b, b) \in Nat
    BY DMulNat
  <2>4. CASE n = 0
    BY <2>2, <2>4, DecimalsAssumption DEF PowiStep
  <2>5. CASE n = 1
    BY <2>2, <2>5 DEF PowiStep
  <2>6. CASE n > 1 /\ n % 2 = 0
    <3>1. PowiFcn[n \div 2][DMul(b, b)] \in Nat
      BY <1>1, <2>3, <2>6, Halves
    <3>2. PowiStep(PowiFcn, n)[b] = PowiFcn[n \div 2][DMul(b, b)]
      BY <2>6 DEF PowiStep
    <3> QED BY <2>2, <3>1, <3>2
  <2>7. CASE n > 1 /\ n % 2 # 0
    <3>1. PowiFcn[(n - 1) \div 2][DMul(b, b)] \in Nat
      BY <1>1, <2>3, <2>7, Halves
    <3>2. DMul(b, PowiFcn[(n - 1) \div 2][DMul(b, b)]) \in Nat
      BY <3>1, DMulNat
    <3>3. PowiStep(PowiFcn, n)[b] = DMul(b, PowiFcn[(n - 1) \div 2][DMul(b, b)])
      BY <2>7 DEF PowiStep
    <3> QED BY <2>2, <3>2, <3>3
  <2> QED BY <2>4, <2>5, <2>6, <2>7
<1>2. A = Nat
  <2>1. A \in SUBSET Nat
    OBVIOUS
  <2> HIDE DEF A
  <2> QED BY <1>1, <2>1, StrongInduction
<1> QED BY <1>2 DEF Powi

LEMMA PowiZero == \A b \in Int : Powi(b, 0) = ONE
<1> TAKE b \in Int
<1>1. PowiFcn[0] = PowiStep(PowiFcn, 0)
  BY PowiDef
<1> QED BY <1>1 DEF Powi, PowiStep

-----------------------------------------------------------------------------
(* Sums: how the sum of a sequence changes with an element *)

Totals == [Seq(Int) -> Int]

LEMMA SumStepType ==
  ASSUME NEW n \in Nat, NEW g, n > 0 => g[n - 1] \in Totals
  PROVE  SumStep(g, n) \in Totals
<1> SUFFICES ASSUME NEW s \in Seq(Int) PROVE SumStep(g, n)[s] \in Int
  BY DEF SumStep, Totals
<1>1. CASE n = 0 \/ n > Len(s)
  BY <1>1 DEF SumStep
<1>2. CASE ~(n = 0 \/ n > Len(s))
  <2>1. s[n] \in Int
    BY <1>2
  <2>2. g[n - 1][s] \in Int
    BY <1>2 DEF Totals
  <2> QED BY <1>2, <2>1, <2>2 DEF SumStep
<1> QED BY <1>1, <1>2

\* The recursive definition of SumFcn has a solution, so SumFcn satisfies it.
LEMMA SumDef == SumFcn = [n \in Nat |-> SumStep(SumFcn, n)]
<1> DEFINE H == [n \in Nat |-> [g \in [Nat -> Totals] |-> SumStep(g, n)]]
<1>1. \A n \in Nat, g \in [Nat -> Totals] : H[n][g] = SumStep(g, n)
  OBVIOUS
<1>2. H \in Steps(Totals)
  <2>1. \A n \in Nat, g \in [Nat -> Totals] : SumStep(g, n) \in Totals
    BY SumStepType
  <2> QED BY <2>1 DEF Steps
<1> HIDE DEF H
<1>3. LooksBack(H, Totals)
  <2> SUFFICES ASSUME NEW n \in Nat, NEW g \in [Nat -> Totals], NEW h \in [Nat -> Totals],
                      \A k \in 0..(n - 1) : g[k] = h[k]
               PROVE  H[n][g] = H[n][h]
    BY DEF LooksBack
  <2>1. n > 0 => g[n - 1] = h[n - 1]
    OBVIOUS
  <2>2. SumStep(g, n) = SumStep(h, n)
    BY <2>1 DEF SumStep
  <2> QED BY <1>1, <2>2
<1>4. Totals # {}
  <2>1. [s \in Seq(Int) |-> 0] \in Totals
    BY DEF Totals
  <2> QED BY <2>1
<1>5. PICK f \in [Nat -> Totals] : \A n \in Nat : f[n] = H[n][f]
  BY <1>2, <1>3, <1>4, RecursionTheorem
<1>6. f = [n \in Nat |-> SumStep(f, n)]
  <2>1. \A n \in Nat : f[n] = SumStep(f, n)
    BY <1>1, <1>5
  <2>2. f = [n \in Nat |-> f[n]]
    OBVIOUS
  <2> QED BY <2>1, <2>2
<1>7. SumFcn = CHOOSE g : g = [n \in Nat |-> SumStep(g, n)]
  BY DEF SumFcn
<1> QED BY <1>6, <1>7

\* A prefix of s is summed element by element.
LEMMA SumPrefix ==
  ASSUME NEW s \in Seq(Int)
  PROVE  /\ SumFcn[0][s] = 0
         /\ \A n \in 1..Len(s) : SumFcn[n][s] = SumFcn[n - 1][s] + s[n]
<1> HIDE DEF SumFcn
<1>1. SumFcn[0][s] = 0
  <2>1. SumFcn[0] = SumStep(SumFcn, 0)
    BY SumDef
  <2>2. SumStep(SumFcn, 0)[s] = 0
    BY DEF SumStep
  <2> QED BY <2>1, <2>2
<1>2. ASSUME NEW n \in 1..Len(s)
      PROVE  SumFcn[n][s] = SumFcn[n - 1][s] + s[n]
  <2> n \in Nat
    OBVIOUS
  <2>1. SumFcn[n] = SumStep(SumFcn, n)
    BY SumDef
  <2> QED BY <2>1 DEF SumStep
<1> QED BY <1>1, <1>2

LEMMA SumFcnType ==
  ASSUME NEW s \in Seq(Int)
  PROVE  \A n \in 0..Len(s) : SumFcn[n][s] \in Int
<1> DEFINE A == {n \in Nat : n <= Len(s) => SumFcn[n][s] \in Int}
<1>1. 0 \in A
  BY SumPrefix
<1>2. ASSUME NEW n \in A PROVE n + 1 \in A
  <2> SUFFICES ASSUME n + 1 <= Len(s) PROVE SumFcn[n + 1][s] \in Int
    OBVIOUS
  <2>1. n + 1 \in 1..Len(s) /\ s[n + 1] \in Int /\ SumFcn[n][s] \in Int
    OBVIOUS
  <2>2. SumFcn[n + 1][s] = SumFcn[(n + 1) - 1][s] + s[n + 1]
    BY <2>1, SumPrefix
  <2> QED BY <2>1, <2>2
<1>3. A = Nat
  <2>1. A \in SUBSET Nat
    OBVIOUS
  <2> HIDE DEF A
  <2> QED BY <1>1, <1>2, <2>1, SetInduction
<1> QED BY <1>3

\* A sum is an integer, and the sum of nothing is 0.
LEMMA SumType ==
  ASSUME NEW s \in Seq(Int)
  PROVE  Sum(s) \in Int /\ (Len(s) = 0 => Sum(s) = 0)
<1>1. Len(s) \in 0..Len(s)
  OBVIOUS
<1> QED BY <1>1, SumFcnType, SumPrefix DEF Sum

\* Two sequences that differ at i alone: their sums differ by as much.
LEMMA SumDifference ==
  ASSUME NEW s \in Seq(Int), NEW r \in Seq(Int), NEW i \in Nat,
         NEW m \in Nat, m <= Len(s), m <= Len(r),
         \A j \in 1..m : j # i => r[j] = s[j]
  PROVE  /\ i \in 1..m => SumFcn[m][r] = SumFcn[m][s] - s[i] + r[i]
         /\ i \notin 1..m => SumFcn[m][r] = SumFcn[m][s]
<1>0. Len(s) \in Nat /\ Len(r) \in Nat
  OBVIOUS
<1> DEFINE Differ(n) == /\ i \in 1..n => SumFcn[n][r] = SumFcn[n][s] - s[i] + r[i]
                        /\ i \notin 1..n => SumFcn[n][r] = SumFcn[n][s]
<1>1. Differ(0)
  BY SumPrefix
<1> HIDE DEF Differ
<1>2. ASSUME NEW n \in Nat, n + 1 <= m, Differ(n) PROVE Differ(n + 1)
  <2>1. n \in Nat /\ n + 1 \in 1..Len(s) /\ n + 1 \in 1..Len(r) /\ n + 1 \in 1..m
    BY <1>0, <1>2
  <2>2. /\ SumFcn[n + 1][s] = SumFcn[n][s] + s[n + 1]
        /\ SumFcn[n + 1][r] = SumFcn[n][r] + r[n + 1]
    <3>1. (n + 1) - 1 = n
      BY <2>1
    <3> QED BY <2>1, <3>1, SumPrefix
  <2>3. n \in 0..Len(s) /\ n \in 0..Len(r)
    BY <1>0, <1>2
  <2>4. /\ SumFcn[n][s] \in Int /\ SumFcn[n][r] \in Int
        /\ s[n + 1] \in Int /\ r[n + 1] \in Int
    <3>1. SumFcn[n][s] \in Int
      BY <2>3, SumFcnType
    <3>2. SumFcn[n][r] \in Int
      BY <2>3, SumFcnType
    <3>3. s[n + 1] \in Int
      BY <2>1
    <3>4. r[n + 1] \in Int
      BY <2>1
    <3> QED BY <3>1, <3>2, <3>3, <3>4
  <2>5. Differ(n)
    BY <1>2
  <2>6. CASE n + 1 = i
    <3>1. i \notin 1..n /\ i \in 1..(n + 1)
      BY ONLY <2>1, <2>6
    <3>2. SumFcn[n][r] = SumFcn[n][s]
      BY <2>5, <3>1 DEF Differ
    <3>3. SumFcn[n + 1][r] = SumFcn[n + 1][s] - s[i] + r[i]
      <4> DEFINE sum == SumFcn[n][s]   sumS == SumFcn[n + 1][s]   sumR == SumFcn[n + 1][r]
                 old == s[i]           new  == r[i]
      <4>1. /\ sum \in Int /\ old \in Int /\ new \in Int
            /\ sumS = sum + old /\ sumR = sum + new
        BY <2>2, <2>4, <2>6, <3>2
      <4> HIDE DEF sum, sumS, sumR, old, new
      <4>2. sumR = sumS - old + new
        BY <4>1
      <4> QED BY <4>2 DEF sumS, sumR, old, new
    <3> QED BY <3>1, <3>3 DEF Differ
  <2>7. CASE n + 1 # i
    <3>1. r[n + 1] = s[n + 1]
      BY <2>1, <2>7
    <3>2. i \in 1..(n + 1) <=> i \in 1..n
      BY <2>1, <2>7
    <3>3. i \in 1..n => s[i] \in Int /\ r[i] \in Int
      BY <2>3
    <3>4. CASE i \in 1..n
      <4>1. SumFcn[n][r] = SumFcn[n][s] - s[i] + r[i]
        BY <2>5, <3>4 DEF Differ
      <4>2. SumFcn[n + 1][r] = SumFcn[n + 1][s] - s[i] + r[i]
        <5> DEFINE sumS == SumFcn[n][s]    sumS1 == SumFcn[n + 1][s]
                   sumR == SumFcn[n][r]    sumR1 == SumFcn[n + 1][r]
                   old  == s[i]            new   == r[i]
                   next == s[n + 1]
        <5>1. sumS \in Int /\ sumR \in Int /\ old \in Int /\ new \in Int /\ next \in Int
          BY <2>4, <3>3, <3>4
        <5>2. sumR1 = sumR + next /\ sumS1 = sumS + next /\ sumR = sumS - old + new
          BY <2>2, <3>1, <4>1
        <5> HIDE DEF sumS, sumS1, sumR, sumR1, old, new, next
        <5>3. sumR1 = sumS1 - old + new
          BY <5>1, <5>2
        <5> QED BY <5>3 DEF sumS1, sumR1, old, new
      <4> QED BY <3>2, <3>4, <4>2 DEF Differ
    <3>5. CASE i \notin 1..n
      <4>1. SumFcn[n][r] = SumFcn[n][s]
        BY <2>5, <3>5 DEF Differ
      <4>2. SumFcn[n + 1][r] = SumFcn[n + 1][s]
        BY <2>2, <3>1, <4>1
      <4> QED BY <3>2, <3>5, <4>2 DEF Differ
    <3> QED BY <3>4, <3>5
  <2> QED BY <2>6, <2>7
<1> DEFINE A == {n \in Nat : n <= m => Differ(n)}
<1>3. 0 \in A
  BY <1>1
<1>4. ASSUME NEW n \in A PROVE n + 1 \in A
  <2>1. n \in Nat /\ n + 1 \in Nat /\ (n + 1 <= m => n <= m)
    OBVIOUS
  <2>2. n <= m => Differ(n)
    OBVIOUS
  <2> QED BY <1>2, <2>1, <2>2
<1>5. A = Nat
  <2>1. A \in SUBSET Nat
    OBVIOUS
  <2> HIDE DEF A
  <2> QED BY <1>3, <1>4, <2>1, SetInduction
<1> QED BY <1>5, SMTT(30) DEF Differ

\* One element more adds itself to the sum.
LEMMA SumOfOneMore ==
  ASSUME NEW s \in Seq(Int), NEW r \in Seq(Int), Len(r) = Len(s) + 1,
         \A j \in 1..Len(s) : r[j] = s[j]
  PROVE  Sum(r) = Sum(s) + r[Len(r)]
<1> DEFINE n == Len(s)
<1>1. n \in Nat /\ n + 1 \in 1..Len(r) /\ n <= Len(s) /\ n <= Len(r)
  OBVIOUS
<1>2. SumFcn[n + 1][r] = SumFcn[(n + 1) - 1][r] + r[n + 1]
  BY <1>1, SumPrefix
<1>3. SumFcn[n][r] = SumFcn[n][s]
  <2>1. 0 \in Nat /\ 0 \notin 1..n /\ \A j \in 1..n : j # 0 => r[j] = s[j]
    OBVIOUS
  <2> HIDE DEF n
  <2> QED BY <1>1, <2>1, SumDifference, SMTT(30)
<1>4. (n + 1) - 1 = n
  OBVIOUS
<1> QED BY <1>2, <1>3, <1>4 DEF Sum

\* An element changed changes the sum by as much.
LEMMA SumOfOneChanged ==
  ASSUME NEW s \in Seq(Int), NEW r \in Seq(Int), Len(r) = Len(s), NEW i \in 1..Len(s),
         \A j \in 1..Len(s) : j # i => r[j] = s[j]
  PROVE  Sum(r) = Sum(s) - s[i] + r[i]
<1> DEFINE n == Len(s)
<1>1. n \in Nat /\ i \in Nat /\ n <= Len(s) /\ n <= Len(r) /\ i \in 1..n
  OBVIOUS
<1>2. SumFcn[n][r] = SumFcn[n][s] - s[i] + r[i]
  <2>1. \A j \in 1..n : j # i => r[j] = s[j]
    OBVIOUS
  <2> HIDE DEF n
  <2> QED BY <1>1, <2>1, SumDifference
<1> QED BY <1>2 DEF Sum

\* A sum of what is not negative is not negative.
LEMMA SumNat ==
  ASSUME NEW s \in Seq(Int), \A j \in 1..Len(s) : s[j] >= 0
  PROVE  Sum(s) >= 0
<1> DEFINE A == {n \in Nat : n <= Len(s) => SumFcn[n][s] >= 0}
<1>0. Len(s) \in Nat
  OBVIOUS
<1>1. 0 \in A
  BY SumPrefix
<1>2. ASSUME NEW n \in A PROVE n + 1 \in A
  <2> SUFFICES ASSUME n + 1 <= Len(s) PROVE SumFcn[n + 1][s] >= 0
    OBVIOUS
  <2>1. n \in Nat /\ n + 1 \in 1..Len(s) /\ n \in 0..Len(s) /\ n <= Len(s)
    BY <1>0
  <2>2. SumFcn[n + 1][s] = SumFcn[(n + 1) - 1][s] + s[n + 1]
    BY <2>1, SumPrefix
  <2>3. SumFcn[n][s] \in Int
    BY <2>1, SumFcnType
  <2>4. SumFcn[n][s] >= 0 /\ s[n + 1] >= 0 /\ s[n + 1] \in Int
    BY <2>1
  <2>5. (n + 1) - 1 = n
    BY <2>1
  <2> QED BY <2>2, <2>3, <2>4, <2>5
<1>3. A = Nat
  <2>1. A \in SUBSET Nat
    OBVIOUS
  <2> HIDE DEF A
  <2> QED BY <1>1, <1>2, <2>1, SetInduction
<1> QED BY <1>0, <1>3 DEF Sum

\* No element of a sequence without negative ones exceeds its sum.
LEMMA SumElement ==
  ASSUME NEW s \in Seq(Int), \A j \in 1..Len(s) : s[j] >= 0, NEW i \in 1..Len(s)
  PROVE  s[i] <= Sum(s)
<1> DEFINE r == [s EXCEPT ![i] = 0]
<1>1. r \in Seq(Int) /\ Len(r) = Len(s) /\ \A j \in 1..Len(s) : r[j] = IF j = i THEN 0 ELSE s[j]
  OBVIOUS
<1> HIDE DEF r
<1>2. Sum(r) = Sum(s) - s[i] + 0
  BY <1>1, SumOfOneChanged
<1>3. Sum(r) >= 0
  <2>1. ASSUME NEW j \in 1..Len(r) PROVE r[j] >= 0
    <3>1. j \in 1..Len(s)
      BY <1>1
    <3>2. r[j] = 0 \/ r[j] = s[j]
      BY <1>1, <3>1
    <3>3. s[j] >= 0
      BY <3>1
    <3> QED BY <3>2, <3>3
  <2> QED BY <1>1, <2>1, SumNat
<1>4. Sum(s) \in Int /\ s[i] \in Int
  BY SumType
<1> QED BY <1>2, <1>3, <1>4

-----------------------------------------------------------------------------
(* Sums over finite sets *)

SetSum(f, S) == MapThenSumSet(LAMBDA x : f[x], S)

OneOf(s) == CHOOSE x \in s : TRUE

\* g adds f up over each subset of S, an element at a time.
Adds(g, f, S) ==
  g = [s \in SUBSET S |-> IF s = {} THEN 0 ELSE f[OneOf(s)] + g[s \ {OneOf(s)}]]

LEMMA OneOfType ==
  ASSUME NEW s, s # {}
  PROVE  OneOf(s) \in s
BY DEF OneOf

LEMMA SetSumDef ==
  ASSUME NEW f, NEW S
  PROVE  SetSum(f, S) = (CHOOSE g : Adds(g, f, S))[S]
BY Zenon DEF SetSum, MapThenSumSet, MapThenFoldSet, Adds, OneOf

LEMMA AddsStep ==
  ASSUME NEW f, NEW S, NEW g, Adds(g, f, S), NEW s \in SUBSET S
  PROVE  /\ s = {} => g[s] = 0
         /\ s # {} => g[s] = f[OneOf(s)] + g[s \ {OneOf(s)}]
<1> DEFINE h == [r \in SUBSET S |-> IF r = {} THEN 0 ELSE f[OneOf(r)] + g[r \ {OneOf(r)}]]
<1>1. g = h
  BY DEF Adds
<1>2. h[s] = IF s = {} THEN 0 ELSE f[OneOf(s)] + g[s \ {OneOf(s)}]
  OBVIOUS
<1> QED BY <1>1, <1>2

\* One element of a set fewer.
LEMMA OneFewer ==
  ASSUME NEW s, IsFiniteSet(s), NEW x \in s
  PROVE  /\ IsFiniteSet(s \ {x}) /\ Cardinality(s \ {x}) \in Nat
         /\ \A n \in Nat : Cardinality(s) = n + 1 => Cardinality(s \ {x}) = n
<1>1. IsFiniteSet(s \ {x}) /\ Cardinality(s \ {x}) = Cardinality(s) - 1
  BY FS_RemoveElement
<1>2. Cardinality(s) \in Nat /\ Cardinality(s \ {x}) \in Nat
  BY <1>1, FS_CardinalityType
<1> QED BY <1>1, <1>2

\* Two that add f up agree where both are defined.
LEMMA AddsUnique ==
  ASSUME NEW f, NEW S, NEW T, IsFiniteSet(S),
         NEW g, Adds(g, f, S), NEW h, Adds(h, f, T),
         NEW s \in SUBSET S, s \in SUBSET T
  PROVE  g[s] = h[s]
<1> DEFINE A == {n \in Nat : \A r \in SUBSET S : r \in SUBSET T /\ Cardinality(r) = n
                                                  => g[r] = h[r]}
<1>0. \A r \in SUBSET S : IsFiniteSet(r)
  BY FS_Subset
<1>1. 0 \in A
  <2> SUFFICES ASSUME NEW r \in SUBSET S, r \in SUBSET T, Cardinality(r) = 0
               PROVE  g[r] = h[r]
    OBVIOUS
  <2>1. r = {}
    BY <1>0, FS_EmptySet
  <2>2. g[r] = 0
    BY <2>1, AddsStep
  <2>3. h[r] = 0
    BY <2>1, AddsStep
  <2> QED BY <2>2, <2>3
<1>2. ASSUME NEW n \in A PROVE n + 1 \in A
  <2> SUFFICES ASSUME NEW r \in SUBSET S, r \in SUBSET T, Cardinality(r) = n + 1
               PROVE  g[r] = h[r]
    OBVIOUS
  <2> DEFINE x == OneOf(r)   q == r \ {x}
  <2>1. r # {}
    <3>1. n \in Nat /\ n + 1 # 0
      OBVIOUS
    <3> QED BY <3>1, FS_EmptySet
  <2>2. x \in r
    BY <2>1, OneOfType
  <2>3. Cardinality(q) = n /\ q \in SUBSET S /\ q \in SUBSET T
    <3>1. n \in Nat /\ IsFiniteSet(r)
      BY <1>0
    <3> QED BY <2>2, <3>1, OneFewer
  <2>4. g[q] = h[q]
    BY <2>3
  <2>5. g[r] = f[x] + g[q]
    BY <2>1, AddsStep
  <2>6. h[r] = f[x] + h[q]
    BY <2>1, AddsStep
  <2> QED BY <2>4, <2>5, <2>6
<1>3. A = Nat
  <2>1. A \in SUBSET Nat
    OBVIOUS
  <2> HIDE DEF A
  <2> QED BY <1>1, <1>2, <2>1, SetInduction
<1>4. Cardinality(s) \in Nat
  BY <1>0, FS_CardinalityType
<1> QED BY <1>3, <1>4

\* There is one for every finite set.
LEMMA AddsExists ==
  ASSUME NEW f, NEW S, IsFiniteSet(S)
  PROVE  \E g : Adds(g, f, S)
<1> DEFINE A == {n \in Nat : \A T \in SUBSET S : Cardinality(T) = n => \E g : Adds(g, f, T)}
<1>0. \A T \in SUBSET S : IsFiniteSet(T)
  BY FS_Subset
<1>1. ASSUME NEW n \in Nat, \A k \in Nat : k < n => k \in A PROVE n \in A
  <2> SUFFICES ASSUME NEW T \in SUBSET S, Cardinality(T) = n PROVE \E g : Adds(g, f, T)
    OBVIOUS
  <2> DEFINE G(s)  == CHOOSE g : Adds(g, f, s)
             up(s) == IF s = {} THEN 0
                      ELSE f[OneOf(s)] + G(s \ {OneOf(s)})[s \ {OneOf(s)}]
             all   == [s \in SUBSET T |-> up(s)]
  <2>1. ASSUME NEW s \in SUBSET T, s # T PROVE Adds(G(s), f, s)
    <3>1. IsFiniteSet(T) /\ IsFiniteSet(s) /\ s \in SUBSET S
      BY <1>0
    <3>2. Cardinality(s) \in Nat /\ Cardinality(s) < n
      <4>1. Cardinality(s) \in Nat /\ Cardinality(s) <= Cardinality(T)
        BY <3>1, FS_CardinalityType, FS_Subset
      <4>2. Cardinality(s) # Cardinality(T)
        BY <2>1, <3>1, FS_Subset
      <4> QED BY <4>1, <4>2
    <3>3. Cardinality(s) \in A
      BY <1>1, <3>2
    <3>4. \E g : Adds(g, f, s)
      BY <3>1, <3>3
    <3> QED BY <3>4
  <2>2. ASSUME NEW s \in SUBSET T, s # T PROVE all[s] = G(s)[s]
    <3>1. Adds(G(s), f, s) /\ IsFiniteSet(s) /\ s \in SUBSET s /\ s \in SUBSET S
      BY <1>0, <2>1, <2>2
    <3>2. all[s] = up(s)
      OBVIOUS
    <3> DEFINE x == OneOf(s)   q == s \ {x}
    <3> HIDE DEF G
    <3>3. CASE s = {}
      BY <3>1, <3>2, <3>3, AddsStep
    <3>4. CASE s # {}
      <4>1. x \in s
        BY <3>4, OneOfType
      <4>2. q \in SUBSET T /\ q # T /\ q \in SUBSET s /\ q \in SUBSET q
        BY <4>1
      <4>3. Adds(G(q), f, q)
        BY <2>1, <4>2
      <4>4. G(s)[s] = f[x] + G(s)[q]
        BY <3>1, <3>4, AddsStep
      <4>5. G(s)[q] = G(q)[q]
        BY <3>1, <4>2, <4>3, AddsUnique
      <4> QED BY <3>2, <3>4, <4>4, <4>5
    <3> QED BY <3>3, <3>4
  <2>3. Adds(all, f, T)
    <3>1. ASSUME NEW s \in SUBSET T
          PROVE  up(s) = IF s = {} THEN 0 ELSE f[OneOf(s)] + all[s \ {OneOf(s)}]
      <4> DEFINE x == OneOf(s)   q == s \ {x}
      <4>1. ASSUME s # {} PROVE q \in SUBSET T /\ q # T
        BY <4>1, OneOfType
      <4>2. s # {} => all[q] = G(q)[q]
        BY <2>2, <4>1
      <4> HIDE DEF G, all
      <4> QED BY <4>2
    <3> HIDE DEF up
    <3>2. all = [s \in SUBSET T |-> IF s = {} THEN 0 ELSE f[OneOf(s)] + all[s \ {OneOf(s)}]]
      BY <3>1
    <3> HIDE DEF all
    <3> QED BY <3>2 DEF Adds
  <2> QED BY <2>3
<1>2. A = Nat
  <2>1. A \in SUBSET Nat
    OBVIOUS
  <2> HIDE DEF A
  <2> QED BY <1>1, <2>1, StrongInduction
<1>3. Cardinality(S) \in Nat
  BY FS_CardinalityType
<1> QED BY <1>2, <1>3

\* A sum adds its elements up in some order.
LEMMA SetSumStep ==
  ASSUME NEW f, NEW S, IsFiniteSet(S)
  PROVE  /\ S = {} => SetSum(f, S) = 0
         /\ S # {} => SetSum(f, S) = f[OneOf(S)] + SetSum(f, S \ {OneOf(S)})
<1> DEFINE G(s) == CHOOSE g : Adds(g, f, s)
           x == OneOf(S)   q == S \ {x}
<1>1. Adds(G(S), f, S) /\ SetSum(f, S) = G(S)[S]
  BY AddsExists, SetSumDef
<1>2. IsFiniteSet(q)
  BY FS_Subset, q \in SUBSET S
<1>3. Adds(G(q), f, q) /\ SetSum(f, q) = G(q)[q]
  BY <1>2, AddsExists, SetSumDef
<1> HIDE DEF G
<1>4. G(S)[q] = G(q)[q]
  BY <1>1, <1>3, AddsUnique
<1> QED BY <1>1, <1>3, <1>4, AddsStep

LEMMA SetSumType ==
  ASSUME NEW S, IsFiniteSet(S), NEW f, \A x \in S : f[x] \in Int
  PROVE  SetSum(f, S) \in Int
<1> DEFINE A == {n \in Nat : \A s \in SUBSET S : Cardinality(s) = n => SetSum(f, s) \in Int}
<1>0. \A s \in SUBSET S : IsFiniteSet(s)
  BY FS_Subset
<1>1. 0 \in A
  <2> SUFFICES ASSUME NEW s \in SUBSET S, Cardinality(s) = 0 PROVE SetSum(f, s) \in Int
    OBVIOUS
  <2>1. s = {} /\ IsFiniteSet(s)
    BY <1>0, FS_EmptySet
  <2>2. SetSum(f, s) = 0
    BY <2>1, SetSumStep
  <2> QED BY <2>2
<1>2. ASSUME NEW n \in A PROVE n + 1 \in A
  <2> SUFFICES ASSUME NEW s \in SUBSET S, Cardinality(s) = n + 1
               PROVE  SetSum(f, s) \in Int
    OBVIOUS
  <2> DEFINE x == OneOf(s)   q == s \ {x}
  <2>1. s # {} /\ n \in Nat
    BY FS_EmptySet
  <2>2. x \in s
    BY <2>1, OneOfType
  <2>3. Cardinality(q) = n
    <3>1. IsFiniteSet(s)
      BY <1>0
    <3> QED BY <2>1, <2>2, <3>1, OneFewer
  <2>4. SetSum(f, q) \in Int /\ f[x] \in Int
    BY <2>2, <2>3
  <2>5. SetSum(f, s) = f[x] + SetSum(f, q)
    BY <1>0, <2>1, SetSumStep
  <2> HIDE DEF x, q
  <2> QED BY <2>4, <2>5
<1>3. A = Nat
  <2>1. A \in SUBSET Nat
    OBVIOUS
  <2> HIDE DEF A
  <2> QED BY <1>1, <1>2, <2>1, SetInduction
<1>4. Cardinality(S) \in Nat
  BY FS_CardinalityType
<1> QED BY <1>3, <1>4

\* Any element of a set adds itself to the sum of the others.
LEMMA SetSumElement ==
  ASSUME NEW S, IsFiniteSet(S), NEW f, \A x \in S : f[x] \in Int, NEW e \in S
  PROVE  SetSum(f, S) = f[e] + SetSum(f, S \ {e})
<1> DEFINE A == {n \in Nat : \A s \in SUBSET S : \A y \in s :
                   Cardinality(s) = n => SetSum(f, s) = f[y] + SetSum(f, s \ {y})}
<1>0. \A s \in SUBSET S : IsFiniteSet(s) /\ SetSum(f, s) \in Int
  <2> TAKE s \in SUBSET S
  <2>1. IsFiniteSet(s)
    BY FS_Subset
  <2> QED BY <2>1, SetSumType
<1>1. 0 \in A
  BY <1>0, FS_EmptySet
<1>2. ASSUME NEW n \in A PROVE n + 1 \in A
  <2> SUFFICES ASSUME NEW s \in SUBSET S, NEW y \in s, Cardinality(s) = n + 1
               PROVE  SetSum(f, s) = f[y] + SetSum(f, s \ {y})
    OBVIOUS
  <2> DEFINE x == OneOf(s)   q == s \ {x}   r == s \ {y}   b == s \ {x, y}
  <2>1. n \in Nat /\ x \in s
    BY OneOfType
  <2>2. SetSum(f, s) = f[x] + SetSum(f, q)
    BY <1>0, SetSumStep
  <2>3. CASE x = y
    BY <2>2, <2>3
  <2>4. CASE x # y
    <3>1. /\ q \in SUBSET S /\ r \in SUBSET S /\ b \in SUBSET S
          /\ y \in q /\ x \in r /\ q \ {y} = b /\ r \ {x} = b
      BY <2>1, <2>4
    <3>2. Cardinality(q) = n /\ Cardinality(r) = n
      <4>1. IsFiniteSet(s)
        BY <1>0
      <4> QED BY <2>1, <4>1, OneFewer
    <3>3. SetSum(f, q) = f[y] + SetSum(f, b)
      BY <3>1, <3>2
    <3>4. SetSum(f, r) = f[x] + SetSum(f, b)
      BY <3>1, <3>2
    <3>5. f[x] \in Int /\ f[y] \in Int /\ SetSum(f, b) \in Int
      BY <1>0, <2>1, <3>1
    <3> HIDE DEF x, q, r, b, A
    <3>6. SetSum(f, s) = f[y] + SetSum(f, r)
      BY <2>2, <3>3, <3>4, <3>5
    <3> QED BY <3>6 DEF r
  <2> QED BY <2>3, <2>4
<1>3. A = Nat
  <2>1. A \in SUBSET Nat
    OBVIOUS
  <2> HIDE DEF A
  <2> QED BY <1>1, <1>2, <2>1, SetInduction
<1>4. Cardinality(S) \in Nat
  BY FS_CardinalityType
<1> QED BY <1>3, <1>4

\* What is added up decides the sum.
LEMMA SetSumSame ==
  ASSUME NEW S, IsFiniteSet(S), NEW f, NEW g, \A x \in S : f[x] = g[x]
  PROVE  SetSum(f, S) = SetSum(g, S)
<1> DEFINE A == {n \in Nat : \A s \in SUBSET S :
                   Cardinality(s) = n => SetSum(f, s) = SetSum(g, s)}
<1>0. \A s \in SUBSET S : IsFiniteSet(s)
  BY FS_Subset
<1>1. 0 \in A
  <2> SUFFICES ASSUME NEW s \in SUBSET S, Cardinality(s) = 0
               PROVE  SetSum(f, s) = SetSum(g, s)
    OBVIOUS
  <2>1. s = {} /\ IsFiniteSet(s)
    BY <1>0, FS_EmptySet
  <2>2. SetSum(f, s) = 0
    BY <2>1, SetSumStep
  <2>3. SetSum(g, s) = 0
    BY <2>1, SetSumStep
  <2> QED BY <2>2, <2>3
<1>2. ASSUME NEW n \in A PROVE n + 1 \in A
  <2> SUFFICES ASSUME NEW s \in SUBSET S, Cardinality(s) = n + 1
               PROVE  SetSum(f, s) = SetSum(g, s)
    OBVIOUS
  <2> DEFINE x == OneOf(s)   q == s \ {x}
  <2>1. s # {} /\ n \in Nat
    BY FS_EmptySet
  <2>2. x \in s
    BY <2>1, OneOfType
  <2>3. Cardinality(q) = n
    <3>1. IsFiniteSet(s)
      BY <1>0
    <3> QED BY <2>1, <2>2, <3>1, OneFewer
  <2>4. SetSum(f, q) = SetSum(g, q) /\ f[x] = g[x]
    BY <2>2, <2>3
  <2>5. SetSum(f, s) = f[x] + SetSum(f, q)
    BY <1>0, <2>1, SetSumStep
  <2>6. SetSum(g, s) = g[x] + SetSum(g, q)
    BY <1>0, <2>1, SetSumStep
  <2> HIDE DEF x, q
  <2> QED BY <2>4, <2>5, <2>6
<1>3. A = Nat
  <2>1. A \in SUBSET Nat
    OBVIOUS
  <2> HIDE DEF A
  <2> QED BY <1>1, <1>2, <2>1, SetInduction
<1>4. Cardinality(S) \in Nat
  BY FS_CardinalityType
<1> QED BY <1>3, <1>4

\* Where one element is changed, the sum changes by as much.
LEMMA SetSumChanged ==
  ASSUME NEW S, IsFiniteSet(S), NEW f, NEW g, NEW e \in S,
         \A x \in S : f[x] \in Int /\ g[x] \in Int /\ (x # e => g[x] = f[x])
  PROVE  SetSum(g, S) = SetSum(f, S) - f[e] + g[e]
<1> DEFINE r == S \ {e}
<1>1. IsFiniteSet(r)
  BY FS_Subset, r \in SUBSET S
<1>2. SetSum(f, S) = f[e] + SetSum(f, r) /\ SetSum(g, S) = g[e] + SetSum(g, r)
  BY SetSumElement
<1>3. SetSum(f, r) = SetSum(g, r) /\ SetSum(f, r) \in Int
  BY <1>1, SetSumSame, SetSumType
<1> HIDE DEF r
<1>4. f[e] \in Int /\ g[e] \in Int
  OBVIOUS
<1> QED BY <1>2, <1>3, <1>4

\* No term is larger: no sum is.
LEMMA SetSumMonotone ==
  ASSUME NEW S, IsFiniteSet(S), NEW f, NEW g,
         \A x \in S : f[x] \in Int /\ g[x] \in Int /\ f[x] <= g[x]
  PROVE  SetSum(f, S) <= SetSum(g, S)
<1> DEFINE A == {n \in Nat : \A s \in SUBSET S :
                   Cardinality(s) = n => SetSum(f, s) <= SetSum(g, s)}
<1>0. \A s \in SUBSET S : IsFiniteSet(s) /\ SetSum(f, s) \in Int /\ SetSum(g, s) \in Int
  <2> TAKE s \in SUBSET S
  <2>1. IsFiniteSet(s)
    BY FS_Subset
  <2> QED BY <2>1, SetSumType
<1>1. 0 \in A
  <2> SUFFICES ASSUME NEW s \in SUBSET S, Cardinality(s) = 0
               PROVE  SetSum(f, s) <= SetSum(g, s)
    OBVIOUS
  <2>1. s = {} /\ IsFiniteSet(s)
    BY <1>0, FS_EmptySet
  <2>2. SetSum(f, s) = 0
    BY <2>1, SetSumStep
  <2>3. SetSum(g, s) = 0
    BY <2>1, SetSumStep
  <2> QED BY <2>2, <2>3
<1>2. ASSUME NEW n \in A PROVE n + 1 \in A
  <2> SUFFICES ASSUME NEW s \in SUBSET S, Cardinality(s) = n + 1
               PROVE  SetSum(f, s) <= SetSum(g, s)
    OBVIOUS
  <2> DEFINE x == OneOf(s)   q == s \ {x}
  <2>1. s # {} /\ n \in Nat
    BY FS_EmptySet
  <2>2. x \in s
    BY <2>1, OneOfType
  <2>3. Cardinality(q) = n
    <3>1. IsFiniteSet(s)
      BY <1>0
    <3> QED BY <2>1, <2>2, <3>1, OneFewer
  <2>4. /\ SetSum(f, q) <= SetSum(g, q) /\ SetSum(f, q) \in Int /\ SetSum(g, q) \in Int
        /\ f[x] \in Int /\ g[x] \in Int /\ f[x] <= g[x]
    BY <1>0, <2>2, <2>3
  <2>5. SetSum(f, s) = f[x] + SetSum(f, q)
    BY <1>0, <2>1, SetSumStep
  <2>6. SetSum(g, s) = g[x] + SetSum(g, q)
    BY <1>0, <2>1, SetSumStep
  <2> HIDE DEF x, q
  <2> QED BY <2>4, <2>5, <2>6
<1>3. A = Nat
  <2>1. A \in SUBSET Nat
    OBVIOUS
  <2> HIDE DEF A
  <2> QED BY <1>1, <1>2, <2>1, SetInduction
<1>4. Cardinality(S) \in Nat
  BY FS_CardinalityType
<1> QED BY <1>3, <1>4

\* A sum of equals is a product.
LEMMA SetSumConstant ==
  ASSUME NEW S, IsFiniteSet(S), NEW f, NEW c \in Int, \A x \in S : f[x] = c
  PROVE  SetSum(f, S) = c * Cardinality(S)
<1> DEFINE A == {n \in Nat : \A s \in SUBSET S : Cardinality(s) = n => SetSum(f, s) = c * n}
<1>0. \A s \in SUBSET S : IsFiniteSet(s)
  BY FS_Subset
<1>1. 0 \in A
  <2> SUFFICES ASSUME NEW s \in SUBSET S, Cardinality(s) = 0 PROVE SetSum(f, s) = c * 0
    OBVIOUS
  <2>1. s = {} /\ IsFiniteSet(s)
    BY <1>0, FS_EmptySet
  <2>2. SetSum(f, s) = 0
    BY <2>1, SetSumStep
  <2> QED BY <2>2
<1>2. ASSUME NEW n \in A PROVE n + 1 \in A
  <2> SUFFICES ASSUME NEW s \in SUBSET S, Cardinality(s) = n + 1
               PROVE  SetSum(f, s) = c * (n + 1)
    OBVIOUS
  <2> DEFINE x == OneOf(s)   q == s \ {x}
  <2>1. s # {} /\ n \in Nat
    BY FS_EmptySet
  <2>2. x \in s
    BY <2>1, OneOfType
  <2>3. Cardinality(q) = n
    <3>1. IsFiniteSet(s)
      BY <1>0
    <3> QED BY <2>1, <2>2, <3>1, OneFewer
  <2>4. SetSum(f, q) = c * n /\ f[x] = c
    BY <2>2, <2>3
  <2>5. SetSum(f, s) = f[x] + SetSum(f, q)
    BY <1>0, <2>1, SetSumStep
  <2> HIDE DEF x, q, A
  <2>6. c * (n + 1) = c + c * n
    BY <2>1
  <2> QED BY <2>4, <2>5, <2>6
<1>3. A = Nat
  <2>1. A \in SUBSET Nat
    OBVIOUS
  <2> HIDE DEF A
  <2> QED BY <1>1, <1>2, <2>1, SetInduction
<1>4. Cardinality(S) \in Nat
  BY FS_CardinalityType
<1> QED BY <1>3, <1>4

\* The mean of a set lies between any bounds of its elements.
LEMMA SetSumBounds ==
  ASSUME NEW S, IsFiniteSet(S), NEW f, \A x \in S : f[x] \in Int, NEW c \in Int
  PROVE  /\ (\A x \in S : c <= f[x]) => c * Cardinality(S) <= SetSum(f, S)
         /\ (\A x \in S : f[x] <= c) => SetSum(f, S) <= c * Cardinality(S)
<1> DEFINE g == [x \in S |-> c]
<1>1. \A x \in S : g[x] = c
  OBVIOUS
<1> HIDE DEF g
<1>2. SetSum(g, S) = c * Cardinality(S)
  BY <1>1, SetSumConstant
<1>3. (\A x \in S : c <= f[x]) => SetSum(g, S) <= SetSum(f, S)
  BY <1>1, SetSumMonotone
<1>4. (\A x \in S : f[x] <= c) => SetSum(f, S) <= SetSum(g, S)
  BY <1>1, SetSumMonotone
<1> QED BY <1>2, <1>3, <1>4

-----------------------------------------------------------------------------
(* Lending pools *)

Environment == [cfg: PoolConfig, now: Nat, validator_apy: Nat]

\* A pool as the methods find and leave it at e.now.
Sound(P, e) == P \in Pool /\ P.last_update <= e.now

\* Q differs from P in its rates, its indices and its insurance alone.
SameBooks(Q, P) == /\ Q.vault = P.vault
                   /\ Q.dx_supply = P.dx_supply
                   /\ Q.variable_loan_share_quantity = P.variable_loan_share_quantity

-----------------------------------------------------------------------------
(* Rates and indices *)

LEMMA CompoundRateType ==
  ASSUME NEW apy \in Int, NEW delta \in Nat
  PROVE  CompoundRate(apy, delta) \in Int
<1>1. ONE + Trunc(apy, EPOCH_OF_YEAR) \in Int
  BY TruncType, DecimalsAssumption
<1> QED BY <1>1, PowiType DEF CompoundRate

LEMMA CompoundInterestType ==
  ASSUME NEW amount \in Int, NEW apy \in Int, NEW delta \in Nat
  PROVE  CompoundInterest(amount, apy, delta) \in Int
  BY CompoundRateType, DMulType DEF CompoundInterest

LEMMA LinearInterestType ==
  ASSUME NEW amount \in Int, NEW apy \in Int, NEW delta \in Nat
  PROVE  LinearInterest(amount, apy, delta) \in Int
<1>1. apy * delta \in Int
  OBVIOUS
<1>2. ONE + LinearRate(apy, delta) \in Int
  BY <1>1, TruncType, DecimalsAssumption DEF LinearRate
<1> QED BY <1>2, DMulType DEF LinearInterest

LEMMA WeightRateType ==
  ASSUME NEW a \in Int, NEW r \in Int, NEW b \in Int, NEW s \in Int, a + b # 0
  PROVE  WeightRate(a, r, b, s) \in Int
<1>1. DMul(a, r) + DMul(b, s) \in Int
  BY DMulType
<1> QED BY <1>1, DDivType DEF WeightRate

LEMMA VariableRateType ==
  ASSUME NEW model \in Models, NEW ratio \in Int
  PROVE  VariableRate(model, ratio) \in Int
<1> USE InterestModelAssumption, DecimalsAssumption
<1>1. DefaultRate(ratio) \in Int
  <2>1. Powi(ratio, 2) \in Int
    BY PowiType
  <2>2. DMul(ratio, DefPrimary) \in Int
    BY DMulType
  <2>3. DMul(Powi(ratio, 2), DefQuadratic) \in Int
    BY <2>1, DMulType
  <2> QED BY <2>2, <2>3 DEF DefaultRate
<1>2. StableCoinRate(ratio) \in Int
  <2> DEFINE r2 == IF ratio > ONE THEN ONE ELSE Powi(ratio, 2)
  <2>1. r2 \in Int
    BY PowiType
  <2>2. StableCoinRate(ratio) =
          DMul(StableCoinPrimary, Powi(r2, 2)) + DMul(StableCoinQuadratic, Powi(r2, 4))
    BY DEF StableCoinRate
  <2> HIDE DEF r2
  <2>3. Powi(r2, 2) \in Int /\ Powi(r2, 4) \in Int
    BY <2>1, PowiType
  <2>4. /\ DMul(StableCoinPrimary, Powi(r2, 2)) \in Int
        /\ DMul(StableCoinQuadratic, Powi(r2, 4)) \in Int
    BY <2>3, DMulType
  <2> QED BY <2>2, <2>4
<1> QED BY <1>1, <1>2 DEF VariableRate

Rates == [variable: Int, stable: Int, supply: Int]

LEMMA CalcInterestRateType ==
  ASSUME NEW e \in Environment, NEW supply \in Int,
         NEW variableBorrow \in Int, NEW stableBorrow \in Int
  PROVE  CalcInterestRate(e, supply, variableBorrow, stableBorrow) \in Rates
<1> DEFINE debt     == variableBorrow + stableBorrow
           ratio    == IF supply = 0 THEN 0 ELSE DDiv(debt, supply)
           variable == VariableRate(e.cfg.model, ratio)
           stable   == StableRate(variable, e.validator_apy)
           overall  == IF debt = 0 THEN 0
                       ELSE DDiv(DMul(variableBorrow, variable) + DMul(stableBorrow, stable), debt)
           interest == DMul(DMul(debt, overall), ONE - e.cfg.insurance_ratio)
           paid     == IF supply = 0 THEN 0 ELSE DDiv(interest, supply)
<1>1. /\ e.cfg.model \in Models
      /\ e.validator_apy \in Int
      /\ ONE - e.cfg.insurance_ratio \in Int
  BY DecimalsAssumption DEF Environment, PoolConfig
<1>2. debt \in Int
  OBVIOUS
<1>3. CalcInterestRate(e, supply, variableBorrow, stableBorrow)
        = [variable |-> variable, stable |-> stable, supply |-> paid]
  BY DEF CalcInterestRate
<1> HIDE DEF debt
<1>4. ratio \in Int
  BY <1>2, DDivType
<1> HIDE DEF ratio
<1>5. variable \in Int
  BY <1>1, <1>4, VariableRateType
<1> HIDE DEF variable
<1>6. stable \in Int
  BY <1>1, <1>5 DEF StableRate
<1> HIDE DEF stable
<1>7. DMul(variableBorrow, variable) + DMul(stableBorrow, stable) \in Int
  BY <1>5, <1>6, DMulType
<1>8. overall \in Int
  BY <1>2, <1>7, DDivType
<1> HIDE DEF overall
<1>9. interest \in Int
  BY <1>1, <1>2, <1>8, DMulType
<1> HIDE DEF interest
<1>10. paid \in Int
  BY <1>9, DDivType
<1> HIDE DEF paid
<1> QED BY <1>3, <1>5, <1>6, <1>10 DEF Rates

LEMMA IndexType ==
  ASSUME NEW e \in Environment, NEW P, Sound(P, e)
  PROVE  /\ SupplyIndex(P, e) \in Int
         /\ LoanIndex(P, e) \in Int
         /\ StableLoanValue(P, e) \in Int
<1>1. e.now - P.last_update \in Nat /\ e.now - StableLoanLastUpdate \in Nat
  BY DEF Sound, Pool, Environment, StableLoanLastUpdate
<1>2. /\ P.deposit_index \in Int /\ P.loan_index \in Int
      /\ P.deposit_interest_rate \in Int /\ P.variable_loan_interest_rate \in Int
      /\ P.stable_loan_amount \in Int /\ P.stable_loan_interest_rate \in Int
  BY DEF Sound, Pool
<1>3. SupplyIndex(P, e) \in Int
  BY <1>1, <1>2, LinearInterestType DEF SupplyIndex
<1>4. LoanIndex(P, e) \in Int
  BY <1>1, <1>2, CompoundInterestType DEF LoanIndex
<1>5. StableLoanValue(P, e) \in Int
  BY <1>1, <1>2, CompoundInterestType DEF StableLoanValue
<1> QED BY <1>3, <1>4, <1>5

LEMMA RedemptionValueType ==
  ASSUME NEW e \in Environment, NEW P, Sound(P, e), NEW dx \in Int
  PROVE  RedemptionValue(P, e, dx) \in Int
  BY IndexType, DMulType DEF RedemptionValue

LEMMA InterestRateType ==
  ASSUME NEW e \in Environment, NEW P, Sound(P, e), NEW extra \in Int
  PROVE  InterestRate(P, e, extra) \in Rates
<1>1. P.dx_supply \in Int /\ P.variable_loan_share_quantity \in Int
  BY DEF Sound, Pool
<1>2. DMul(P.dx_supply, SupplyIndex(P, e)) \in Int
  BY <1>1, IndexType, DMulType
<1>3. DMul(P.variable_loan_share_quantity, LoanIndex(P, e)) \in Int
  BY <1>1, IndexType, DMulType
<1>4. StableLoanValue(P, e) + extra \in Int
  BY IndexType
<1> QED BY <1>2, <1>3, <1>4, CalcInterestRateType DEF InterestRate

-----------------------------------------------------------------------------
(* The two updates *)

\* Bringing the indices to the current epoch moves no token, dx or share.
LEMMA UpdateIndexSound ==
  ASSUME NEW e \in Environment, NEW P, Sound(P, e)
  PROVE  /\ Sound(UpdateIndex(P, e), e)
         /\ SameBooks(UpdateIndex(P, e), P)
         /\ UpdateIndex(P, e).stable_loan_amount = P.stable_loan_amount
<1>1. CASE e.now = P.last_update
  BY <1>1 DEF UpdateIndex, SameBooks
<1>2. CASE e.now # P.last_update
  <2> DEFINE variableInterest == DMul(P.variable_loan_share_quantity,
                                      LoanIndex(P, e) - P.loan_index)
             compounded == CompoundInterest(P.stable_loan_amount,
                                            P.stable_loan_interest_rate,
                                            e.now - P.last_update)
             supplyInterest == DMul(P.dx_supply, SupplyIndex(P, e) - P.deposit_index)
             spread == variableInterest + (compounded - P.stable_loan_amount) - supplyInterest
  <2>1. e.now - P.last_update \in Nat /\ e.now \in Nat
    BY DEF Sound, Pool, Environment
  <2>2. /\ P \in Pool
        /\ P.insurance_balance \in Int
        /\ P.deposit_index \in Int /\ P.loan_index \in Int
        /\ P.variable_loan_share_quantity \in Int /\ P.dx_supply \in Int
        /\ P.stable_loan_amount \in Int /\ P.stable_loan_interest_rate \in Int
    BY DEF Sound, Pool
  <2>3. /\ SupplyIndex(P, e) \in Int /\ SupplyIndex(P, e) - P.deposit_index \in Int
        /\ LoanIndex(P, e) \in Int /\ LoanIndex(P, e) - P.loan_index \in Int
    BY <2>2, IndexType
  <2>4. variableInterest \in Int
    BY <2>2, <2>3, DMulType
  <2>5. compounded \in Int
    BY <2>1, <2>2, CompoundInterestType
  <2>6. supplyInterest \in Int
    BY <2>2, <2>3, DMulType
  <2>7. UpdateIndex(P, e) = [P EXCEPT !.insurance_balance = @ + spread,
                                      !.deposit_index = SupplyIndex(P, e),
                                      !.loan_index = LoanIndex(P, e),
                                      !.last_update = e.now]
    BY <1>2, Zenon DEF UpdateIndex
  <2> HIDE DEF variableInterest, compounded, supplyInterest
  <2>8. P.insurance_balance + spread \in Int
    BY <2>2, <2>4, <2>5, <2>6
  <2> HIDE DEF spread
  <2>9. UpdateIndex(P, e) \in Pool
    BY <2>1, <2>2, <2>3, <2>7, <2>8 DEF Pool
  <2>10. UpdateIndex(P, e).last_update = e.now
    BY <2>2, <2>7 DEF Pool
  <2>11. /\ SameBooks(UpdateIndex(P, e), P)
         /\ UpdateIndex(P, e).stable_loan_amount = P.stable_loan_amount
    BY <2>2, <2>7 DEF Pool, SameBooks
  <2> QED BY <2>1, <2>9, <2>10, <2>11 DEF Sound
<1> QED BY <1>1, <1>2

LEMMA UpdateInterestRateSound ==
  ASSUME NEW e \in Environment, NEW P, Sound(P, e)
  PROVE  /\ Sound(UpdateInterestRate(P, e), e)
         /\ SameBooks(UpdateInterestRate(P, e), P)
<1>1. InterestRate(P, e, 0).supply \in Int /\ InterestRate(P, e, 0).variable \in Int
  BY InterestRateType DEF Rates
<1>2. P \in Pool
  BY DEF Sound
<1> QED BY <1>1, <1>2 DEF UpdateInterestRate, Sound, SameBooks, Pool

-----------------------------------------------------------------------------
(* Deposits *)

LEMMA AddLiquiditySound ==
  ASSUME NEW e \in Environment, NEW P, Sound(P, e), NEW amount \in Nat,
         CanAddLiquidity(P, e, amount)
  PROVE  /\ MintedDx(P, e, amount) \in Nat
         /\ Sound(AddLiquidity(P, e, amount), e)
         /\ AddLiquidity(P, e, amount).dx_supply = P.dx_supply + MintedDx(P, e, amount)
         /\ AddLiquidity(P, e, amount).variable_loan_share_quantity
              = P.variable_loan_share_quantity
<1> DEFINE minted == MintedDx(P, e, amount)
           Q == UpdateIndex(P, e)
           R == [Q EXCEPT !.vault = @ + amount, !.dx_supply = @ + minted]
<1>1. minted \in Nat
  <2>1. DDiv(amount, SupplyIndex(P, e)) \in Int
    BY IndexType, DDivType DEF CanAddLiquidity
  <2>2. e.cfg.share_unit \in Nat \ {0}
    BY DEF Environment, PoolConfig
  <2>3. minted \in Int
    BY <2>1, <2>2, FloorToBounds DEF MintedDx
  <2> QED BY <2>3 DEF CanAddLiquidity
<1>2. AddLiquidity(P, e, amount) = UpdateInterestRate(R, e)
  BY DEF AddLiquidity
<1>3. Sound(Q, e) /\ SameBooks(Q, P)
  BY UpdateIndexSound
<1> HIDE DEF minted, Q
<1>4. /\ Sound(R, e)
      /\ R.dx_supply = P.dx_supply + minted
      /\ R.variable_loan_share_quantity = P.variable_loan_share_quantity
  <2>1. Q \in Pool /\ Q.vault + amount \in Nat /\ Q.dx_supply + minted \in Nat
    BY <1>1, <1>3 DEF Sound, Pool
  <2>2. R \in Pool /\ R.last_update = Q.last_update
    BY <2>1 DEF Pool
  <2>3. /\ R.dx_supply = Q.dx_supply + minted
        /\ R.variable_loan_share_quantity = Q.variable_loan_share_quantity
    BY <2>1 DEF Pool
  <2> QED BY <1>3, <2>2, <2>3 DEF Sound, SameBooks
<1> HIDE DEF R
<1>5. Sound(UpdateInterestRate(R, e), e) /\ SameBooks(UpdateInterestRate(R, e), R)
  BY <1>4, UpdateInterestRateSound
<1> QED BY <1>1, <1>2, <1>4, <1>5 DEF SameBooks, minted

LEMMA RemoveLiquiditySound ==
  ASSUME NEW e \in Environment, NEW P, Sound(P, e),
         NEW dx \in Nat, dx <= P.dx_supply, CanRemoveLiquidity(P, e, dx)
  PROVE  /\ Sound(RemoveLiquidity(P, e, dx), e)
         /\ RemoveLiquidity(P, e, dx).dx_supply = P.dx_supply - dx
         /\ RemoveLiquidity(P, e, dx).variable_loan_share_quantity
              = P.variable_loan_share_quantity
<1> DEFINE removed == RemovedAmount(P, e, dx)
           Q == UpdateIndex(P, e)
           R == [Q EXCEPT !.dx_supply = @ - dx]
           S == UpdateInterestRate(R, e)
<1>1. removed \in Int /\ removed <= P.vault
  <2>1. e.cfg.unit \in Nat \ {0}
    BY DEF Environment, PoolConfig
  <2>2. removed \in Int
    BY <2>1, RedemptionValueType, FloorToBounds DEF RemovedAmount
  <2> QED BY <2>2 DEF CanRemoveLiquidity, VaultCovers
<1>2. RemoveLiquidity(P, e, dx) = [S EXCEPT !.vault = @ - removed]
  BY DEF RemoveLiquidity
<1>3. Sound(Q, e) /\ SameBooks(Q, P)
  BY UpdateIndexSound
<1> HIDE DEF removed, Q
<1>4. /\ Sound(R, e)
      /\ R.vault = P.vault
      /\ R.dx_supply = P.dx_supply - dx
      /\ R.variable_loan_share_quantity = P.variable_loan_share_quantity
  BY <1>3 DEF Sound, SameBooks, Pool
<1> HIDE DEF R
<1>5. Sound(S, e) /\ SameBooks(S, R)
  BY <1>4, UpdateInterestRateSound
<1> HIDE DEF S
<1> QED BY <1>1, <1>2, <1>4, <1>5 DEF Sound, SameBooks, Pool

-----------------------------------------------------------------------------
(* Loans *)

\* What a vault hands out is not negative when it is what it could be asked for.
HandOut(U, e, amount) == [U EXCEPT !.vault = @ - FloorTo(amount, e.cfg.unit)]

LEMMA HandOutSound ==
  ASSUME NEW e \in Environment, NEW R, Sound(R, e), NEW amount \in Nat, amount <= R.vault
  PROVE  LET S == HandOut(UpdateInterestRate(R, e), e, amount)
         IN  /\ Sound(S, e)
             /\ S.dx_supply = R.dx_supply
             /\ S.variable_loan_share_quantity = R.variable_loan_share_quantity
<1> DEFINE lent == FloorTo(amount, e.cfg.unit)
           U == UpdateInterestRate(R, e)
           S == HandOut(U, e, amount)
<1>1. lent \in Int /\ lent <= amount
  <2>1. e.cfg.unit \in Nat \ {0} /\ amount \in Int /\ amount >= 0
    BY DEF Environment, PoolConfig
  <2> QED BY <2>1, FloorToBounds
<1>2. Sound(U, e) /\ SameBooks(U, R)
  BY UpdateInterestRateSound
<1>3. S = [U EXCEPT !.vault = @ - lent]
  BY DEF HandOut
<1> HIDE DEF lent, U, S
<1>4. U \in Pool /\ U.vault - lent \in Nat
  BY <1>1, <1>2 DEF Sound, SameBooks, Pool
<1>5. S \in Pool /\ S.last_update = U.last_update
  BY <1>3, <1>4 DEF Pool
<1>6. /\ S.dx_supply = U.dx_supply
      /\ S.variable_loan_share_quantity = U.variable_loan_share_quantity
  BY <1>3, <1>4 DEF Pool
<1> QED BY <1>2, <1>5, <1>6 DEF Sound, SameBooks, U, S

LEMMA BorrowVariableSound ==
  ASSUME NEW e \in Environment, NEW P, Sound(P, e), NEW amount \in Nat,
         CanBorrowVariable(P, e, amount)
  PROVE  /\ SharesFor(P, e, amount) \in Int
         /\ Sound(PoolBorrowVariable(P, e, amount), e)
         /\ PoolBorrowVariable(P, e, amount).dx_supply = P.dx_supply
         /\ PoolBorrowVariable(P, e, amount).variable_loan_share_quantity
              = P.variable_loan_share_quantity + SharesFor(P, e, amount)
<1> DEFINE shares == SharesFor(P, e, amount)
           Q == UpdateIndex(P, e)
           R == [Q EXCEPT !.variable_loan_share_quantity = @ + shares]
           S == PoolBorrowVariable(P, e, amount)
<1>1. shares \in Int
  <2>1. DDiv(amount, LoanIndex(P, e)) \in Int
    BY IndexType, DDivType DEF CanBorrowVariable
  <2>2. e.cfg.share_unit \in Nat \ {0}
    BY DEF Environment, PoolConfig
  <2> QED BY <2>1, <2>2, CeilToBounds DEF SharesFor
<1>2. S = HandOut(UpdateInterestRate(R, e), e, amount)
  BY DEF PoolBorrowVariable, HandOut
<1>3. Sound(Q, e) /\ SameBooks(Q, P)
  BY UpdateIndexSound
<1> HIDE DEF shares, Q, S
<1>4. /\ Sound(R, e)
      /\ amount <= R.vault
      /\ R.dx_supply = P.dx_supply
      /\ R.variable_loan_share_quantity = P.variable_loan_share_quantity + shares
  BY <1>1, <1>3 DEF Sound, SameBooks, Pool, CanBorrowVariable, VaultCovers
<1> HIDE DEF R
<1>5. /\ Sound(S, e)
      /\ S.dx_supply = R.dx_supply
      /\ S.variable_loan_share_quantity = R.variable_loan_share_quantity
  BY <1>2, <1>4, HandOutSound
<1> QED BY <1>1, <1>4, <1>5 DEF shares, S

LEMMA BorrowStableSound ==
  ASSUME NEW e \in Environment, NEW P, Sound(P, e), NEW amount \in Nat, NEW rate \in Int,
         CanBorrowStable(P, amount)
  PROVE  /\ Sound(PoolBorrowStable(P, e, amount, rate), e)
         /\ PoolBorrowStable(P, e, amount, rate).dx_supply = P.dx_supply
         /\ PoolBorrowStable(P, e, amount, rate).variable_loan_share_quantity
              = P.variable_loan_share_quantity
<1> DEFINE Q == UpdateIndex(P, e)
           mean == WeightRate(Q.stable_loan_amount, Q.stable_loan_interest_rate, amount, rate)
           R == [Q EXCEPT !.stable_loan_interest_rate = mean,
                          !.stable_loan_amount = @ + amount]
           S == PoolBorrowStable(P, e, amount, rate)
<1>1. /\ Sound(Q, e) /\ SameBooks(Q, P)
      /\ Q.stable_loan_amount = P.stable_loan_amount
  BY UpdateIndexSound
<1>2. S = HandOut(UpdateInterestRate(R, e), e, amount)
  BY Zenon DEF PoolBorrowStable, HandOut
<1> HIDE DEF Q, S
<1>3. mean \in Int
  <2>1. /\ Q.stable_loan_amount \in Int /\ Q.stable_loan_interest_rate \in Int
        /\ Q.stable_loan_amount + amount # 0
    BY <1>1 DEF Sound, Pool, CanBorrowStable
  <2> QED BY <2>1, WeightRateType
<1> HIDE DEF mean
<1>4. /\ Sound(R, e)
      /\ amount <= R.vault
      /\ R.dx_supply = P.dx_supply
      /\ R.variable_loan_share_quantity = P.variable_loan_share_quantity
  <2>1. /\ Q \in Pool /\ Q.stable_loan_amount + amount \in Int
        /\ amount <= Q.vault
    BY <1>1 DEF Sound, SameBooks, Pool, CanBorrowStable, VaultCovers
  <2>2. R \in Pool /\ R.last_update = Q.last_update
    BY <1>3, <2>1 DEF Pool
  <2>3. SameBooks(R, Q)
    BY <2>1 DEF Pool, SameBooks
  <2> QED BY <1>1, <2>1, <2>2, <2>3 DEF Sound, SameBooks
<1> HIDE DEF R
<1>5. /\ Sound(S, e)
      /\ S.dx_supply = R.dx_supply
      /\ S.variable_loan_share_quantity = R.variable_loan_share_quantity
  BY <1>2, <1>4, HandOutSound
<1> QED BY <1>4, <1>5 DEF S

-----------------------------------------------------------------------------
(* Repayments *)

LEMMA RepayVariableSound ==
  ASSUME NEW e \in Environment, NEW P, Sound(P, e), NEW bucket \in Int,
         NEW shares \in Int, NEW limit \in Int,
         CanRepayVariable(P, e, bucket, shares, limit),
         NEW paid, paid = VariablePayment(P, e, bucket, shares, limit)
  PROVE  /\ paid \in Nat
         /\ SharesRepaid(P, e, paid, shares) \in Int
         /\ Sound(PoolRepayVariable(P, e, bucket, shares, limit), e)
         /\ PoolRepayVariable(P, e, bucket, shares, limit).dx_supply = P.dx_supply
         /\ PoolRepayVariable(P, e, bucket, shares, limit).variable_loan_share_quantity
              = P.variable_loan_share_quantity - SharesRepaid(P, e, paid, shares)
<1> DEFINE gone == SharesRepaid(P, e, paid, shares)
           Q == UpdateIndex(P, e)
           R == [Q EXCEPT !.variable_loan_share_quantity = @ - gone, !.vault = @ + paid]
<1>1. e.cfg.unit \in Nat \ {0} /\ e.cfg.share_unit \in Nat \ {0}
  BY DEF Environment, PoolConfig
<1>2. paid \in Nat
  <2>1. DMul(shares, LoanIndex(P, e)) \in Int
    BY IndexType, DMulType
  <2>2. VariableDebt(P, e, shares) \in Int
    BY <1>1, <2>1, CeilToBounds DEF VariableDebt
  <2>3. paid \in Int
    BY <2>2, AtMostType DEF VariablePayment
  <2> QED BY <2>3 DEF CanRepayVariable, Takeable
<1>3. gone \in Int
  <2>1. DDiv(paid, LoanIndex(P, e)) \in Int
    BY <1>2, IndexType, DDivType DEF CanRepayVariable
  <2>2. FloorTo(DDiv(paid, LoanIndex(P, e)), e.cfg.share_unit) \in Int
    BY <1>1, <2>1, FloorToBounds
  <2> QED BY <2>2 DEF SharesRepaid
<1>4. PoolRepayVariable(P, e, bucket, shares, limit) = UpdateInterestRate(R, e)
  BY DEF PoolRepayVariable
<1>5. Sound(Q, e) /\ SameBooks(Q, P)
  BY UpdateIndexSound
<1> HIDE DEF gone, Q
<1>6. /\ Sound(R, e)
      /\ R.dx_supply = P.dx_supply
      /\ R.variable_loan_share_quantity = P.variable_loan_share_quantity - gone
  <2>1. Q \in Pool /\ Q.vault + paid \in Nat /\ Q.variable_loan_share_quantity - gone \in Int
    BY <1>2, <1>3, <1>5 DEF Sound, Pool
  <2>2. R \in Pool /\ R.last_update = Q.last_update
    BY <2>1 DEF Pool
  <2>3. /\ R.dx_supply = Q.dx_supply
        /\ R.variable_loan_share_quantity = Q.variable_loan_share_quantity - gone
    BY <2>1 DEF Pool
  <2> QED BY <1>5, <2>2, <2>3 DEF Sound, SameBooks
<1> HIDE DEF R
<1>7. Sound(UpdateInterestRate(R, e), e) /\ SameBooks(UpdateInterestRate(R, e), R)
  BY <1>6, UpdateInterestRateSound
<1> QED BY <1>2, <1>3, <1>4, <1>6, <1>7 DEF SameBooks, gone

LEMMA StableInterestType ==
  ASSUME NEW e \in Environment, NEW loan \in Int, NEW rate \in Int,
         NEW since \in Nat, since <= e.now
  PROVE  /\ StableInterest(e, loan, rate, since) \in Int
         /\ StableInterestDue(e, loan, rate, since) \in Int
<1>1. e.now - since \in Nat /\ e.cfg.unit \in Nat \ {0}
  BY DEF Environment, PoolConfig
<1>2. StableInterest(e, loan, rate, since) \in Int
  <2>1. CompoundInterest(loan, rate, e.now - since) \in Int
    BY <1>1, CompoundInterestType
  <2> QED BY <2>1 DEF StableInterest
<1>3. StableInterestDue(e, loan, rate, since) \in Int
  BY <1>1, <1>2, CeilToBounds DEF StableInterestDue
<1> QED BY <1>2, <1>3

LEMMA RepayStableSound ==
  ASSUME NEW e \in Environment, NEW P, Sound(P, e), NEW bucket \in Int, NEW loan \in Int,
         NEW rate \in Int, NEW since \in Nat, since <= e.now, NEW limit \in Int,
         CanRepayStable(e, bucket, loan, rate, since, limit)
  PROVE  /\ StablePayment(e, bucket, loan, rate, since, limit) \in Nat
         /\ RepayInBorrow(e, bucket, loan, rate, since, limit) \in Int
         /\ Sound(PoolRepayStable(P, e, bucket, loan, rate, since, limit), e)
         /\ PoolRepayStable(P, e, bucket, loan, rate, since, limit).dx_supply = P.dx_supply
         /\ PoolRepayStable(P, e, bucket, loan, rate, since, limit).variable_loan_share_quantity
              = P.variable_loan_share_quantity
<1> DEFINE borrow   == RepayInBorrow(e, bucket, loan, rate, since, limit)
           left     == P.stable_loan_amount - borrow
           weighted == DMul(P.stable_loan_amount, P.stable_loan_interest_rate)
           paid     == StablePayment(e, bucket, loan, rate, since, limit)
           amount   == IF left > 0 THEN left ELSE 0
           mean     == IF left > 0 THEN DDiv(weighted - DMul(borrow, rate), left) ELSE 0
           R        == [P EXCEPT !.stable_loan_amount = amount,
                                 !.stable_loan_interest_rate = mean,
                                 !.vault = @ + paid]
<1>1. PoolRepayStable(P, e, bucket, loan, rate, since, limit) = UpdateInterestRate(R, e)
  BY Zenon DEF PoolRepayStable
<1>2. StableInterestDue(e, loan, rate, since) \in Int
  BY StableInterestType
<1>3. paid \in Nat
  <2>1. paid \in Int
    BY <1>2, AtMostType DEF StablePayment
  <2> QED BY <2>1 DEF CanRepayStable, Takeable
<1>4. borrow \in Int
  BY <1>2, AtMostType DEF RepayInBorrow
<1>5. P \in Pool /\ P.stable_loan_amount \in Int /\ P.stable_loan_interest_rate \in Int
  BY DEF Sound, Pool
<1> HIDE DEF borrow, paid
<1>6. left \in Int
  BY <1>4, <1>5
<1> HIDE DEF left
<1>7. weighted - DMul(borrow, rate) \in Int
  <2>1. weighted \in Int
    BY <1>5, DMulType
  <2>2. DMul(borrow, rate) \in Int
    BY <1>4, DMulType
  <2> QED BY <2>1, <2>2
<1> HIDE DEF weighted
<1>8. amount \in Int /\ mean \in Int
  <2>1. left > 0 => DDiv(weighted - DMul(borrow, rate), left) \in Int
    BY <1>6, <1>7, DDivType
  <2> QED BY <1>6, <2>1
<1> HIDE DEF amount, mean
<1>9. /\ Sound(R, e)
      /\ R.dx_supply = P.dx_supply
      /\ R.variable_loan_share_quantity = P.variable_loan_share_quantity
  <2>1. P.vault + paid \in Nat
    BY <1>3, <1>5 DEF Pool
  <2>2. R \in Pool /\ R.last_update = P.last_update
    BY <1>5, <1>8, <2>1 DEF Pool
  <2>3. /\ R.dx_supply = P.dx_supply
        /\ R.variable_loan_share_quantity = P.variable_loan_share_quantity
    BY <1>5 DEF Pool
  <2> QED BY <2>2, <2>3 DEF Sound
<1> HIDE DEF R
<1>10. Sound(UpdateInterestRate(R, e), e) /\ SameBooks(UpdateInterestRate(R, e), R)
  BY <1>9, UpdateInterestRateSound
<1> QED BY <1>1, <1>3, <1>4, <1>9, <1>10 DEF SameBooks, borrow, paid

LEMMA RepayStableVault ==
  ASSUME NEW P \in Pool, NEW e, NEW bucket, NEW loan, NEW rate, NEW since, NEW limit
  PROVE  PoolRepayStable(P, e, bucket, loan, rate, since, limit).vault
           = P.vault + StablePayment(e, bucket, loan, rate, since, limit)
<1> DEFINE borrow   == RepayInBorrow(e, bucket, loan, rate, since, limit)
           left     == P.stable_loan_amount - borrow
           weighted == DMul(P.stable_loan_amount, P.stable_loan_interest_rate)
           paid     == StablePayment(e, bucket, loan, rate, since, limit)
           amount   == IF left > 0 THEN left ELSE 0
           mean     == IF left > 0 THEN DDiv(weighted - DMul(borrow, rate), left) ELSE 0
           R        == [P EXCEPT !.stable_loan_amount = amount,
                                 !.stable_loan_interest_rate = mean,
                                 !.vault = @ + paid]
<1>1. PoolRepayStable(P, e, bucket, loan, rate, since, limit) = UpdateInterestRate(R, e)
  BY Zenon DEF PoolRepayStable
<1> HIDE DEF amount, mean, paid
<1>2. R.vault = P.vault + paid /\ "vault" \in DOMAIN R
  BY DEF Pool
<1> HIDE DEF R
<1>3. UpdateInterestRate(R, e).vault = R.vault
  <2> DEFINE supply == InterestRate(R, e, 0).supply
             variable == InterestRate(R, e, 0).variable
  <2>1. UpdateInterestRate(R, e) = [R EXCEPT !.deposit_interest_rate = supply,
                                             !.variable_loan_interest_rate = variable]
    BY DEF UpdateInterestRate
  <2> HIDE DEF supply, variable
  <2> QED BY <1>2, <2>1
<1> QED BY <1>1, <1>2, <1>3 DEF paid

-----------------------------------------------------------------------------
(* Flash loans and insurance *)

LEMMA BorrowFlashloanSound ==
  ASSUME NEW e \in Environment, NEW P, Sound(P, e), NEW amount \in Nat,
         CanBorrowFlashloan(P, amount)
  PROVE  /\ FloorTo(amount, e.cfg.unit) \in Nat
         /\ Sound(PoolBorrowFlashloan(P, e, amount), e)
         /\ PoolBorrowFlashloan(P, e, amount).dx_supply = P.dx_supply
         /\ PoolBorrowFlashloan(P, e, amount).variable_loan_share_quantity
              = P.variable_loan_share_quantity
<1> DEFINE lent == FloorTo(amount, e.cfg.unit)
<1>1. lent \in Nat /\ lent <= amount
  <2>1. e.cfg.unit \in Nat \ {0} /\ amount \in Int /\ amount >= 0
    BY DEF Environment, PoolConfig
  <2>2. lent \in Int /\ lent <= amount
    BY <2>1, FloorToBounds
  <2>3. lent >= 0
    BY <2>1, FloorToBounds
  <2> QED BY <2>2, <2>3
<1>2. PoolBorrowFlashloan(P, e, amount) = [P EXCEPT !.vault = @ - lent]
  BY DEF PoolBorrowFlashloan
<1> HIDE DEF lent
<1>3. P \in Pool /\ P.vault - lent \in Nat
  BY <1>1 DEF Sound, Pool, CanBorrowFlashloan
<1> QED BY <1>1, <1>2, <1>3 DEF Sound, Pool, lent

LEMMA RepayFlashloanSound ==
  ASSUME NEW e \in Environment, NEW P, Sound(P, e), NEW amount \in Nat, NEW fee \in Nat,
         CanRepayFlashloan(P, e, fee)
  PROVE  /\ Sound(PoolRepayFlashloan(P, e, amount, fee), e)
         /\ PoolRepayFlashloan(P, e, amount, fee).dx_supply = P.dx_supply
         /\ PoolRepayFlashloan(P, e, amount, fee).variable_loan_share_quantity
              = P.variable_loan_share_quantity
<1> DEFINE due       == FlashloanDue(e, amount, fee)
           V         == [P EXCEPT !.vault = @ + due]
           Q         == UpdateIndex(V, e)
           supply    == DMul(Q.dx_supply, Q.deposit_index)
           insurance == DMul(fee, e.cfg.insurance_ratio)
           gain      == DDiv(fee - insurance, supply)
           R         == [Q EXCEPT !.insurance_balance = @ + insurance,
                                  !.deposit_index = @ + gain]
<1>1. due \in Nat
  <2>1. e.cfg.unit \in Nat \ {0} /\ amount + fee \in Int /\ amount + fee >= 0
    BY DEF Environment, PoolConfig
  <2>2. due \in Int /\ amount + fee <= due
    BY <2>1, CeilToBounds DEF FlashloanDue
  <2> QED BY <2>1, <2>2
<1>2. PoolRepayFlashloan(P, e, amount, fee) = IF fee > 0 THEN UpdateInterestRate(R, e) ELSE V
  BY Zenon DEF PoolRepayFlashloan
<1>3. insurance \in Int
  <2>1. e.cfg.insurance_ratio \in Int /\ fee \in Int
    BY DEF Environment, PoolConfig
  <2> QED BY <2>1, DMulType
<1> HIDE DEF due, insurance
<1>4. P \in Pool /\ P.vault + due \in Nat
  BY <1>1 DEF Sound, Pool
<1>5. /\ Sound(V, e) /\ V.dx_supply = P.dx_supply
      /\ V.variable_loan_share_quantity = P.variable_loan_share_quantity
  BY <1>4 DEF Sound, Pool
<1>6. SupplyIndex(V, e) = SupplyIndex(P, e)
  BY <1>4 DEF SupplyIndex, Pool
<1> HIDE DEF V
<1>7. Sound(Q, e) /\ SameBooks(Q, V)
  BY <1>5, UpdateIndexSound
<1>8. Q.deposit_index = SupplyIndex(V, e)
  <2>1. CASE e.now = V.last_update
    BY <2>1 DEF UpdateIndex, SupplyIndex
  <2>2. CASE e.now # V.last_update
    <3> DEFINE anyInsurance == UpdateIndex(V, e).insurance_balance
    <3>1. V \in Pool
      BY <1>5 DEF Sound
    <3> QED BY <2>2, <3>1 DEF UpdateIndex, Pool
  <2> QED BY <2>1, <2>2
<1> HIDE DEF Q
<1>9. CASE fee > 0
  <2>1. /\ Q \in Pool /\ Q.dx_supply \in Int
        /\ Q.deposit_index \in Int /\ Q.insurance_balance \in Int
    BY <1>7 DEF Sound, Pool
  <2>2. supply \in Int /\ supply # 0
    <3>1. supply \in Int
      BY <2>1, DMulType
    <3> QED BY <3>1, <1>5, <1>6, <1>7, <1>8, <1>9 DEF CanRepayFlashloan, SameBooks
  <2> HIDE DEF supply
  <2>3. gain \in Int
    BY <1>3, <2>2, DDivType
  <2> HIDE DEF gain
  <2>4. R \in Pool /\ R.last_update = Q.last_update
    <3>1. Q.insurance_balance + insurance \in Int /\ Q.deposit_index + gain \in Int
      BY <1>3, <2>1, <2>3
    <3> QED BY <2>1, <3>1 DEF Pool
  <2>5. SameBooks(R, Q)
    BY <2>1 DEF Pool, SameBooks
  <2>6. Sound(R, e)
    BY <1>7, <2>4 DEF Sound
  <2> HIDE DEF R
  <2>7. Sound(UpdateInterestRate(R, e), e) /\ SameBooks(UpdateInterestRate(R, e), R)
    BY <2>6, UpdateInterestRateSound
  <2> QED BY <1>2, <1>5, <1>7, <1>9, <2>5, <2>7 DEF SameBooks
<1>10. CASE ~(fee > 0)
  BY <1>2, <1>5, <1>10
<1> QED BY <1>9, <1>10

LEMMA WithdrawInsuranceSound ==
  ASSUME NEW e \in Environment, NEW P, Sound(P, e), NEW amount \in Nat,
         CanWithdrawInsurance(P, e, amount)
  PROVE  /\ Sound(PoolWithdrawInsurance(P, e, amount), e)
         /\ PoolWithdrawInsurance(P, e, amount).dx_supply = P.dx_supply
         /\ PoolWithdrawInsurance(P, e, amount).variable_loan_share_quantity
              = P.variable_loan_share_quantity
<1> DEFINE out == FloorTo(amount, e.cfg.unit)
<1>1. out \in Nat
  <2>1. e.cfg.unit \in Nat \ {0} /\ amount \in Int /\ amount >= 0
    BY DEF Environment, PoolConfig
  <2>2. out \in Int /\ out <= amount
    BY <2>1, FloorToBounds
  <2>3. out >= 0
    BY <2>1, FloorToBounds
  <2> QED BY <2>2, <2>3
<1>2. out <= P.vault
  BY DEF CanWithdrawInsurance
<1>3. PoolWithdrawInsurance(P, e, amount) = [P EXCEPT !.vault = @ - out]
  BY DEF PoolWithdrawInsurance
<1> HIDE DEF out
<1>4. P \in Pool /\ P.vault - out \in Nat
  BY <1>1, <1>2 DEF Sound, Pool
<1> QED BY <1>3, <1>4 DEF Sound, Pool
-----------------------------------------------------------------------------
(* Interest that only accrues: indices of ONE or more, and what is settled *)

\* The share of the interest that goes to the insurance is a share.
Prudent(e) == e.cfg.insurance_ratio <= ONE

\* Indices at ONE or more that do not fall.
Growing(P) == /\ P.deposit_index >= ONE /\ P.loan_index >= ONE
              /\ P.deposit_interest_rate >= 0 /\ P.variable_loan_interest_rate >= 0

\* Nobody owes a negative amount or pays a negative rate.
Booked(P) == /\ P.variable_loan_share_quantity >= 0
             /\ P.stable_loan_amount >= 0 /\ P.stable_loan_interest_rate >= 0

\* R has the indices that P has at the current epoch.
Settled(R, P, e) == /\ R.last_update = e.now
                    /\ R.deposit_index = SupplyIndex(P, e)
                    /\ R.loan_index = LoanIndex(P, e)

SameIndices(R, P) == /\ R.last_update = P.last_update
                     /\ R.deposit_index = P.deposit_index
                     /\ R.loan_index = P.loan_index

SameRates(R, P) == /\ R.deposit_interest_rate = P.deposit_interest_rate
                   /\ R.variable_loan_interest_rate = P.variable_loan_interest_rate

SameStable(R, P) == /\ R.stable_loan_amount = P.stable_loan_amount
                    /\ R.stable_loan_interest_rate = P.stable_loan_interest_rate

LEMMA CompoundRateGrows ==
  ASSUME NEW apy \in Nat, NEW delta \in Nat
  PROVE  CompoundRate(apy, delta) \in Nat /\ CompoundRate(apy, delta) >= ONE
<1>0. apy \in Int /\ apy >= 0 /\ ONE \in Nat
  BY DecimalsAssumption
<1>1. Trunc(apy, EPOCH_OF_YEAR) \in Int /\ Trunc(apy, EPOCH_OF_YEAR) >= 0
  BY <1>0, TruncType, DecimalsAssumption
<1>2. ONE + Trunc(apy, EPOCH_OF_YEAR) \in Nat /\ ONE + Trunc(apy, EPOCH_OF_YEAR) >= ONE
  BY <1>0, <1>1
<1> QED BY <1>2, PowiGrows, PowiNat DEF CompoundRate

LEMMA CompoundInterestGrows ==
  ASSUME NEW amount \in Nat, NEW apy \in Nat, NEW delta \in Nat
  PROVE  /\ CompoundInterest(amount, apy, delta) \in Nat
         /\ CompoundInterest(amount, apy, delta) >= amount
  BY CompoundRateGrows, DMulGrows, DMulNat DEF CompoundInterest

\* Over no time nothing accrues.
LEMMA CompoundInterestNow ==
  ASSUME NEW amount \in Nat, NEW apy \in Int
  PROVE  CompoundInterest(amount, apy, 0) = amount
<1>1. ONE + Trunc(apy, EPOCH_OF_YEAR) \in Int
  BY TruncType, DecimalsAssumption
<1> QED BY <1>1, PowiZero, DMulOne DEF CompoundInterest, CompoundRate

LEMMA LinearInterestGrows ==
  ASSUME NEW amount \in Nat, NEW apy \in Nat, NEW delta \in Nat
  PROVE  /\ LinearInterest(amount, apy, delta) \in Nat
         /\ LinearInterest(amount, apy, delta) >= amount
<1>1. apy * delta \in Int /\ apy * delta >= 0 /\ ONE \in Nat
  BY DecimalsAssumption
<1>2. LinearRate(apy, delta) \in Int /\ LinearRate(apy, delta) >= 0
  BY <1>1, TruncType, DecimalsAssumption DEF LinearRate
<1>3. ONE + LinearRate(apy, delta) \in Nat /\ ONE + LinearRate(apy, delta) >= ONE
  BY <1>1, <1>2
<1> QED BY <1>3, DMulGrows, DMulNat DEF LinearInterest

LEMMA IndicesGrow ==
  ASSUME NEW e \in Environment, NEW P, Sound(P, e), Growing(P)
  PROVE  /\ SupplyIndex(P, e) \in Nat /\ SupplyIndex(P, e) >= P.deposit_index
         /\ LoanIndex(P, e) \in Nat /\ LoanIndex(P, e) >= P.loan_index
         /\ SupplyIndex(P, e) >= ONE /\ LoanIndex(P, e) >= ONE
<1>1. e.now - P.last_update \in Nat
  BY DEF Sound, Pool, Environment
<1>2. /\ P.deposit_index \in Nat /\ P.loan_index \in Nat
      /\ P.deposit_interest_rate \in Nat /\ P.variable_loan_interest_rate \in Nat
      /\ P.deposit_index >= ONE /\ P.loan_index >= ONE /\ ONE \in Nat
  BY DecimalsAssumption DEF Sound, Pool, Growing
<1>3. SupplyIndex(P, e) \in Nat /\ SupplyIndex(P, e) >= P.deposit_index
  <2>1. /\ LinearInterest(P.deposit_index, P.deposit_interest_rate, e.now - P.last_update) \in Nat
        /\ LinearInterest(P.deposit_index, P.deposit_interest_rate, e.now - P.last_update)
             >= P.deposit_index
    BY <1>1, <1>2, LinearInterestGrows
  <2> QED BY <1>2, <2>1 DEF SupplyIndex
<1>4. LoanIndex(P, e) \in Nat /\ LoanIndex(P, e) >= P.loan_index
  <2>1. /\ CompoundInterest(P.loan_index, P.variable_loan_interest_rate, e.now - P.last_update) \in Nat
        /\ CompoundInterest(P.loan_index, P.variable_loan_interest_rate, e.now - P.last_update)
             >= P.loan_index
    BY <1>1, <1>2, CompoundInterestGrows
  <2> QED BY <1>2, <2>1 DEF LoanIndex
<1> QED BY <1>2, <1>3, <1>4

LEMMA VariableRateNat ==
  ASSUME NEW model \in Models, NEW ratio \in Nat
  PROVE  VariableRate(model, ratio) \in Nat
<1> USE InterestModelAssumption, DecimalsAssumption
<1>1. DefaultRate(ratio) \in Nat
  <2>1. Powi(ratio, 2) \in Nat
    BY PowiNat
  <2>2. DMul(ratio, DefPrimary) \in Nat /\ DMul(Powi(ratio, 2), DefQuadratic) \in Nat
    BY <2>1, DMulNat
  <2> QED BY <2>2 DEF DefaultRate
<1>2. StableCoinRate(ratio) \in Nat
  <2> DEFINE r2 == IF ratio > ONE THEN ONE ELSE Powi(ratio, 2)
  <2>1. r2 \in Nat
    BY PowiNat
  <2>2. StableCoinRate(ratio) =
          DMul(StableCoinPrimary, Powi(r2, 2)) + DMul(StableCoinQuadratic, Powi(r2, 4))
    BY DEF StableCoinRate
  <2> HIDE DEF r2
  <2>3. Powi(r2, 2) \in Nat /\ Powi(r2, 4) \in Nat
    BY <2>1, PowiNat
  <2>4. /\ DMul(StableCoinPrimary, Powi(r2, 2)) \in Nat
        /\ DMul(StableCoinQuadratic, Powi(r2, 4)) \in Nat
    BY <2>3, DMulNat
  <2> QED BY <2>2, <2>4
<1> QED BY <1>1, <1>2 DEF VariableRate

\* No rate is negative where no book is.
LEMMA CalcInterestRateNat ==
  ASSUME NEW e \in Environment, Prudent(e), NEW supply \in Nat,
         NEW variableBorrow \in Nat, NEW stableBorrow \in Nat
  PROVE  LET rates == CalcInterestRate(e, supply, variableBorrow, stableBorrow)
         IN  rates.variable \in Nat /\ rates.stable \in Nat /\ rates.supply \in Nat
<1> DEFINE debt     == variableBorrow + stableBorrow
           ratio    == IF supply = 0 THEN 0 ELSE DDiv(debt, supply)
           variable == VariableRate(e.cfg.model, ratio)
           stable   == StableRate(variable, e.validator_apy)
           overall  == IF debt = 0 THEN 0
                       ELSE DDiv(DMul(variableBorrow, variable) + DMul(stableBorrow, stable), debt)
           interest == DMul(DMul(debt, overall), ONE - e.cfg.insurance_ratio)
           paid     == IF supply = 0 THEN 0 ELSE DDiv(interest, supply)
<1>1. /\ e.cfg.model \in Models
      /\ e.validator_apy \in Nat
      /\ ONE - e.cfg.insurance_ratio \in Nat
  BY DecimalsAssumption DEF Environment, PoolConfig, Prudent
<1>2. debt \in Nat
  OBVIOUS
<1>3. CalcInterestRate(e, supply, variableBorrow, stableBorrow)
        = [variable |-> variable, stable |-> stable, supply |-> paid]
  BY DEF CalcInterestRate
<1> HIDE DEF debt
<1>4. ratio \in Nat
  BY <1>2, DDivBounds
<1> HIDE DEF ratio
<1>5. variable \in Nat
  BY <1>1, <1>4, VariableRateNat
<1> HIDE DEF variable
<1>6. stable \in Nat
  BY <1>1, <1>5 DEF StableRate
<1> HIDE DEF stable
<1>7. DMul(variableBorrow, variable) + DMul(stableBorrow, stable) \in Nat
  <2>1. DMul(variableBorrow, variable) \in Nat /\ DMul(stableBorrow, stable) \in Nat
    BY <1>5, <1>6, DMulNat
  <2> QED BY <2>1
<1>8. overall \in Nat
  BY <1>2, <1>7, DDivBounds
<1> HIDE DEF overall
<1>9. interest \in Nat
  BY <1>1, <1>2, <1>8, DMulNat
<1> HIDE DEF interest
<1>10. paid \in Nat
  BY <1>9, DDivBounds
<1> HIDE DEF paid
<1> QED BY <1>3, <1>5, <1>6, <1>10

\* The stable rate is never below the validators' yield, whatever the books.
LEMMA StableRateNat ==
  ASSUME NEW e \in Environment, NEW P, Sound(P, e), NEW extra \in Int
  PROVE  InterestRate(P, e, extra).stable \in Nat
<1> DEFINE rates == InterestRate(P, e, extra)
<1>1. rates.stable = StableRate(rates.variable, e.validator_apy)
  BY DEF InterestRate, CalcInterestRate
<1>2. rates \in Rates
  BY InterestRateType
<1> HIDE DEF rates
<1>3. rates.variable \in Int /\ e.validator_apy \in Nat
  BY <1>2 DEF Rates, Environment
<1>4. rates.stable \in Nat
  BY <1>1, <1>3 DEF StableRate
<1> QED BY <1>4 DEF rates

LEMMA InterestRateNat ==
  ASSUME NEW e \in Environment, Prudent(e), NEW P, Sound(P, e), Growing(P), Booked(P),
         NEW extra \in Nat
  PROVE  /\ InterestRate(P, e, extra).variable \in Nat
         /\ InterestRate(P, e, extra).stable \in Nat
         /\ InterestRate(P, e, extra).supply \in Nat
<1>1. /\ P.dx_supply \in Nat /\ P.variable_loan_share_quantity \in Nat
      /\ P.stable_loan_amount \in Nat /\ P.stable_loan_interest_rate \in Nat
  BY DEF Sound, Pool, Booked
<1>2. DMul(P.dx_supply, SupplyIndex(P, e)) \in Nat
  BY <1>1, IndicesGrow, DMulNat
<1>3. DMul(P.variable_loan_share_quantity, LoanIndex(P, e)) \in Nat
  BY <1>1, IndicesGrow, DMulNat
<1>4. StableLoanValue(P, e) \in Nat
  <2>1. e.now - StableLoanLastUpdate \in Nat
    BY DEF Environment, StableLoanLastUpdate
  <2>2. CompoundInterest(P.stable_loan_amount, P.stable_loan_interest_rate,
                         e.now - StableLoanLastUpdate) \in Nat
    BY <1>1, <2>1, CompoundInterestGrows
  <2> QED BY <1>1, <2>2 DEF StableLoanValue
<1>5. StableLoanValue(P, e) + extra \in Nat
  BY <1>4
<1> QED BY <1>2, <1>3, <1>5, CalcInterestRateNat DEF InterestRate

-----------------------------------------------------------------------------
(* The two updates, again *)

LEMMA UpdateIndexSettles ==
  ASSUME NEW e \in Environment, NEW P, Sound(P, e)
  PROVE  /\ Settled(UpdateIndex(P, e), P, e)
         /\ SameRates(UpdateIndex(P, e), P)
         /\ SameStable(UpdateIndex(P, e), P)
<1>1. P \in Pool
  BY DEF Sound
<1>2. CASE e.now = P.last_update
  BY <1>2 DEF UpdateIndex, Settled, SameRates, SameStable, SupplyIndex, LoanIndex
<1>3. CASE e.now # P.last_update
  <2> DEFINE balance == UpdateIndex(P, e).insurance_balance
             S == SupplyIndex(P, e)
             L == LoanIndex(P, e)
  <2>1. UpdateIndex(P, e) = [P EXCEPT !.insurance_balance = balance, !.deposit_index = S,
                                      !.loan_index = L, !.last_update = e.now]
    BY <1>1, <1>3 DEF UpdateIndex, Pool
  <2> HIDE DEF balance, S, L
  <2>2. /\ UpdateIndex(P, e).last_update = e.now
        /\ UpdateIndex(P, e).deposit_index = S /\ UpdateIndex(P, e).loan_index = L
        /\ SameRates(UpdateIndex(P, e), P) /\ SameStable(UpdateIndex(P, e), P)
    BY <1>1, <2>1 DEF Pool, SameRates, SameStable
  <2> QED BY <2>2 DEF Settled, S, L
<1> QED BY <1>2, <1>3

LEMMA UpdateInterestRateKeeps ==
  ASSUME NEW e \in Environment, Prudent(e), NEW R, Sound(R, e), Growing(R), Booked(R)
  PROVE  LET U == UpdateInterestRate(R, e)
         IN  /\ SameIndices(U, R) /\ SameStable(U, R)
             /\ Growing(U) /\ Booked(U)
<1> DEFINE d == InterestRate(R, e, 0).supply
           v == InterestRate(R, e, 0).variable
<1>1. d \in Nat /\ v \in Nat
  BY InterestRateNat
<1>2. UpdateInterestRate(R, e) = [R EXCEPT !.deposit_interest_rate = d,
                                           !.variable_loan_interest_rate = v]
  BY DEF UpdateInterestRate
<1> HIDE DEF d, v
<1>3. R \in Pool
  BY DEF Sound
<1> QED BY <1>1, <1>2, <1>3 DEF Pool, SameIndices, SameStable, Growing, Booked

\* What every method but repay_stable and repay_flashloan leaves: the indices
\* of the moment, stored, and a mean stable rate of its own.
Steady(Q, P, e) == /\ Sound(Q, e) /\ Growing(Q) /\ Booked(Q)
                   /\ Settled(Q, P, e)

\* A method brings the indices up, moves the books and sets the rates.
LEMMA MethodSteady ==
  ASSUME NEW e \in Environment, Prudent(e), NEW P, Sound(P, e), Growing(P),
         NEW R, Sound(R, e), Booked(R), SameRates(R, P), Settled(R, P, e)
  PROVE  /\ Steady(UpdateInterestRate(R, e), P, e)
         /\ SameStable(UpdateInterestRate(R, e), R)
<1>1. /\ SupplyIndex(P, e) >= ONE /\ LoanIndex(P, e) >= ONE
  BY IndicesGrow
<1>2. Growing(R)
  BY <1>1 DEF Growing, SameRates, Settled
<1>3. /\ SameIndices(UpdateInterestRate(R, e), R) /\ SameStable(UpdateInterestRate(R, e), R)
      /\ Growing(UpdateInterestRate(R, e)) /\ Booked(UpdateInterestRate(R, e))
  BY <1>2, UpdateInterestRateKeeps
<1>4. Sound(UpdateInterestRate(R, e), e)
  BY UpdateInterestRateSound
<1>5. Settled(UpdateInterestRate(R, e), P, e)
  BY <1>3 DEF SameIndices, Settled
<1> QED BY <1>3, <1>4, <1>5 DEF Steady

\* A settled pool shows the indices of before.
LEMMA SteadyIndices ==
  ASSUME NEW e \in Environment, NEW P, NEW Q, Settled(Q, P, e)
  PROVE  SupplyIndex(Q, e) = SupplyIndex(P, e) /\ LoanIndex(Q, e) = LoanIndex(P, e)
  BY DEF Settled, SupplyIndex, LoanIndex

-----------------------------------------------------------------------------
(* The methods *)

\* Only the vault moves.
LEMMA VaultMoved ==
  ASSUME NEW e \in Environment, NEW P, NEW U, Steady(U, P, e), NEW v \in Nat
  PROVE  Steady([U EXCEPT !.vault = v], P, e) /\ SameStable([U EXCEPT !.vault = v], U)
<1> DEFINE V == [U EXCEPT !.vault = v]
<1>1. U \in Pool /\ Growing(U) /\ Booked(U) /\ Settled(U, P, e) /\ U.last_update <= e.now
  BY DEF Steady, Sound
<1>2. V \in Pool /\ SameIndices(V, U) /\ SameRates(V, U) /\ SameStable(V, U)
      /\ V.variable_loan_share_quantity = U.variable_loan_share_quantity
  BY <1>1 DEF Pool, SameIndices, SameRates, SameStable
<1> HIDE DEF V
<1>3. Sound(V, e)
  BY <1>1, <1>2 DEF SameIndices, Sound
<1>4. Settled(V, P, e) /\ Growing(V) /\ Booked(V)
  BY <1>1, <1>2 DEF SameIndices, SameRates, SameStable, Settled, Growing, Booked
<1> QED BY <1>2, <1>3, <1>4 DEF Steady, V

LEMMA AddLiquiditySteady ==
  ASSUME NEW e \in Environment, Prudent(e), NEW P, Sound(P, e), Growing(P), Booked(P),
         NEW amount \in Nat, CanAddLiquidity(P, e, amount)
  PROVE  /\ Steady(AddLiquidity(P, e, amount), P, e)
         /\ SameStable(AddLiquidity(P, e, amount), P)
<1> DEFINE minted == MintedDx(P, e, amount)
           Q == UpdateIndex(P, e)
           R == [Q EXCEPT !.vault = @ + amount, !.dx_supply = @ + minted]
<1>1. minted \in Nat
  BY AddLiquiditySound
<1>2. AddLiquidity(P, e, amount) = UpdateInterestRate(R, e)
  BY DEF AddLiquidity
<1>3. /\ Sound(Q, e) /\ SameBooks(Q, P)
      /\ Settled(Q, P, e) /\ SameRates(Q, P) /\ SameStable(Q, P)
  BY UpdateIndexSound, UpdateIndexSettles
<1> HIDE DEF minted, Q
<1>4. Q \in Pool /\ Q.vault + amount \in Nat /\ Q.dx_supply + minted \in Nat
  BY <1>1, <1>3 DEF Sound, Pool
<1>5. /\ R \in Pool /\ SameIndices(R, Q) /\ SameRates(R, Q) /\ SameStable(R, Q)
      /\ R.variable_loan_share_quantity = Q.variable_loan_share_quantity
  BY <1>4 DEF Pool, SameIndices, SameRates, SameStable
<1> HIDE DEF R
<1>6. /\ Sound(R, e) /\ Booked(R) /\ SameRates(R, P) /\ Settled(R, P, e) /\ SameStable(R, P)
  BY <1>3, <1>5 DEF Sound, SameBooks, SameIndices, SameRates, SameStable, Settled, Booked
<1>7. Steady(UpdateInterestRate(R, e), P, e) /\ SameStable(UpdateInterestRate(R, e), R)
  BY <1>6, MethodSteady
<1> QED BY <1>2, <1>6, <1>7 DEF SameStable

LEMMA RemoveLiquiditySteady ==
  ASSUME NEW e \in Environment, Prudent(e), NEW P, Sound(P, e), Growing(P), Booked(P),
         NEW dx \in Nat, dx <= P.dx_supply, CanRemoveLiquidity(P, e, dx)
  PROVE  /\ Steady(RemoveLiquidity(P, e, dx), P, e)
         /\ SameStable(RemoveLiquidity(P, e, dx), P)
<1> DEFINE removed == RemovedAmount(P, e, dx)
           Q == UpdateIndex(P, e)
           R == [Q EXCEPT !.dx_supply = @ - dx]
           U == UpdateInterestRate(R, e)
<1>1. removed \in Int /\ removed <= P.vault
  <2>1. e.cfg.unit \in Nat \ {0}
    BY DEF Environment, PoolConfig
  <2>2. removed \in Int
    BY <2>1, RedemptionValueType, FloorToBounds DEF RemovedAmount
  <2> QED BY <2>2 DEF CanRemoveLiquidity, VaultCovers
<1>2. RemoveLiquidity(P, e, dx) = [U EXCEPT !.vault = U.vault - removed]
  BY DEF RemoveLiquidity
<1>3. /\ Sound(Q, e) /\ SameBooks(Q, P)
      /\ Settled(Q, P, e) /\ SameRates(Q, P) /\ SameStable(Q, P)
  BY UpdateIndexSound, UpdateIndexSettles
<1> HIDE DEF removed, Q
<1>4. Q \in Pool /\ Q.dx_supply - dx \in Nat
  BY <1>3 DEF Sound, SameBooks, Pool
<1>5. /\ R \in Pool /\ SameIndices(R, Q) /\ SameRates(R, Q) /\ SameStable(R, Q)
      /\ R.variable_loan_share_quantity = Q.variable_loan_share_quantity
      /\ R.vault = Q.vault
  BY <1>4 DEF Pool, SameIndices, SameRates, SameStable
<1> HIDE DEF R
<1>6. /\ Sound(R, e) /\ Booked(R) /\ SameRates(R, P) /\ Settled(R, P, e) /\ SameStable(R, P)
  BY <1>3, <1>5 DEF Sound, SameBooks, SameIndices, SameRates, SameStable, Settled, Booked
<1>7. /\ Steady(U, P, e) /\ SameStable(U, R) /\ SameBooks(U, R)
  BY <1>6, MethodSteady, UpdateInterestRateSound
<1> HIDE DEF U
<1>8. U.vault - removed \in Nat
  <2>1. U.vault = P.vault /\ P.vault \in Nat
    BY <1>3, <1>5, <1>7 DEF SameBooks, Sound, Pool
  <2> QED BY <1>1, <2>1
<1>9. Steady([U EXCEPT !.vault = U.vault - removed], P, e)
      /\ SameStable([U EXCEPT !.vault = U.vault - removed], U)
  BY <1>7, <1>8, VaultMoved
<1> QED BY <1>2, <1>6, <1>7, <1>9 DEF SameStable

LEMMA HandOutSteady ==
  ASSUME NEW e \in Environment, Prudent(e), NEW P, Sound(P, e), Growing(P),
         NEW R, Sound(R, e), Booked(R), SameRates(R, P), Settled(R, P, e),
         NEW amount \in Nat, amount <= R.vault
  PROVE  LET S == HandOut(UpdateInterestRate(R, e), e, amount)
         IN  Steady(S, P, e) /\ SameStable(S, R)
<1> DEFINE lent == FloorTo(amount, e.cfg.unit)
           U == UpdateInterestRate(R, e)
<1>1. lent \in Int /\ lent <= amount
  <2>1. e.cfg.unit \in Nat \ {0} /\ amount \in Int /\ amount >= 0
    BY DEF Environment, PoolConfig
  <2> QED BY <2>1, FloorToBounds
<1>2. Steady(U, P, e) /\ SameStable(U, R) /\ SameBooks(U, R)
  BY MethodSteady, UpdateInterestRateSound
<1>3. HandOut(U, e, amount) = [U EXCEPT !.vault = U.vault - lent]
  BY DEF HandOut
<1> HIDE DEF lent, U
<1>4. U.vault - lent \in Nat
  BY <1>1, <1>2 DEF SameBooks, Sound, Pool
<1>5. Steady([U EXCEPT !.vault = U.vault - lent], P, e)
      /\ SameStable([U EXCEPT !.vault = U.vault - lent], U)
  BY <1>2, <1>4, VaultMoved
<1> QED BY <1>2, <1>3, <1>5 DEF SameStable, U

LEMMA BorrowVariableSteady ==
  ASSUME NEW e \in Environment, Prudent(e), NEW P, Sound(P, e), Growing(P), Booked(P),
         NEW amount \in Nat, CanBorrowVariable(P, e, amount), SharesFor(P, e, amount) \in Nat
  PROVE  /\ Steady(PoolBorrowVariable(P, e, amount), P, e)
         /\ SameStable(PoolBorrowVariable(P, e, amount), P)
<1> DEFINE shares == SharesFor(P, e, amount)
           Q == UpdateIndex(P, e)
           R == [Q EXCEPT !.variable_loan_share_quantity = @ + shares]
           S == PoolBorrowVariable(P, e, amount)
<1>1. S = HandOut(UpdateInterestRate(R, e), e, amount)
  BY DEF PoolBorrowVariable, HandOut
<1>2. shares \in Nat
  OBVIOUS
<1>3. /\ Sound(Q, e) /\ SameBooks(Q, P)
      /\ Settled(Q, P, e) /\ SameRates(Q, P) /\ SameStable(Q, P)
  BY UpdateIndexSound, UpdateIndexSettles
<1> HIDE DEF shares, Q, S
<1>4. Q \in Pool /\ Q.variable_loan_share_quantity + shares \in Int
  BY <1>2, <1>3 DEF Sound, Pool
<1>5. /\ R \in Pool /\ SameIndices(R, Q) /\ SameRates(R, Q) /\ SameStable(R, Q)
      /\ R.variable_loan_share_quantity = Q.variable_loan_share_quantity + shares
      /\ R.vault = Q.vault
  BY <1>4 DEF Pool, SameIndices, SameRates, SameStable
<1> HIDE DEF R
<1>6. R.variable_loan_share_quantity >= 0
  <2>1. Q.variable_loan_share_quantity >= 0 /\ Q.variable_loan_share_quantity \in Int
    BY <1>3 DEF Booked, SameBooks, Sound, Pool
  <2> QED BY <1>2, <1>5, <2>1
<1>7. /\ Sound(R, e) /\ Booked(R) /\ SameRates(R, P) /\ Settled(R, P, e) /\ SameStable(R, P)
  BY <1>3, <1>5, <1>6 DEF Sound, SameBooks, SameIndices, SameRates, SameStable, Settled, Booked
<1>8. amount <= R.vault
  BY <1>3, <1>5 DEF SameBooks, CanBorrowVariable, VaultCovers
<1>9. Steady(S, P, e) /\ SameStable(S, R)
  BY <1>1, <1>7, <1>8, HandOutSteady
<1> QED BY <1>7, <1>9 DEF SameStable, S

LEMMA WeightRateNat ==
  ASSUME NEW a \in Nat, NEW r \in Nat, NEW b \in Nat, NEW s \in Nat, a + b # 0
  PROVE  WeightRate(a, r, b, s) \in Nat
<1>1. DMul(a, r) + DMul(b, s) \in Nat
  <2>1. DMul(a, r) \in Nat /\ DMul(b, s) \in Nat
    BY DMulNat
  <2> QED BY <2>1
<1>2. a + b \in Nat \ {0}
  OBVIOUS
<1> QED BY <1>1, <1>2, DDivBounds DEF WeightRate

LEMMA BorrowStableSteady ==
  ASSUME NEW e \in Environment, Prudent(e), NEW P, Sound(P, e), Growing(P), Booked(P),
         NEW amount \in Nat, NEW rate \in Nat, CanBorrowStable(P, amount)
  PROVE  Steady(PoolBorrowStable(P, e, amount, rate), P, e)
<1> DEFINE Q == UpdateIndex(P, e)
           mean == WeightRate(Q.stable_loan_amount, Q.stable_loan_interest_rate, amount, rate)
           R == [Q EXCEPT !.stable_loan_interest_rate = mean,
                          !.stable_loan_amount = @ + amount]
           S == PoolBorrowStable(P, e, amount, rate)
<1>1. S = HandOut(UpdateInterestRate(R, e), e, amount)
  BY Zenon DEF PoolBorrowStable, HandOut
<1>3. /\ Sound(Q, e) /\ SameBooks(Q, P)
      /\ Settled(Q, P, e) /\ SameRates(Q, P) /\ SameStable(Q, P)
  BY UpdateIndexSound, UpdateIndexSettles
<1> HIDE DEF Q, S
<1>2. /\ Q.stable_loan_amount \in Nat /\ Q.stable_loan_interest_rate \in Nat
      /\ Q.stable_loan_amount + amount # 0 /\ Q.stable_loan_amount + amount \in Nat
  BY <1>3 DEF Sound, Pool, Booked, SameStable, CanBorrowStable
<1>4. mean \in Nat
  BY <1>2, WeightRateNat
<1> HIDE DEF mean
<1>5. /\ R \in Pool /\ SameIndices(R, Q) /\ SameRates(R, Q)
      /\ R.stable_loan_interest_rate = mean
      /\ R.stable_loan_amount = Q.stable_loan_amount + amount
      /\ R.variable_loan_share_quantity = Q.variable_loan_share_quantity
      /\ R.vault = Q.vault
  <2>1. Q \in Pool /\ mean \in Int /\ Q.stable_loan_amount + amount \in Int
    BY <1>2, <1>3, <1>4 DEF Sound
  <2> QED BY <2>1 DEF Pool, SameIndices, SameRates
<1> HIDE DEF R
<1>6. R.stable_loan_amount >= 0 /\ R.stable_loan_interest_rate >= 0
  BY <1>2, <1>4, <1>5
<1>7. /\ Sound(R, e) /\ Booked(R) /\ SameRates(R, P) /\ Settled(R, P, e)
  BY <1>3, <1>5, <1>6 DEF Sound, SameBooks, SameIndices, SameRates, Settled, Booked
<1>8. amount <= R.vault
  BY <1>3, <1>5 DEF SameBooks, CanBorrowStable, VaultCovers
<1>9. Steady(S, P, e)
  BY <1>1, <1>7, <1>8, HandOutSteady
<1> QED BY <1>9 DEF S

LEMMA RepayVariableSteady ==
  ASSUME NEW e \in Environment, Prudent(e), NEW P, Sound(P, e), Growing(P), Booked(P),
         NEW bucket \in Int, NEW shares \in Int, NEW limit \in Int,
         CanRepayVariable(P, e, bucket, shares, limit),
         PoolRepayVariable(P, e, bucket, shares, limit).variable_loan_share_quantity >= 0
  PROVE  /\ Steady(PoolRepayVariable(P, e, bucket, shares, limit), P, e)
         /\ SameStable(PoolRepayVariable(P, e, bucket, shares, limit), P)
<1> DEFINE paid == VariablePayment(P, e, bucket, shares, limit)
           gone == SharesRepaid(P, e, paid, shares)
           Q == UpdateIndex(P, e)
           R == [Q EXCEPT !.variable_loan_share_quantity = @ - gone, !.vault = @ + paid]
           S == PoolRepayVariable(P, e, bucket, shares, limit)
<1>1. paid \in Nat /\ gone \in Int
      /\ S.variable_loan_share_quantity = P.variable_loan_share_quantity - gone
  BY RepayVariableSound
<1>2. S = UpdateInterestRate(R, e)
  BY DEF PoolRepayVariable
<1>3. /\ Sound(Q, e) /\ SameBooks(Q, P)
      /\ Settled(Q, P, e) /\ SameRates(Q, P) /\ SameStable(Q, P)
  BY UpdateIndexSound, UpdateIndexSettles
<1>4. S.variable_loan_share_quantity >= 0
  OBVIOUS
<1> HIDE DEF gone, Q, S, paid
<1>5. Q \in Pool /\ Q.vault + paid \in Nat /\ Q.variable_loan_share_quantity - gone \in Int
  BY <1>1, <1>3 DEF Sound, Pool
<1>6. /\ R \in Pool /\ SameIndices(R, Q) /\ SameRates(R, Q) /\ SameStable(R, Q)
      /\ R.variable_loan_share_quantity = Q.variable_loan_share_quantity - gone
  BY <1>5 DEF Pool, SameIndices, SameRates, SameStable
<1> HIDE DEF R
<1>7. R.variable_loan_share_quantity >= 0
  BY <1>1, <1>3, <1>4, <1>6 DEF SameBooks
<1>8. /\ Sound(R, e) /\ Booked(R) /\ SameRates(R, P) /\ Settled(R, P, e) /\ SameStable(R, P)
  BY <1>3, <1>6, <1>7 DEF Sound, SameBooks, SameIndices, SameRates, SameStable, Settled, Booked
<1>9. Steady(S, P, e) /\ SameStable(S, R)
  BY <1>2, <1>8, MethodSteady
<1> QED BY <1>8, <1>9 DEF SameStable, S

\* repay_stable stores no new index: the rates change from the last update on.
LEMMA RepayStableGrows ==
  ASSUME NEW e \in Environment, Prudent(e), NEW P, Sound(P, e), Growing(P), Booked(P),
         NEW bucket \in Int, NEW loan \in Int,
         NEW rate \in Int, NEW since \in Nat, since <= e.now, NEW limit \in Int,
         CanRepayStable(e, bucket, loan, rate, since, limit),
         PoolRepayStable(P, e, bucket, loan, rate, since, limit).stable_loan_interest_rate >= 0
  PROVE  LET S == PoolRepayStable(P, e, bucket, loan, rate, since, limit)
         IN  Growing(S) /\ Booked(S) /\ SameIndices(S, P)
<1> DEFINE borrow   == RepayInBorrow(e, bucket, loan, rate, since, limit)
           left     == P.stable_loan_amount - borrow
           weighted == DMul(P.stable_loan_amount, P.stable_loan_interest_rate)
           paid     == StablePayment(e, bucket, loan, rate, since, limit)
           amount   == IF left > 0 THEN left ELSE 0
           mean     == IF left > 0 THEN DDiv(weighted - DMul(borrow, rate), left) ELSE 0
           R        == [P EXCEPT !.stable_loan_amount = amount,
                                 !.stable_loan_interest_rate = mean,
                                 !.vault = @ + paid]
           S        == PoolRepayStable(P, e, bucket, loan, rate, since, limit)
<1>1. S = UpdateInterestRate(R, e)
  BY Zenon DEF PoolRepayStable
<1>2. paid \in Nat /\ borrow \in Int
  BY RepayStableSound
<1>3. P \in Pool /\ P.stable_loan_amount \in Int /\ P.stable_loan_interest_rate \in Int
      /\ P.vault + paid \in Nat
  BY <1>2 DEF Sound, Pool
<1>4. S.stable_loan_interest_rate >= 0
  OBVIOUS
<1> HIDE DEF borrow, paid, S
<1>5. left \in Int
  BY <1>2, <1>3
<1> HIDE DEF left
<1>6. weighted \in Int /\ DMul(borrow, rate) \in Int
  BY <1>2, <1>3, DMulType
<1>7. weighted - DMul(borrow, rate) \in Int
  BY <1>6
<1> HIDE DEF weighted
<1>8. amount \in Int /\ amount >= 0 /\ mean \in Int
  <2>1. left > 0 => DDiv(weighted - DMul(borrow, rate), left) \in Int
    BY <1>5, <1>7, DDivType
  <2> QED BY <1>5, <2>1
<1> HIDE DEF amount, mean
<1>9. /\ R \in Pool /\ SameIndices(R, P) /\ SameRates(R, P)
      /\ R.variable_loan_share_quantity = P.variable_loan_share_quantity
      /\ R.stable_loan_amount = amount /\ R.stable_loan_interest_rate = mean
  BY <1>3, <1>8 DEF Pool, SameIndices, SameRates
<1> HIDE DEF R
<1>10. S.stable_loan_interest_rate = mean
  BY <1>1, <1>9 DEF UpdateInterestRate, Pool
<1>11. Sound(R, e) /\ Growing(R) /\ Booked(R)
  BY <1>4, <1>8, <1>9, <1>10 DEF Sound, SameIndices, SameRates, Growing, Booked
<1>12. SameIndices(S, R) /\ Growing(S) /\ Booked(S)
  BY <1>1, <1>11, UpdateInterestRateKeeps
<1> QED BY <1>9, <1>12 DEF SameIndices, S

\* What leaves the indices, the rates and the books alone.
Quiet(Q, P) == /\ SameIndices(Q, P) /\ SameRates(Q, P) /\ SameStable(Q, P)
               /\ Q.variable_loan_share_quantity = P.variable_loan_share_quantity

LEMMA VaultQuiet ==
  ASSUME NEW P \in Pool, NEW v \in Int
  PROVE  Quiet([P EXCEPT !.vault = v], P)
  BY DEF Pool, Quiet, SameIndices, SameRates, SameStable

LEMMA QuietKeeps ==
  ASSUME NEW P, NEW Q, NEW e, Quiet(Q, P)
  PROVE  /\ Growing(P) => Growing(Q)
         /\ Booked(P) => Booked(Q)
         /\ SupplyIndex(Q, e) = SupplyIndex(P, e) /\ LoanIndex(Q, e) = LoanIndex(P, e)
  BY DEF Quiet, SameIndices, SameRates, SameStable, Growing, Booked, SupplyIndex, LoanIndex

LEMMA BorrowFlashloanQuiet ==
  ASSUME NEW e \in Environment, NEW P, Sound(P, e), NEW amount \in Nat
  PROVE  Quiet(PoolBorrowFlashloan(P, e, amount), P)
<1>1. e.cfg.unit \in Nat \ {0} /\ P \in Pool /\ P.vault \in Nat
  BY DEF Environment, PoolConfig, Sound, Pool
<1>2. FloorTo(amount, e.cfg.unit) \in Int
  BY <1>1, FloorToBounds
<1>3. P.vault - FloorTo(amount, e.cfg.unit) \in Int
  BY <1>1, <1>2
<1> QED BY <1>1, <1>3, VaultQuiet DEF PoolBorrowFlashloan

LEMMA WithdrawInsuranceQuiet ==
  ASSUME NEW e \in Environment, NEW P, Sound(P, e), NEW amount \in Nat
  PROVE  Quiet(PoolWithdrawInsurance(P, e, amount), P)
<1>1. e.cfg.unit \in Nat \ {0} /\ P \in Pool /\ P.vault \in Nat
  BY DEF Environment, PoolConfig, Sound, Pool
<1>2. FloorTo(amount, e.cfg.unit) \in Int
  BY <1>1, FloorToBounds
<1>3. P.vault - FloorTo(amount, e.cfg.unit) \in Int
  BY <1>1, <1>2
<1> QED BY <1>1, <1>3, VaultQuiet DEF PoolWithdrawInsurance

\* A flash loan's fee raises the deposit index, and no other index moves.
LEMMA RepayFlashloanGrows ==
  ASSUME NEW e \in Environment, Prudent(e), NEW P, Sound(P, e), Growing(P), Booked(P),
         NEW amount \in Nat, NEW fee \in Nat, CanRepayFlashloan(P, e, fee)
  PROVE  LET S == PoolRepayFlashloan(P, e, amount, fee)
         IN  /\ Growing(S) /\ Booked(S) /\ SameStable(S, P)
             /\ S.deposit_index >= P.deposit_index /\ S.loan_index >= P.loan_index
             /\ SupplyIndex(S, e) >= SupplyIndex(P, e)
             /\ LoanIndex(S, e) = LoanIndex(P, e)
<1> DEFINE due       == FlashloanDue(e, amount, fee)
           V         == [P EXCEPT !.vault = @ + due]
           Q         == UpdateIndex(V, e)
           supply    == DMul(Q.dx_supply, Q.deposit_index)
           insurance == DMul(fee, e.cfg.insurance_ratio)
           gain      == DDiv(fee - insurance, supply)
           R         == [Q EXCEPT !.insurance_balance = @ + insurance,
                                  !.deposit_index = @ + gain]
           S         == PoolRepayFlashloan(P, e, amount, fee)
<1>1. due \in Nat
  <2>1. e.cfg.unit \in Nat \ {0} /\ amount + fee \in Int /\ amount + fee >= 0
    BY DEF Environment, PoolConfig
  <2>2. due \in Int /\ amount + fee <= due
    BY <2>1, CeilToBounds DEF FlashloanDue
  <2> QED BY <2>1, <2>2
<1>2. S = IF fee > 0 THEN UpdateInterestRate(R, e) ELSE V
  BY Zenon DEF PoolRepayFlashloan
<1>3. insurance \in Nat /\ insurance <= fee
  <2>1. e.cfg.insurance_ratio \in Nat /\ e.cfg.insurance_ratio <= ONE /\ ONE \in Nat
    BY DecimalsAssumption DEF Environment, PoolConfig, Prudent
  <2>2. DMul(e.cfg.insurance_ratio, fee) <= DMul(ONE, fee)
    BY <2>1, DMulMonotone
  <2>3. DMul(ONE, fee) = DMul(fee, ONE) /\ DMul(fee, ONE) = fee
    BY <2>1, DMulCommutes, DMulOne
  <2>4. DMul(e.cfg.insurance_ratio, fee) = insurance
    BY <2>1, DMulCommutes
  <2> QED BY <2>1, <2>2, <2>3, <2>4, DMulNat
<1> HIDE DEF due, insurance, S
<1>4. P \in Pool /\ P.vault + due \in Nat /\ P.vault + due \in Int
  BY <1>1 DEF Sound, Pool
<1>5. Quiet(V, P) /\ V.dx_supply = P.dx_supply /\ Sound(V, e)
  <2>1. Quiet(V, P)
    BY <1>4, VaultQuiet
  <2>2. V.dx_supply = P.dx_supply /\ Sound(V, e)
    BY <1>4 DEF Sound, Pool
  <2> QED BY <2>1, <2>2
<1>6. /\ Growing(V) /\ Booked(V)
      /\ SupplyIndex(V, e) = SupplyIndex(P, e) /\ LoanIndex(V, e) = LoanIndex(P, e)
  BY <1>5, QuietKeeps
<1> HIDE DEF V
<1>7. /\ Sound(Q, e) /\ SameBooks(Q, V)
      /\ Settled(Q, V, e) /\ SameRates(Q, V) /\ SameStable(Q, V)
  BY <1>5, UpdateIndexSound, UpdateIndexSettles
<1>8. /\ SupplyIndex(P, e) \in Nat /\ SupplyIndex(P, e) >= P.deposit_index
      /\ LoanIndex(P, e) \in Nat /\ LoanIndex(P, e) >= P.loan_index
      /\ SupplyIndex(P, e) >= ONE /\ LoanIndex(P, e) >= ONE
  BY IndicesGrow
<1> HIDE DEF Q
<1>9. CASE fee > 0
  <2>1. /\ Q \in Pool /\ Q.dx_supply \in Nat
        /\ Q.deposit_index \in Nat /\ Q.insurance_balance \in Int
    BY <1>6, <1>7, <1>8 DEF Sound, Pool, Settled
  <2>2. supply \in Nat \ {0}
    <3>1. supply \in Nat
      BY <2>1, DMulNat
    <3>2. supply = DMul(P.dx_supply, SupplyIndex(P, e))
      BY <1>5, <1>6, <1>7 DEF SameBooks, Settled
    <3> QED BY <3>1, <3>2, <1>9 DEF CanRepayFlashloan
  <2> HIDE DEF supply
  <2>3. gain \in Nat
    <3>1. fee - insurance \in Nat
      BY <1>3
    <3> QED BY <2>2, <3>1, DDivBounds
  <2> HIDE DEF gain
  <2>4. /\ R \in Pool /\ R.last_update = Q.last_update /\ R.loan_index = Q.loan_index
        /\ R.deposit_index = Q.deposit_index + gain
        /\ SameRates(R, Q) /\ SameStable(R, Q)
        /\ R.variable_loan_share_quantity = Q.variable_loan_share_quantity
    <3>1. Q.insurance_balance + insurance \in Int /\ Q.deposit_index + gain \in Int
      BY <1>3, <2>1, <2>3
    <3> QED BY <2>1, <3>1 DEF Pool, SameRates, SameStable
  <2> HIDE DEF R
  <2>5. /\ R.last_update = e.now
        /\ R.loan_index = LoanIndex(P, e)
        /\ R.deposit_index = SupplyIndex(P, e) + gain
    BY <1>6, <1>7, <2>4 DEF Settled
  <2>6. Sound(R, e) /\ Booked(R)
    BY <1>6, <1>7, <2>4 DEF Sound, Booked, SameBooks, SameStable
  <2>7. Growing(R)
    <3>1. R.deposit_index >= ONE /\ R.loan_index >= ONE
      BY <1>8, <2>3, <2>5, DecimalsAssumption
    <3> QED BY <1>6, <1>7, <2>4, <3>1 DEF Growing, SameRates
  <2>8. S = UpdateInterestRate(R, e)
    BY <1>2, <1>9
  <2>9. SameIndices(S, R) /\ SameStable(S, R) /\ Growing(S) /\ Booked(S)
    BY <2>6, <2>7, <2>8, UpdateInterestRateKeeps
  <2>10. /\ S.last_update = e.now /\ S.loan_index = LoanIndex(P, e)
         /\ S.deposit_index = SupplyIndex(P, e) + gain
    BY <2>5, <2>9 DEF SameIndices
  <2>11. SupplyIndex(S, e) = S.deposit_index /\ LoanIndex(S, e) = S.loan_index
    BY <2>10 DEF SupplyIndex, LoanIndex
  <2>12. P.deposit_index \in Int /\ P.loan_index \in Int
    BY DEF Sound, Pool
  <2>13. SameStable(S, P)
    BY <1>5, <1>7, <2>4, <2>9 DEF SameStable, Quiet
  <2>14. /\ S.deposit_index >= P.deposit_index /\ S.loan_index >= P.loan_index
         /\ SupplyIndex(S, e) >= SupplyIndex(P, e)
         /\ LoanIndex(S, e) = LoanIndex(P, e)
    BY <1>8, <2>3, <2>10, <2>11, <2>12
  <2> QED BY <2>9, <2>13, <2>14 DEF S
<1>10. CASE ~(fee > 0)
  <2>1. S = V
    BY <1>2, <1>10
  <2>2. P.deposit_index \in Int /\ P.loan_index \in Int
    BY DEF Sound, Pool
  <2>3. /\ S.deposit_index >= P.deposit_index /\ S.loan_index >= P.loan_index
        /\ SameStable(S, P)
    BY <1>5, <2>1, <2>2 DEF Quiet, SameIndices
  <2> QED BY <1>6, <1>8, <2>1, <2>3 DEF S
<1> QED BY <1>9, <1>10

-----------------------------------------------------------------------------
(* What loan shares are worth, in exact bounds *)

\* A borrower gets shares for what was borrowed: less by no more than a last
\* digit of shares, and more by less than a unit of shares.
LEMMA SharesForBounds ==
  ASSUME NEW e \in Environment, NEW P, Sound(P, e), Growing(P), NEW amount \in Nat
  PROVE  LET s == SharesFor(P, e, amount)
             L == LoanIndex(P, e)
         IN  /\ s \in Nat /\ s * L \in Nat
             /\ amount * ONE < s * L + L
             /\ (s - (e.cfg.share_unit - 1)) * L <= amount * ONE
<1> DEFINE s == SharesFor(P, e, amount)
           L == LoanIndex(P, e)
           u == e.cfg.share_unit
           q == DDiv(amount, L)
<1>1. L \in Nat \ {0} /\ u \in Nat \ {0}
  BY IndicesGrow, DecimalsAssumption DEF Environment, PoolConfig
<1>2. /\ q \in Nat /\ q * L \in Nat /\ amount * ONE \in Nat
      /\ q * L <= amount * ONE /\ amount * ONE < q * L + L
  BY <1>1, DDivBounds
<1>3. s \in Int /\ q <= s /\ s < q + u
  <2>1. q \in Int
    BY <1>2
  <2>2. s = CeilTo(q, u)
    BY DEF SharesFor
  <2> HIDE DEF s, q, u
  <2> QED BY <1>1, <2>1, <2>2, CeilToBounds
<1> HIDE DEF s, L, u, q
<1>4. s \in Nat /\ s - (u - 1) \in Int /\ s - (u - 1) <= q
  BY <1>1, <1>2, <1>3
<1>5. s * L \in Nat /\ q * L <= s * L
  BY <1>1, <1>2, <1>3, <1>4, TimesMonotone
<1>6. (s - (u - 1)) * L <= q * L /\ (s - (u - 1)) * L \in Int
  BY <1>1, <1>2, <1>4, TimesMonotone
<1>7. amount * ONE < s * L + L
  <2> DEFINE m == amount * ONE    x == q * L    y == s * L
  <2>1. m \in Nat /\ x \in Nat /\ y \in Nat /\ m < x + L /\ x <= y
    BY <1>2, <1>5
  <2> HIDE DEF m, x, y
  <2>2. m < y + L
    BY <1>1, <2>1
  <2> QED BY <2>2 DEF m, y
<1>8. (s - (u - 1)) * L <= amount * ONE
  <2> DEFINE m == amount * ONE    x == q * L    y == (s - (u - 1)) * L
  <2>1. m \in Nat /\ x \in Nat /\ y \in Int /\ x <= m /\ y <= x
    BY <1>2, <1>6
  <2> HIDE DEF m, x, y
  <2>2. y <= m
    BY <2>1
  <2> QED BY <2>2 DEF m, y
<1> QED BY <1>4, <1>5, <1>7, <1>8 DEF s, L, u

\* A variable repayment takes away shares for what was paid: no more of the debt
\* than that, and no less but for the last unit of the token or of shares.
LEMMA VariableRepaymentBounds ==
  ASSUME NEW e \in Environment, NEW P, Sound(P, e), Growing(P), NEW bucket \in Int,
         NEW shares \in Nat, NEW limit \in Int,
         CanRepayVariable(P, e, bucket, shares, limit),
         NEW paid, paid = VariablePayment(P, e, bucket, shares, limit),
         NEW gone, gone = SharesRepaid(P, e, paid, shares),
         NEW L, L = LoanIndex(P, e)
  PROVE  /\ paid \in Nat /\ gone \in Nat /\ gone <= shares /\ L \in Nat \ {0}
         /\ DMul(shares, L) <= DMul(shares - gone, L) + paid
         /\ shares * L <= (shares - gone) * L + paid * ONE + ONE
         /\ \/ paid - (DMul(shares, L) - DMul(shares - gone, L)) < e.cfg.unit
            \/ (paid - (DMul(shares, L) - DMul(shares - gone, L)) - 1) * ONE
                 < e.cfg.share_unit * L
<1> DEFINE d == DMul(shares, L)
           due == VariableDebt(P, e, shares)
           q == DDiv(paid, L)
           u == e.cfg.unit
           su == e.cfg.share_unit
<1>1. /\ L \in Nat \ {0} /\ u \in Nat \ {0} /\ su \in Nat \ {0} /\ ONE \in Nat \ {0}
  BY IndicesGrow, DecimalsAssumption DEF Environment, PoolConfig
<1>2. /\ d \in Nat /\ d * ONE \in Nat /\ shares * L \in Nat
      /\ d * ONE <= shares * L /\ shares * L < d * ONE + ONE
  BY <1>1, DMulBounds
<1>3. due = CeilTo(d, u) /\ due \in Int /\ d <= due /\ due < d + u
  <2>1. due = CeilTo(d, u) /\ d \in Int
    BY <1>2 DEF VariableDebt
  <2> HIDE DEF d, due, u
  <2> QED BY <1>1, <2>1, CeilToBounds
<1>4. paid \in Nat
  BY RepayVariableSound
<1>5. paid <= due
  <2>1. AtMost(bucket, due) \in Int /\ AtMost(bucket, due) <= due
    BY <1>3, AtMostType
  <2>2. paid <= AtMost(bucket, due)
    BY <2>1, AtMostType DEF VariablePayment
  <2> HIDE DEF due
  <2> QED BY <1>3, <1>4, <2>1, <2>2
<1>6. paid % u = 0
  BY DEF CanRepayVariable, Takeable
<1>7. /\ q \in Nat /\ q * L \in Nat /\ paid * ONE \in Nat
      /\ q * L <= paid * ONE /\ paid * ONE < q * L + L
  BY <1>1, <1>4, DDivBounds
<1>8. gone = IF paid = due THEN shares ELSE FloorTo(q, su)
  BY DEF SharesRepaid
<1> HIDE DEF d, due, q, u, su
<1>9. CASE paid = due
  <2>1. gone = shares /\ shares - gone = 0
    BY <1>8, <1>9
  <2>2. DMul(shares - gone, L) = 0 /\ (shares - gone) * L = 0
    BY <1>1, <2>1, DMulZero
  <2>3. d * ONE <= paid * ONE
    BY <1>1, <1>2, <1>3, <1>9, TimesMonotone
  <2>4. shares * L <= paid * ONE + ONE
    <3> DEFINE x == d * ONE   y == shares * L   z == paid * ONE
    <3>1. x \in Nat /\ y \in Nat /\ z \in Nat /\ y < x + ONE /\ x <= z
      BY <1>2, <1>7, <2>3
    <3> HIDE DEF x, y, z
    <3>2. y <= z + ONE
      BY <1>1, <3>1
    <3> QED BY <3>2 DEF y, z
  <2>5. paid - (d - 0) < u
    BY <1>1, <1>2, <1>3, <1>9
  <2>6. d <= 0 + paid /\ shares * L <= 0 + paid * ONE + ONE
    BY <1>1, <1>2, <1>3, <1>7, <1>9, <2>4
  <2> QED BY <1>1, <1>4, <2>1, <2>2, <2>5, <2>6 DEF d, u
<1>10. CASE paid # due
  <2>1. gone = FloorTo(q, su)
    BY <1>8, <1>10
  <2>2. gone \in Nat /\ gone <= q /\ q < gone + su
    <3>1. q \in Int /\ q >= 0
      BY <1>7
    <3> QED BY <1>1, <2>1, <3>1, FloorToBounds
  <2>3. paid <= d
    <3>1. paid \in Int /\ d \in Int /\ paid < CeilTo(d, u)
      BY <1>2, <1>3, <1>4, <1>5, <1>10
    <3> QED BY <1>1, <1>6, <3>1, BelowCeil
  <2>4. paid * ONE <= d * ONE
    BY <1>1, <1>2, <1>4, <2>3, TimesMonotone
  <2>5. q * L < shares * L + L
    <3> DEFINE x == d * ONE   y == shares * L   z == paid * ONE   w == q * L
    <3>1. x \in Nat /\ y \in Nat /\ z \in Nat /\ w \in Nat /\ w <= z /\ z <= x /\ x <= y
      BY <1>2, <1>7, <2>4
    <3> HIDE DEF x, y, z, w
    <3>2. w < y + L
      BY <1>1, <3>1
    <3> QED BY <3>2 DEF y, w
  <2>6. q <= shares
    BY <1>1, <1>7, <2>5, TimesCancel
  <2>7. gone <= shares /\ shares - gone \in Nat
    BY <1>7, <2>2, <2>6
  <2>8. gone * L <= q * L /\ gone * L \in Nat
    <3>1. gone * L \in Nat
      BY <1>1, <2>2
    <3> QED BY <1>1, <1>7, <2>2, <3>1, TimesMonotone
  <2>9. gone * L <= paid * ONE
    <3> DEFINE x == gone * L   z == paid * ONE   w == q * L
    <3>1. x \in Nat /\ z \in Nat /\ w \in Nat /\ w <= z /\ x <= w
      BY <1>7, <2>8
    <3> HIDE DEF x, z, w
    <3>2. x <= z
      BY <3>1
    <3> QED BY <3>2 DEF x, z
  <2> DEFINE rest == shares - gone
             kept == DMul(rest, L)
  <2>10. rest \in Nat /\ rest + gone = shares
    BY <2>2, <2>7
  <2>11. kept \in Nat /\ kept * ONE \in Nat
    BY <1>1, <2>10, DMulBounds
  <2>12. /\ d <= kept + paid
         /\ d * ONE > kept * ONE + gone * L - ONE
    <3>1. /\ gone * L <= paid * ONE => DMul(rest + gone, L) <= DMul(rest, L) + paid
          /\ DMul(rest + gone, L) * ONE > DMul(rest, L) * ONE + gone * L - ONE
      <4> HIDE DEF rest
      <4> QED BY <1>1, <1>4, <2>2, <2>10, DMulOfSum
    <3> QED BY <2>9, <2>10, <3>1 DEF d
  <2>13. shares * L = rest * L + gone * L /\ rest * L \in Nat
    <3>1. (rest + gone) * L = rest * L + gone * L /\ rest * L \in Nat
      <4> HIDE DEF rest
      <4> QED BY <1>1, <2>2, <2>10
    <3> QED BY <2>10, <3>1
  <2>14. shares * L <= rest * L + paid * ONE + ONE
    <3> DEFINE x == rest * L   y == gone * L   z == paid * ONE   w == shares * L
    <3>1. x \in Nat /\ y \in Nat /\ z \in Nat /\ w = x + y /\ y <= z
      BY <1>7, <2>8, <2>9, <2>13
    <3> HIDE DEF x, y, z, w
    <3>2. w <= x + z + ONE
      BY <1>1, <3>1
    <3> QED BY <3>2 DEF x, z, w
  <2>15. paid * ONE < gone * L + su * L /\ su * L \in Nat
    <3>1. q * L <= (gone + (su - 1)) * L
      BY <1>1, <1>7, <2>2, TimesMonotone
    <3>2. (gone + (su - 1)) * L + L = gone * L + su * L /\ su * L \in Nat
      BY <1>1, <2>2
    <3>3. (gone + (su - 1)) * L \in Int
      BY <1>1, <2>2
    <3> DEFINE x == q * L   y == (gone + (su - 1)) * L   z == paid * ONE
               g == gone * L   v == su * L
    <3>4. x \in Nat /\ y \in Int /\ z \in Nat /\ g \in Nat /\ v \in Nat
          /\ x <= y /\ y + L = g + v /\ z < x + L
      BY <1>7, <2>8, <3>1, <3>2, <3>3
    <3> HIDE DEF x, y, z, g, v
    <3>5. z < g + v
      BY <1>1, <3>4
    <3> QED BY <3>2, <3>5 DEF z, g, v
  <2>16. (paid - (d - kept) - 1) * ONE < su * L
    <3>1. (paid - (d - kept) - 1) * ONE = paid * ONE - d * ONE + kept * ONE - ONE
      <4> HIDE DEF kept
      <4> QED BY <1>1, <1>2, <1>4, <2>11
    <3> DEFINE a == (paid - (d - kept) - 1) * ONE   x == paid * ONE   y == d * ONE
               z == kept * ONE   g == gone * L   v == su * L
    <3>2. /\ x \in Nat /\ y \in Nat /\ z \in Nat /\ g \in Nat /\ v \in Nat
          /\ a = x - y + z - ONE /\ x < g + v /\ y > z + g - ONE
      BY <1>2, <1>7, <2>8, <2>11, <2>12, <2>15, <3>1
    <3> HIDE DEF a, x, y, z, g, v
    <3>3. a < v
      BY <1>1, <3>2
    <3> QED BY <3>3 DEF a, v
  <2> QED BY <1>1, <1>4, <2>2, <2>7, <2>12, <2>14, <2>16 DEF d, su
<1> QED BY <1>9, <1>10

\* A stable repayment covers the interest and then the principal.
LEMMA StableRepaymentBounds ==
  ASSUME NEW e \in Environment, NEW bucket \in Int, NEW loan \in Nat, NEW rate \in Nat,
         NEW since \in Nat, since <= e.now, NEW limit \in Int
  PROVE  LET interest == StableInterest(e, loan, rate, since)
             due      == StableInterestDue(e, loan, rate, since)
             paid     == StablePayment(e, bucket, loan, rate, since, limit)
             borrow   == RepayInBorrow(e, bucket, loan, rate, since, limit)
         IN  /\ interest \in Nat /\ due \in Nat /\ paid \in Int /\ borrow \in Int
             /\ interest <= due /\ due < interest + e.cfg.unit
             /\ borrow <= loan
             /\ paid = borrow + due
<1> DEFINE interest == StableInterest(e, loan, rate, since)
           due      == StableInterestDue(e, loan, rate, since)
           paid     == StablePayment(e, bucket, loan, rate, since, limit)
           borrow   == RepayInBorrow(e, bucket, loan, rate, since, limit)
<1>1. /\ e.now - since \in Nat /\ e.cfg.unit \in Nat \ {0}
  BY DEF Environment, PoolConfig
<1>2. interest \in Nat /\ (e.now = since => interest = 0)
  <2>1. /\ CompoundInterest(loan, rate, e.now - since) \in Nat
        /\ CompoundInterest(loan, rate, e.now - since) >= loan
    BY <1>1, CompoundInterestGrows
  <2>2. e.now = since => CompoundInterest(loan, rate, e.now - since) = loan
    <3>1. e.now = since => e.now - since = 0
      BY DEF Environment
    <3> QED BY <3>1, CompoundInterestNow
  <2> QED BY <2>1, <2>2 DEF StableInterest
<1>3. due \in Nat /\ interest <= due /\ due < interest + e.cfg.unit
  <2>1. CASE e.now = since
    BY <1>1, <1>2, <2>1 DEF StableInterestDue
  <2>2. CASE e.now # since
    <3>1. due = CeilTo(interest, e.cfg.unit) /\ interest \in Int
      BY <1>2, <2>2 DEF StableInterestDue
    <3>2. due \in Int /\ interest <= due /\ due < interest + e.cfg.unit
      BY <1>1, <3>1, CeilToBounds
    <3> QED BY <1>2, <3>2
  <2> QED BY <2>1, <2>2
<1>4. paid = AtMost(AtMost(limit, bucket), loan + due)
      /\ borrow = AtMost(loan, AtMost(limit, bucket) - due)
  BY DEF StablePayment, RepayInBorrow
<1>5. AtMost(limit, bucket) \in Int
  BY AtMostType
<1>6. paid \in Int /\ borrow \in Int /\ borrow <= loan /\ paid = borrow + due
  BY <1>3, <1>4, <1>5 DEF AtMost
<1> QED BY <1>2, <1>3, <1>6


-----------------------------------------------------------------------------
(* What a pool lacks *)

\* By how much what a pool owes to its depositors and its insurance exceeds
\* its vault and its variable loans.
Lack(P) == DMul(P.dx_supply, P.deposit_index) + P.insurance_balance
             - P.vault - DMul(P.variable_loan_share_quantity, P.loan_index)

\* A product of a sum is the sum of the products, or one last digit more.
LEMMA DMulSplit ==
  ASSUME NEW a \in Nat, NEW b \in Nat, NEW c \in Nat
  PROVE  /\ DMul(a + b, c) >= DMul(a, c) + DMul(b, c)
         /\ DMul(a + b, c) <= DMul(a, c) + DMul(b, c) + 1
         /\ DMul(c, a + b) >= DMul(c, a) + DMul(c, b)
         /\ DMul(c, a + b) <= DMul(c, a) + DMul(c, b) + 1
<1> DEFINE q == b * c   m == DMul(a, c)   n == DMul(b, c)   s == DMul(a + b, c)
           nO == n * ONE   mO == m * ONE   sO == s * ONE
<1>1. /\ m \in Nat /\ mO \in Nat /\ n \in Nat /\ nO \in Nat /\ s \in Nat /\ sO \in Nat
      /\ q \in Nat /\ nO <= q /\ q < nO + ONE
  <2>1. a + b \in Nat
    OBVIOUS
  <2> QED BY <2>1, DMulBounds
<1>2. /\ q <= (n + 1) * ONE => s <= m + (n + 1)
      /\ sO > mO + q - ONE
  <2>1. n + 1 \in Nat
    BY <1>1
  <2> QED BY <2>1, DMulOfSum
<1>3. ONE \in Nat \ {0} /\ (n + 1) * ONE = nO + ONE /\ (m + n) * ONE = mO + nO
  <2>1. ONE \in Nat \ {0}
    BY DecimalsAssumption
  <2>2. n \in Nat /\ m \in Nat
    BY <1>1
  <2> HIDE DEF n, m
  <2> QED BY <2>1, <2>2
<1>4. s <= m + n + 1
  <2> HIDE DEF q, m, n, s, nO
  <2> QED BY <1>1, <1>2, <1>3
<1>5. m + n <= s
  <2>1. (m + n) * ONE < sO + ONE
    <3> HIDE DEF q, m, n, s, nO, mO, sO
    <3> QED BY <1>1, <1>2, <1>3
  <2>2. m + n \in Int /\ s \in Int
    BY <1>1
  <2> HIDE DEF m, n, s
  <2> QED BY <1>3, <2>1, <2>2, TimesCancel
<1>6. DMul(c, a) = m /\ DMul(c, b) = n /\ DMul(c, a + b) = s
  <2>1. a + b \in Int /\ a \in Int /\ b \in Int /\ c \in Int
    OBVIOUS
  <2> QED BY <2>1, DMulCommutes
<1> HIDE DEF m, n, s
<1>7. s >= m + n /\ s <= m + n + 1
  BY <1>1, <1>4, <1>5
<1> QED BY <1>6, <1>7 DEF m, n, s

LEMMA LackType ==
  ASSUME NEW P \in Pool, Growing(P), Booked(P)
  PROVE  /\ P.dx_supply \in Nat /\ P.deposit_index \in Nat /\ P.insurance_balance \in Int
         /\ P.vault \in Nat /\ P.variable_loan_share_quantity \in Nat /\ P.loan_index \in Nat
         /\ DMul(P.dx_supply, P.deposit_index) \in Nat
         /\ DMul(P.variable_loan_share_quantity, P.loan_index) \in Nat
         /\ Lack(P) \in Int
<1>1. /\ P.dx_supply \in Nat /\ P.deposit_index \in Int /\ P.insurance_balance \in Int
      /\ P.vault \in Nat /\ P.variable_loan_share_quantity \in Int /\ P.loan_index \in Int
  BY DEF Pool
<1>2. P.deposit_index \in Nat /\ P.variable_loan_share_quantity \in Nat /\ P.loan_index \in Nat
  BY <1>1, DecimalsAssumption DEF Growing, Booked
<1>3. /\ DMul(P.dx_supply, P.deposit_index) \in Nat
      /\ DMul(P.variable_loan_share_quantity, P.loan_index) \in Nat
  BY <1>1, <1>2, DMulNat
<1> QED BY <1>1, <1>2, <1>3 DEF Lack

\* Setting the rates moves no tokens.
LEMMA UpdateInterestRateLack ==
  ASSUME NEW R \in Pool, NEW e
  PROVE  Lack(UpdateInterestRate(R, e)) = Lack(R)
  BY DEF UpdateInterestRate, Pool, Lack

\* What leaves the vault is lacking.
LEMMA PaidOutLack ==
  ASSUME NEW U \in Pool, NEW r \in Int
  PROVE  Lack([U EXCEPT !.vault = @ - r]) = Lack(U) + r
<1> DEFINE V == [U EXCEPT !.vault = @ - r]
<1>1. /\ U.dx_supply \in Int /\ U.deposit_index \in Int /\ U.insurance_balance \in Int
      /\ U.vault \in Int /\ U.variable_loan_share_quantity \in Int /\ U.loan_index \in Int
  BY DEF Pool
<1>2. /\ V.dx_supply = U.dx_supply /\ V.deposit_index = U.deposit_index
      /\ V.insurance_balance = U.insurance_balance /\ V.vault = U.vault - r
      /\ V.variable_loan_share_quantity = U.variable_loan_share_quantity
      /\ V.loan_index = U.loan_index
  BY DEF Pool
<1>3. /\ DMul(U.dx_supply, U.deposit_index) \in Int
      /\ DMul(U.variable_loan_share_quantity, U.loan_index) \in Int
  BY <1>1, DMulType
<1> HIDE DEF V
<1>4. Lack(V) = Lack(U) + r
  BY <1>1, <1>2, <1>3 DEF Lack
<1> QED BY <1>4 DEF V

\* An update of the indices books what borrowers owe beyond what depositors earn,
\* to the last digit.
LEMMA UpdateIndexLack ==
  ASSUME NEW e \in Environment, NEW P, Sound(P, e), Growing(P), Booked(P),
         P.stable_loan_amount = 0
  PROVE  /\ UpdateIndex(P, e) \in Pool
         /\ Growing(UpdateIndex(P, e)) /\ Booked(UpdateIndex(P, e))
         /\ Lack(UpdateIndex(P, e)) <= Lack(P) + (IF e.now = P.last_update THEN 0 ELSE 1)
         /\ Lack(P) <= Lack(UpdateIndex(P, e)) + 1
<1> DEFINE Q == UpdateIndex(P, e)
           D == P.dx_supply   X == P.variable_loan_share_quantity
           s == P.deposit_index   l == P.loan_index
           S == SupplyIndex(P, e)   L == LoanIndex(P, e)
<1>0. P \in Pool
  BY DEF Sound
<1>1. /\ D \in Nat /\ X \in Nat /\ s \in Nat /\ l \in Nat
      /\ P.insurance_balance \in Int /\ P.vault \in Nat /\ Lack(P) \in Int
  BY <1>0, LackType
<1>2. /\ S \in Nat /\ S >= s /\ S >= ONE
      /\ L \in Nat /\ L >= l /\ L >= ONE
  BY IndicesGrow
<1>3. /\ Sound(Q, e) /\ SameBooks(Q, P) /\ Settled(Q, P, e)
      /\ SameRates(Q, P) /\ SameStable(Q, P)
  BY UpdateIndexSound, UpdateIndexSettles
<1> HIDE DEF Q, S, L
<1>4. Q \in Pool /\ Growing(Q) /\ Booked(Q)
  BY <1>2, <1>3 DEF Sound, Growing, Booked, Settled, SameRates, SameStable,
                      SameBooks, S, L
<1>5. CASE e.now = P.last_update
  <2>1. UpdateIndex(P, e) = P
    BY <1>5 DEF UpdateIndex
  <2> QED BY <1>0, <1>1, <1>5, <2>1
<1>6. CASE e.now # P.last_update
  <2> DEFINE stable == CompoundInterest(P.stable_loan_amount, P.stable_loan_interest_rate,
                                        e.now - P.last_update)
             v == DMul(X, L - l)   u == DMul(D, S - s)
  <2>1. stable = 0
    <3>1. P.stable_loan_interest_rate \in Int /\ e.now - P.last_update \in Nat
      BY DEF Environment, Sound, Pool
    <3>2. CompoundRate(P.stable_loan_interest_rate, e.now - P.last_update) \in Int
      BY <3>1, CompoundRateType
    <3> QED BY <3>2, DMulZero DEF CompoundInterest
  <2>2. Q.insurance_balance = P.insurance_balance + (v + (stable - P.stable_loan_amount) - u)
    BY <1>0, <1>6 DEF UpdateIndex, Pool, Q, S, L
  <2> HIDE DEF stable
  <2>3. L - l \in Nat /\ S - s \in Nat /\ l + (L - l) = L /\ s + (S - s) = S
    BY <1>1, <1>2
  <2>4. /\ DMul(X, l) \in Nat /\ DMul(X, L) \in Nat /\ v \in Nat
        /\ DMul(D, s) \in Nat /\ DMul(D, S) \in Nat /\ u \in Nat
    BY <1>1, <1>2, <2>3, DMulNat
  <2>5. DMul(X, L) >= DMul(X, l) + v /\ DMul(X, L) <= DMul(X, l) + v + 1
    BY <1>1, <2>3, DMulSplit
  <2>6. DMul(D, S) <= DMul(D, s) + u + 1 /\ DMul(D, S) >= DMul(D, s) + u
    BY <1>1, <2>3, DMulSplit
  <2>7. Lack(Q) = DMul(D, S) + Q.insurance_balance - P.vault - DMul(X, L)
    BY <1>3 DEF Lack, SameBooks, Settled, S, L
  <2>8. Lack(P) = DMul(D, s) + P.insurance_balance - P.vault - DMul(X, l)
    BY DEF Lack
  <2> HIDE DEF u, v
  <2>9. Lack(Q) <= Lack(P) + 1 /\ Lack(P) <= Lack(Q) + 1
    <3> DEFINE a == DMul(X, l)  b == DMul(X, L)  c == DMul(D, s)  d == DMul(D, S)
               i == P.insurance_balance  w == P.vault  j == Q.insurance_balance
    <3>1. /\ a \in Nat /\ b \in Nat /\ c \in Nat /\ d \in Nat /\ v \in Nat /\ u \in Nat
          /\ i \in Int /\ w \in Nat
      BY <1>1, <2>4
    <3>2. j = i + (v - u)
      BY <2>1, <2>2, <2>4, <1>1
    <3>3. /\ b >= a + v /\ b <= a + v + 1 /\ d <= c + u + 1 /\ d >= c + u
          /\ Lack(Q) = d + j - w - b /\ Lack(P) = c + i - w - a
      BY <2>5, <2>6, <2>7, <2>8
    <3> HIDE DEF a, b, c, d, i, w, j
    <3> QED BY <3>1, <3>2, <3>3
  <2> QED BY <1>4, <1>6, <2>9 DEF Q
<1> QED BY <1>5, <1>6


\* A deposit mints dx for no more than what it brings, and for less than a dx's worth
\* and two last digits less.
LEMMA AddLiquidityLack ==
  ASSUME NEW e \in Environment, NEW P, Sound(P, e), Growing(P), Booked(P),
         P.stable_loan_amount = 0, NEW amount \in Nat, CanAddLiquidity(P, e, amount)
  PROVE  /\ Lack(AddLiquidity(P, e, amount)) <= Lack(P) + 1
         /\ (Lack(P) - Lack(AddLiquidity(P, e, amount))) * ONE
              <= e.cfg.share_unit * SupplyIndex(P, e) + 2 * ONE
<1> DEFINE m == MintedDx(P, e, amount)
           S == SupplyIndex(P, e)
           Q == UpdateIndex(P, e)
           R == [Q EXCEPT !.vault = @ + amount, !.dx_supply = @ + m]
<1>1. m \in Nat
  BY AddLiquiditySound
<1>2. AddLiquidity(P, e, amount) = UpdateInterestRate(R, e)
  BY DEF AddLiquidity
<1>3. S \in Nat /\ S >= ONE /\ S \in Nat \ {0}
  BY IndicesGrow, DecimalsAssumption
<1>4. Settled(Q, P, e)
  BY UpdateIndexSettles
<1>5. /\ Q \in Pool /\ Growing(Q) /\ Booked(Q)
      /\ Lack(Q) <= Lack(P) + (IF e.now = P.last_update THEN 0 ELSE 1)
      /\ Lack(P) <= Lack(Q) + 1
  BY UpdateIndexLack
<1>6. Lack(P) \in Int
  BY LackType DEF Sound
<1> DEFINE sc == e.cfg.share_unit
<1>7. sc \in Nat \ {0} /\ m * S <= amount * ONE /\ amount * ONE <= m * S + sc * S
  <2>1. /\ amount * ONE \in Nat /\ DDiv(amount, S) \in Nat /\ DDiv(amount, S) * S \in Nat
        /\ DDiv(amount, S) * S <= amount * ONE
    BY <1>3, DDivBounds
  <2>2. e.cfg.share_unit \in Nat \ {0}
    BY DEF Environment, PoolConfig
  <2>3. m <= DDiv(amount, S) /\ DDiv(amount, S) < m + sc
    <3> DEFINE d == DDiv(amount, S)
    <3>1. d \in Int /\ sc \in Nat \ {0} /\ m = FloorTo(d, sc)
      BY <2>1, <2>2 DEF MintedDx
    <3> HIDE DEF d, sc, m
    <3> QED BY <3>1, FloorToBounds DEF d
  <2> DEFINE d == DDiv(amount, S)   dS == d * S   mS == m * S   cS == sc * S   aO == amount * ONE
  <2>4. d \in Nat /\ dS <= aO /\ aO < dS + S
    BY <1>3, DDivBounds
  <2> HIDE DEF m, S, d, sc
  <2>5. mS <= dS /\ mS \in Int
    BY <1>1, <1>3, <2>3, <2>4, TimesMonotone DEF d
  <2>6. (d + 1) * S <= (m + sc) * S
    <3>1. d + 1 \in Int /\ m + sc \in Int /\ d + 1 <= m + sc
      BY <1>1, <2>2, <2>3, <2>4 DEF sc, d
    <3> QED BY <1>3, <3>1, TimesMonotone
  <2>7. (d + 1) * S = dS + S /\ (m + sc) * S = mS + cS /\ dS \in Int /\ cS \in Int /\ aO \in Int
    BY <1>1, <1>3, <2>2, <2>4, DecimalsAssumption DEF sc
  <2> HIDE DEF dS, mS, cS, aO
  <2>8. mS <= aO /\ aO <= mS + cS
    BY <1>3, <2>4, <2>5, <2>6, <2>7
  <2> QED BY <2>2, <2>8 DEF mS, cS, aO, sc
<1> HIDE DEF m, S, Q, sc
<1>8. /\ Q.dx_supply \in Nat /\ Q.vault \in Nat /\ Q.deposit_index = S
      /\ DMul(Q.dx_supply, S) \in Nat /\ Lack(Q) \in Int
      /\ Q.insurance_balance \in Int /\ DMul(Q.variable_loan_share_quantity, Q.loan_index) \in Nat
  BY <1>4, <1>5, LackType DEF Settled, S
<1>9. R \in Pool
  <2>1. Q.vault + amount \in Nat /\ Q.dx_supply + m \in Nat
    BY <1>1, <1>8
  <2> QED BY <1>5, <2>1 DEF Pool
<1>10. Lack(AddLiquidity(P, e, amount)) = Lack(R)
  BY <1>2, <1>9, UpdateInterestRateLack
<1>11. Lack(R) = DMul(Q.dx_supply + m, S) + Q.insurance_balance - (Q.vault + amount)
                   - DMul(Q.variable_loan_share_quantity, Q.loan_index)
  BY <1>5, <1>8 DEF Lack, Pool
<1>12. Lack(Q) = DMul(Q.dx_supply, S) + Q.insurance_balance - Q.vault
                   - DMul(Q.variable_loan_share_quantity, Q.loan_index)
  BY <1>8 DEF Lack
<1>13. DMul(Q.dx_supply + m, S) <= DMul(Q.dx_supply, S) + amount
       /\ DMul(Q.dx_supply + m, S) \in Int
  <2>1. Q.dx_supply \in Nat /\ Q.dx_supply + m \in Int /\ S \in Int
    BY <1>1, <1>3, <1>8
  <2>2. DMul(Q.dx_supply + m, S) <= DMul(Q.dx_supply, S) + amount
    BY <1>1, <1>3, <1>7, <2>1, DMulOfSum
  <2> QED BY <2>1, <2>2, DMulType
<1>14. Lack(R) <= Lack(Q) /\ Lack(Q) - Lack(R) = DMul(Q.dx_supply, S) + amount
                                                   - DMul(Q.dx_supply + m, S)
  <2> HIDE DEF R
  <2> DEFINE a == DMul(Q.dx_supply + m, S)   b == DMul(Q.dx_supply, S)
             c == DMul(Q.variable_loan_share_quantity, Q.loan_index)
  <2>1. /\ a \in Int /\ b \in Int /\ c \in Int /\ a <= b + amount
        /\ Q.insurance_balance \in Int /\ Q.vault \in Int
        /\ Lack(R) = a + Q.insurance_balance - (Q.vault + amount) - c
        /\ Lack(Q) = b + Q.insurance_balance - Q.vault - c
    BY <1>8, <1>11, <1>12, <1>13
  <2> HIDE DEF a, b, c
  <2>2. Lack(R) <= Lack(Q) /\ Lack(Q) - Lack(R) = b + amount - a
    BY <2>1
  <2> QED BY <2>2 DEF a, b
<1>15. Lack(R) \in Int
  BY <1>8, <1>11, <1>13
<1> HIDE DEF R
<1>16. (Lack(P) - Lack(R)) * ONE <= sc * S + 2 * ONE
  <2> DEFINE x == DMul(Q.dx_supply, S)   y == DMul(Q.dx_supply + m, S)
             p == Lack(P)   r == Lack(R)
             xO == x * ONE   yO == y * ONE   mS == m * S   cS == sc * S   aO == amount * ONE
  <2>1. yO > xO + mS - ONE
    BY <1>1, <1>3, <1>8, DMulOfSum
  <2>2. /\ x \in Int /\ y \in Int /\ p \in Int /\ r \in Int /\ ONE \in Nat
        /\ p - r <= x + amount - y + 1
    BY <1>5, <1>6, <1>8, <1>13, <1>14, <1>15, DecimalsAssumption
  <2> HIDE DEF x, y, p, r
  <2>3. (p - r) * ONE <= (x + amount - y + 1) * ONE
    <3>1. p - r \in Int /\ x + amount - y + 1 \in Int
      BY <2>2
    <3> QED BY <2>2, <3>1, TimesMonotone
  <2>4. /\ (x + amount - y + 1) * ONE = xO + aO - yO + ONE
        /\ xO \in Int /\ yO \in Int /\ mS \in Int /\ cS \in Int /\ aO \in Int
        /\ (p - r) * ONE \in Int
    BY <1>1, <1>3, <1>7, <2>2
  <2>5. aO <= mS + cS
    BY <1>7
  <2> HIDE DEF xO, yO, mS, cS, aO
  <2>6. (p - r) * ONE <= cS + 2 * ONE
    BY <2>1, <2>2, <2>3, <2>4, <2>5
  <2> QED BY <2>6 DEF p, r, cS
<1>17. Lack(R) <= Lack(P) + 1
  BY <1>5, <1>6, <1>8, <1>14, <1>15
<1> QED BY <1>10, <1>16, <1>17 DEF S, sc

\* A withdrawal pays no more than what the dx are worth, and less by less than a
\* unit of the token and two last digits.
LEMMA RemoveLiquidityLack ==
  ASSUME NEW e \in Environment, NEW P, Sound(P, e), Growing(P), Booked(P),
         P.stable_loan_amount = 0,
         NEW dx \in Nat, dx <= P.dx_supply, CanRemoveLiquidity(P, e, dx)
  PROVE  /\ Lack(RemoveLiquidity(P, e, dx))
              <= Lack(P) + (IF e.now = P.last_update THEN 0 ELSE 1)
         /\ Lack(P) <= Lack(RemoveLiquidity(P, e, dx)) + e.cfg.unit + 1
<1> DEFINE r == RemovedAmount(P, e, dx)
           S == SupplyIndex(P, e)
           Q == UpdateIndex(P, e)
           R == [Q EXCEPT !.dx_supply = @ - dx]
           U == UpdateInterestRate(R, e)
<1>1. S \in Nat /\ S >= ONE
  BY IndicesGrow
<1> DEFINE unit == e.cfg.unit
<1>2. /\ r \in Int /\ r <= DMul(dx, S) /\ DMul(dx, S) \in Nat /\ r <= P.vault
      /\ unit \in Nat \ {0} /\ DMul(dx, S) < r + unit
  <2>1. e.cfg.unit \in Nat \ {0}
    BY DEF Environment, PoolConfig
  <2>2. DMul(dx, S) \in Nat
    BY <1>1, DMulNat
  <2>3. r = FloorTo(DMul(dx, S), e.cfg.unit)
    BY DEF RemovedAmount, RedemptionValue
  <2>4. r <= P.vault
    BY DEF CanRemoveLiquidity, VaultCovers
  <2>5. DMul(dx, S) \in Int
    BY <2>2
  <2> DEFINE d == DMul(dx, S)
  <2>6. unit \in Nat \ {0} /\ d \in Int /\ r = FloorTo(d, unit)
    BY <2>1, <2>3, <2>5
  <2> HIDE DEF r, d, unit
  <2>7. r \in Int /\ r <= d /\ d < r + unit
    BY <2>6, FloorToBounds
  <2> QED BY <2>2, <2>4, <2>6, <2>7 DEF d
<1>3. RemoveLiquidity(P, e, dx) = [U EXCEPT !.vault = @ - r]
  BY DEF RemoveLiquidity
<1>4. Settled(Q, P, e) /\ SameBooks(Q, P) /\ Sound(Q, e)
  BY UpdateIndexSettles, UpdateIndexSound
<1>5. /\ Q \in Pool /\ Growing(Q) /\ Booked(Q)
      /\ Lack(Q) <= Lack(P) + (IF e.now = P.last_update THEN 0 ELSE 1)
      /\ Lack(P) <= Lack(Q) + 1
  BY UpdateIndexLack
<1>6. Lack(P) \in Int
  BY LackType DEF Sound
<1> HIDE DEF r, S, Q, unit
<1>7. /\ Q.dx_supply \in Nat /\ Q.vault \in Nat /\ Q.deposit_index = S /\ dx <= Q.dx_supply
      /\ DMul(Q.dx_supply, S) \in Nat /\ Lack(Q) \in Int
      /\ Q.insurance_balance \in Int /\ DMul(Q.variable_loan_share_quantity, Q.loan_index) \in Nat
  BY <1>4, <1>5, LackType DEF Settled, SameBooks, S
<1>8. Q.dx_supply - dx \in Nat /\ (Q.dx_supply - dx) + dx = Q.dx_supply
  BY <1>7
<1>9. /\ R \in Pool /\ R.dx_supply = Q.dx_supply - dx /\ R.deposit_index = S
      /\ R.insurance_balance = Q.insurance_balance /\ R.vault = Q.vault
      /\ R.variable_loan_share_quantity = Q.variable_loan_share_quantity
      /\ R.loan_index = Q.loan_index
  BY <1>5, <1>7, <1>8 DEF Pool
<1>10. R.last_update = Q.last_update
  BY <1>5 DEF Pool
<1>11. Lack(R) = DMul(Q.dx_supply - dx, S) + Q.insurance_balance - Q.vault
                   - DMul(Q.variable_loan_share_quantity, Q.loan_index)
  BY <1>9 DEF Lack
<1> HIDE DEF R
<1>12. U \in Pool /\ Lack(U) = Lack(R)
  <2>1. Sound(R, e)
    BY <1>4, <1>9, <1>10 DEF Sound
  <2> QED BY <1>9, <2>1, UpdateInterestRateLack, UpdateInterestRateSound DEF Sound
<1>13. Lack(RemoveLiquidity(P, e, dx)) = Lack(R) + r
  <2> HIDE DEF U
  <2> QED BY <1>2, <1>3, <1>12, PaidOutLack
<1>14. /\ DMul(Q.dx_supply, S) >= DMul(Q.dx_supply - dx, S) + DMul(dx, S)
       /\ DMul(Q.dx_supply, S) <= DMul(Q.dx_supply - dx, S) + DMul(dx, S) + 1
       /\ DMul(Q.dx_supply - dx, S) \in Nat
  BY <1>1, <1>8, DMulSplit, DMulNat
<1>15. Lack(Q) = DMul(Q.dx_supply, S) + Q.insurance_balance - Q.vault
                   - DMul(Q.variable_loan_share_quantity, Q.loan_index)
  BY <1>7 DEF Lack
<1>16. Lack(R) + r <= Lack(Q) /\ Lack(Q) <= Lack(R) + r + unit /\ Lack(R) + r \in Int
  <2> DEFINE a == DMul(Q.dx_supply - dx, S)   b == DMul(Q.dx_supply, S)   k == DMul(dx, S)
             c == DMul(Q.variable_loan_share_quantity, Q.loan_index)
  <2>1. /\ a \in Int /\ b \in Int /\ c \in Int /\ k \in Int /\ b >= a + k /\ r <= k /\ r \in Int
        /\ b <= a + k + 1 /\ k < r + unit /\ unit \in Int
        /\ Q.insurance_balance \in Int /\ Q.vault \in Int
        /\ Lack(R) = a + Q.insurance_balance - Q.vault - c
        /\ Lack(Q) = b + Q.insurance_balance - Q.vault - c
    BY <1>2, <1>7, <1>11, <1>14, <1>15
  <2> HIDE DEF a, b, c, k
  <2> QED BY <2>1
<1>17. Lack(P) <= Lack(R) + r + unit + 1
  BY <1>2, <1>5, <1>6, <1>7, <1>16
<1>18. Lack(R) + r <= Lack(P) + (IF e.now = P.last_update THEN 0 ELSE 1)
  BY <1>5, <1>6, <1>7, <1>16
<1> QED BY <1>13, <1>17, <1>18 DEF unit


\* Loan shares are charged for what is lent, but for the last one of them.
LEMMA BorrowVariableLack ==
  ASSUME NEW e \in Environment, NEW P, Sound(P, e), Growing(P), Booked(P),
         P.stable_loan_amount = 0, NEW amount \in Nat, CanBorrowVariable(P, e, amount)
  PROVE  /\ Lack(PoolBorrowVariable(P, e, amount)) * ONE
              <= Lack(P) * ONE + LoanIndex(P, e) + 2 * ONE
         /\ (Lack(P) - Lack(PoolBorrowVariable(P, e, amount))) * ONE
              <= e.cfg.share_unit * LoanIndex(P, e) + (e.cfg.unit + 1) * ONE
<1> DEFINE n == SharesFor(P, e, amount)
           L == LoanIndex(P, e)
           Q == UpdateIndex(P, e)
           R == [Q EXCEPT !.variable_loan_share_quantity = @ + n]
           U == UpdateInterestRate(R, e)
           r == FloorTo(amount, e.cfg.unit)
           S == PoolBorrowVariable(P, e, amount)
           sc == e.cfg.share_unit
           unit == e.cfg.unit
<1>1. /\ n \in Nat /\ n * L \in Nat /\ amount * ONE < n * L + L
      /\ (n - (sc - 1)) * L <= amount * ONE
  BY SharesForBounds
<1>2. L \in Nat /\ L >= ONE /\ ONE \in Nat \ {0}
  BY IndicesGrow, DecimalsAssumption
<1>3. /\ r \in Int /\ r <= amount /\ amount < r + unit
      /\ unit \in Nat \ {0} /\ sc \in Nat \ {0}
  <2>1. unit \in Nat \ {0} /\ sc \in Nat \ {0} /\ amount \in Int
    BY DEF Environment, PoolConfig
  <2> HIDE DEF unit, sc
  <2>2. FloorTo(amount, unit) \in Int /\ FloorTo(amount, unit) <= amount
        /\ amount < FloorTo(amount, unit) + unit
    BY <2>1, FloorToBounds
  <2> QED BY <2>1, <2>2 DEF unit
<1>4. S = [U EXCEPT !.vault = @ - r]
  BY DEF PoolBorrowVariable
<1>5. Settled(Q, P, e) /\ Sound(Q, e)
  BY UpdateIndexSettles, UpdateIndexSound
<1>6. /\ Q \in Pool /\ Growing(Q) /\ Booked(Q)
      /\ Lack(Q) <= Lack(P) + (IF e.now = P.last_update THEN 0 ELSE 1)
      /\ Lack(P) <= Lack(Q) + 1
  BY UpdateIndexLack
<1>7. Lack(P) \in Int
  BY LackType DEF Sound
<1> HIDE DEF n, L, Q, r, S, sc, unit
<1>8. /\ Q.variable_loan_share_quantity \in Nat /\ Q.vault \in Nat /\ Q.loan_index = L
      /\ DMul(Q.variable_loan_share_quantity, L) \in Nat /\ Lack(Q) \in Int
      /\ Q.insurance_balance \in Int /\ DMul(Q.dx_supply, Q.deposit_index) \in Nat
  BY <1>5, <1>6, LackType DEF Settled, L
<1>9. Q.variable_loan_share_quantity + n \in Nat
  BY <1>1, <1>8
<1>10. /\ R \in Pool /\ R.dx_supply = Q.dx_supply /\ R.deposit_index = Q.deposit_index
       /\ R.insurance_balance = Q.insurance_balance /\ R.vault = Q.vault
       /\ R.variable_loan_share_quantity = Q.variable_loan_share_quantity + n
       /\ R.loan_index = L /\ R.last_update = Q.last_update
  BY <1>6, <1>8, <1>9 DEF Pool
<1> HIDE DEF R
<1>11. U \in Pool /\ Lack(U) = Lack(R)
  <2>1. Sound(R, e)
    BY <1>5, <1>10 DEF Sound
  <2> QED BY <1>10, <2>1, UpdateInterestRateLack, UpdateInterestRateSound DEF Sound
<1>12. Lack(S) = Lack(R) + r
  <2> HIDE DEF U
  <2> QED BY <1>3, <1>4, <1>11, PaidOutLack
<1> DEFINE x  == DMul(Q.variable_loan_share_quantity, L)
           y  == DMul(Q.variable_loan_share_quantity + n, L)
           d  == DMul(Q.dx_supply, Q.deposit_index)
           xO == x * ONE   yO == y * ONE   nL == n * L   aO == amount * ONE
           pO == Lack(P) * ONE   sO == Lack(S) * ONE
<1>13. d \in Int /\ x \in Nat /\ y \in Nat
  <2>1. y \in Nat
    BY <1>2, <1>9, DMulNat
  <2>2. d \in Int /\ x \in Nat
    BY <1>8
  <2> QED BY <2>1, <2>2
<1>14. yO > xO + nL - ONE
  BY <1>1, <1>2, <1>8, DMulOfSum
<1>15. /\ Lack(R) = d + Q.insurance_balance - Q.vault - y
       /\ Lack(Q) = d + Q.insurance_balance - Q.vault - x
  BY <1>8, <1>10 DEF Lack
<1>21. yO <= xO + nL + ONE
  <2>1. DMul(n, L) * ONE <= n * L /\ DMul(n, L) \in Nat
    BY <1>1, <1>2, DMulBounds
  <2>2. y <= x + DMul(n, L) + 1
    BY <1>1, <1>2, <1>8, DMulSplit
  <2> DEFINE k == DMul(n, L)   kO == k * ONE
  <2> HIDE DEF x, y, k
  <2>3. y * ONE <= (x + k + 1) * ONE
    <3>1. y \in Int /\ x + k + 1 \in Int /\ y <= x + k + 1
      BY <1>13, <2>1, <2>2 DEF k
    <3> QED BY <1>2, <3>1, TimesMonotone
  <2>4. (x + k + 1) * ONE = xO + kO + ONE /\ xO \in Int /\ yO \in Int /\ kO \in Int
    BY <1>2, <1>13, <2>1 DEF k
  <2>5. kO <= nL /\ nL \in Int
    BY <1>1, <2>1 DEF k
  <2> HIDE DEF xO, kO, nL
  <2>6. y * ONE <= xO + nL + ONE
    BY <1>2, <2>3, <2>4, <2>5
  <2> QED BY <2>6
<1> HIDE DEF x, y, d
<1>16. /\ Lack(S) \in Int /\ Lack(P) + 1 + x - y + amount \in Int
       /\ Lack(S) <= Lack(P) + 1 + x - y + amount
  BY <1>3, <1>6, <1>7, <1>8, <1>12, <1>13, <1>15
<1>17. sO <= (Lack(P) + 1 + x - y + amount) * ONE
  BY <1>2, <1>16, TimesMonotone
<1>18. /\ (Lack(P) + 1 + x - y + amount) * ONE = pO + ONE + xO - yO + aO
       /\ pO \in Int /\ xO \in Int /\ yO \in Int /\ aO \in Int /\ sO \in Int
  BY <1>2, <1>7, <1>13, <1>16
<1>19. nL \in Int /\ aO < nL + L
  BY <1>1
<1> DEFINE cL == sc * L   uO == unit * ONE
<1>22. Lack(P) - Lack(S) <= y - x - amount + unit
  BY <1>3, <1>6, <1>7, <1>8, <1>12, <1>13, <1>15
<1>23. (Lack(P) - Lack(S)) * ONE <= (y - x - amount + unit) * ONE
  <2>1. Lack(P) - Lack(S) \in Int /\ y - x - amount + unit \in Int
    BY <1>3, <1>7, <1>13, <1>16
  <2> QED BY <1>2, <1>22, <2>1, TimesMonotone
<1>24. /\ (y - x - amount + unit) * ONE = yO - xO - aO + uO
       /\ (Lack(P) - Lack(S)) * ONE \in Int /\ uO \in Int /\ cL \in Int
       /\ (unit + 1) * ONE = uO + ONE
  BY <1>2, <1>3, <1>7, <1>13, <1>16
<1>25. nL <= aO + cL
  <2> DEFINE k == n - (sc - 1)   kL == k * L
  <2>1. kL = nL - cL + L /\ kL \in Int
    BY <1>1, <1>2, <1>3
  <2>2. kL <= aO
    BY <1>1
  <2> HIDE DEF k, kL, nL, cL, aO
  <2> QED BY <1>2, <1>18, <1>19, <1>24, <2>1, <2>2
<1> HIDE DEF xO, yO, nL, aO, pO, sO
<1>20. sO <= pO + L + 2 * ONE
  BY <1>2, <1>14, <1>17, <1>18, <1>19
<1> DEFINE w == (Lack(P) - Lack(S)) * ONE
<1>26. w <= yO - xO - aO + uO /\ w \in Int
  BY <1>23, <1>24
<1> HIDE DEF cL, uO, w
<1>27. w <= cL + (unit + 1) * ONE
  BY <1>2, <1>18, <1>19, <1>21, <1>24, <1>25, <1>26
<1> QED BY <1>20, <1>27 DEF L, S, pO, sO, w, cL, sc, unit

\* A repayment takes off loan shares for no more than what it pays, and for what it
\* pays but for less than a loan share's worth, a unit of the token and two last
\* digits.
LEMMA RepayVariableLack ==
  ASSUME NEW e \in Environment, NEW P, Sound(P, e), Growing(P), Booked(P),
         P.stable_loan_amount = 0, NEW bucket \in Int, NEW shares \in Nat, NEW limit \in Int,
         CanRepayVariable(P, e, bucket, shares, limit),
         PoolRepayVariable(P, e, bucket, shares, limit).variable_loan_share_quantity >= 0
  PROVE  /\ Lack(PoolRepayVariable(P, e, bucket, shares, limit)) <= Lack(P) + 2
         /\ (Lack(P) - Lack(PoolRepayVariable(P, e, bucket, shares, limit))) * ONE
              <= e.cfg.share_unit * LoanIndex(P, e) + (e.cfg.unit + 2) * ONE
<1> DEFINE paid == VariablePayment(P, e, bucket, shares, limit)
           gone == SharesRepaid(P, e, paid, shares)
           L == LoanIndex(P, e)
           sc == e.cfg.share_unit
           unit == e.cfg.unit
           D == DMul(shares, L) - DMul(shares - gone, L)
           Q == UpdateIndex(P, e)
           R == [Q EXCEPT !.variable_loan_share_quantity = @ - gone, !.vault = @ + paid]
           S == PoolRepayVariable(P, e, bucket, shares, limit)
<1>1. /\ paid \in Nat /\ gone \in Nat /\ gone <= shares /\ L \in Nat \ {0}
      /\ shares * L <= (shares - gone) * L + paid * ONE + ONE
      /\ \/ paid - D < unit
         \/ (paid - D - 1) * ONE < sc * L
  BY VariableRepaymentBounds
<1>2. S = UpdateInterestRate(R, e)
  BY DEF PoolRepayVariable
<1>3. S.variable_loan_share_quantity = P.variable_loan_share_quantity - gone
  BY RepayVariableSound
<1>4. Settled(Q, P, e) /\ SameBooks(Q, P)
  BY UpdateIndexSettles, UpdateIndexSound
<1>5. /\ Q \in Pool /\ Growing(Q) /\ Booked(Q)
      /\ Lack(Q) <= Lack(P) + (IF e.now = P.last_update THEN 0 ELSE 1)
      /\ Lack(P) <= Lack(Q) + 1
  BY UpdateIndexLack
<1>6. Lack(P) \in Int
  BY LackType DEF Sound
<1>7. S.variable_loan_share_quantity >= 0
  OBVIOUS
<1>17. unit \in Nat \ {0} /\ sc \in Nat \ {0} /\ ONE \in Nat
  BY DecimalsAssumption DEF Environment, PoolConfig
<1> HIDE DEF paid, gone, L, Q, S, sc, unit
<1>18. D \in Int /\ D <= DMul(gone, L) + 1 /\ DMul(gone, L) \in Nat
  <2>1. shares - gone \in Nat /\ (shares - gone) + gone = shares
    BY <1>1
  <2>2. DMul((shares - gone) + gone, L) <= DMul(shares - gone, L) + DMul(gone, L) + 1
    BY <1>1, <2>1, DMulSplit
  <2>3. DMul(shares, L) \in Nat /\ DMul(shares - gone, L) \in Nat /\ DMul(gone, L) \in Nat
    BY <1>1, <2>1, DMulNat
  <2> QED BY <2>1, <2>2, <2>3
<1> HIDE DEF D
<1>8. /\ Q.variable_loan_share_quantity \in Nat /\ Q.vault \in Nat /\ Q.loan_index = L
      /\ Lack(Q) \in Int
      /\ Q.insurance_balance \in Int /\ DMul(Q.dx_supply, Q.deposit_index) \in Nat
  BY <1>4, <1>5, LackType DEF Settled, L
<1> DEFINE k == Q.variable_loan_share_quantity - gone
<1>9. k \in Nat /\ k + gone = Q.variable_loan_share_quantity /\ Q.vault + paid \in Nat
  BY <1>1, <1>3, <1>4, <1>7, <1>8 DEF SameBooks
<1>10. /\ R \in Pool /\ R.dx_supply = Q.dx_supply /\ R.deposit_index = Q.deposit_index
       /\ R.insurance_balance = Q.insurance_balance /\ R.vault = Q.vault + paid
       /\ R.variable_loan_share_quantity = k /\ R.loan_index = L
  <2> DEFINE w == Q.vault + paid
  <2>1. R = [Q EXCEPT !.variable_loan_share_quantity = k, !.vault = w] /\ k \in Int /\ w \in Nat
    BY <1>9
  <2> HIDE DEF k, w, R
  <2>2. /\ R \in Pool /\ R.dx_supply = Q.dx_supply /\ R.deposit_index = Q.deposit_index
        /\ R.insurance_balance = Q.insurance_balance /\ R.vault = w
        /\ R.variable_loan_share_quantity = k /\ R.loan_index = Q.loan_index
    BY <1>5, <2>1 DEF Pool
  <2> QED BY <1>8, <2>2 DEF w
<1> HIDE DEF R, k
<1>11. Lack(S) = Lack(R)
  BY <1>2, <1>10, UpdateInterestRateLack
<1>12. gone * L <= (paid + 1) * ONE
  <2> DEFINE a == gone * L   b == (shares - gone) * L   c == paid * ONE
  <2>1. /\ shares * L = a + b /\ (paid + 1) * ONE = c + ONE
        /\ a \in Int /\ b \in Int /\ c \in Int /\ ONE \in Int
    BY <1>1, DecimalsAssumption
  <2>2. shares * L <= b + c + ONE
    BY <1>1
  <2> HIDE DEF a, b, c
  <2>3. a <= c + ONE
    BY <2>1, <2>2
  <2> QED BY <2>1, <2>3 DEF a
<1>13. DMul(k + gone, L) <= DMul(k, L) + (paid + 1) /\ DMul(k, L) \in Nat /\ DMul(k + gone, L) \in Nat
  <2>1. paid + 1 \in Nat /\ L \in Nat /\ k + gone \in Nat
    BY <1>1, <1>9
  <2> QED BY <1>1, <1>9, <1>12, <2>1, DMulOfSum, DMulNat
<1>19. DMul(k + gone, L) >= DMul(k, L) + DMul(gone, L)
  BY <1>1, <1>9, DMulSplit
<1> DEFINE x == DMul(k + gone, L)   y == DMul(k, L)
           d == DMul(Q.dx_supply, Q.deposit_index)
<1>14. Lack(R) = d + Q.insurance_balance - (Q.vault + paid) - y
       /\ Lack(Q) = d + Q.insurance_balance - Q.vault - x
  BY <1>8, <1>9, <1>10 DEF Lack
<1>15. /\ d \in Int /\ x \in Int /\ y \in Int /\ x <= y + paid + 1
       /\ D <= x - y + 1
  BY <1>1, <1>8, <1>13, <1>18, <1>19
<1> HIDE DEF x, y, d
<1>16. Lack(R) <= Lack(Q) + 1 /\ Lack(R) \in Int
  BY <1>1, <1>8, <1>14, <1>15
<1> DEFINE p == Lack(P)   r == Lack(R)   cL == sc * L
<1>20. p - r <= paid - D + 2
  BY <1>1, <1>5, <1>6, <1>8, <1>14, <1>15, <1>16, <1>18
<1>21. p \in Int /\ r \in Int /\ cL \in Nat /\ paid \in Int /\ D \in Int
  BY <1>1, <1>6, <1>16, <1>17, <1>18
<1> HIDE DEF p, r, cL
<1>22. (p - r) * ONE <= cL + (unit + 2) * ONE
  <2> DEFINE w == (p - r) * ONE   uO == unit * ONE
  <2>1. CASE paid - D < unit
    <3>1. p - r \in Int /\ unit + 1 \in Int /\ p - r <= unit + 1
      BY <1>17, <1>20, <1>21, <2>1
    <3>2. (p - r) * ONE <= (unit + 1) * ONE
      BY <1>17, <3>1, TimesMonotone
    <3>3. /\ (unit + 1) * ONE = uO + ONE /\ (unit + 2) * ONE = uO + 2 * ONE
          /\ w \in Int /\ uO \in Int
      BY <1>17, <1>21
    <3> HIDE DEF w, uO
    <3>4. w <= cL + (uO + 2 * ONE)
      BY <1>17, <1>21, <3>2, <3>3 DEF w
    <3> QED BY <3>3, <3>4 DEF w
  <2>2. CASE (paid - D - 1) * ONE < sc * L
    <3> DEFINE z == paid - D - 1   zO == z * ONE
    <3>1. p - r \in Int /\ z \in Int /\ z + 3 \in Int /\ p - r <= z + 3
      BY <1>20, <1>21
    <3>2. zO < cL
      BY <2>2 DEF cL
    <3> HIDE DEF z
    <3>3. (p - r) * ONE <= (z + 3) * ONE
      BY <1>17, <3>1, TimesMonotone
    <3>4. /\ (z + 3) * ONE = zO + 3 * ONE /\ (unit + 2) * ONE = uO + 2 * ONE
          /\ w \in Int /\ zO \in Int /\ uO \in Int /\ uO >= ONE
      <4>1. 1 * ONE <= unit * ONE
        <5>1. 1 \in Int /\ unit \in Int /\ 1 <= unit
          BY <1>17
        <5> QED BY <1>17, <5>1, TimesMonotone
      <4> QED BY <1>17, <1>21, <3>1, <4>1
    <3> HIDE DEF w, uO, zO
    <3>5. w <= cL + (uO + 2 * ONE)
      BY <1>17, <1>21, <3>2, <3>3, <3>4 DEF w
    <3> QED BY <3>4, <3>5 DEF w
  <2> QED BY <1>1, <2>1, <2>2
<1>23. r <= p + 2
  BY <1>5, <1>6, <1>8, <1>16 DEF p, r
<1>24. Lack(S) = r /\ Lack(P) = p
  BY <1>11 DEF p, r
<1> HIDE DEF Q
<1>25. Lack(S) <= Lack(P) + 2 /\ (Lack(P) - Lack(S)) * ONE <= sc * L + (unit + 2) * ONE
  BY <1>22, <1>23, <1>24 DEF cL
<1> QED BY <1>25 DEF S, sc, L, unit


\* What depositors of D dx get of a fee, by the raise of their index S by a share of
\* it over what the dx are worth: with the insurance's share it is worth at least the
\* fee over the index, but for a last digit for each dx.
LEMMA FeeShared ==
  ASSUME NEW D \in Nat, NEW S \in Nat, S >= ONE, NEW fee \in Nat,
         NEW insurance \in Nat, insurance <= fee,
         NEW supply, supply = DMul(D, S), supply # 0,
         NEW gain, gain = DDiv(fee - insurance, supply)
  PROVE  /\ gain \in Nat /\ DDiv(fee, S) \in Nat /\ DMul(D, gain) \in Nat
         /\ DDiv(fee, S) * ONE <= (DMul(D, gain) + insurance) * ONE + D + ONE
<1> DEFINE left == fee - insurance   q == DDiv(fee, S)   g == DMul(D, gain)
<1>1. ONE \in Nat \ {0} /\ S \in Nat \ {0} /\ left \in Nat /\ left + insurance = fee
  BY DecimalsAssumption
<1>2. supply \in Nat \ {0} /\ supply * ONE <= D * S
  BY DMulBounds
<1>3. gain \in Nat /\ left * ONE < gain * supply + supply
  <2> HIDE DEF left
  <2>1. DDiv(left, supply) \in Nat /\ left * ONE < DDiv(left, supply) * supply + supply
    BY <1>1, <1>2, DDivBounds
  <2> QED BY <2>1 DEF left
<1>4. q \in Nat /\ q * S <= fee * ONE
  BY <1>1, DDivBounds
<1>5. g \in Nat /\ D * gain < g * ONE + ONE
  BY <1>3, DMulBounds
<1> DEFINE lO == left * ONE   iO == insurance * ONE   more == (gain + 1) * D
<1> HIDE DEF left, q, g
<1>6. lO * ONE <= more * S
  <2> DEFINE k == gain + 1   kS == k * supply   b == supply * ONE   d == D * S
  <2>1. k \in Nat /\ kS = gain * supply + supply /\ lO <= kS /\ kS \in Int /\ lO \in Int
    BY <1>1, <1>2, <1>3
  <2>2. b \in Int /\ d \in Int /\ b <= d
    BY <1>1, <1>2
  <2>3. kS * ONE = b * k /\ more * S = d * k
    BY <1>1, <1>2, <1>3
  <2> HIDE DEF k, kS, b, d, lO, more
  <2>4. lO * ONE <= kS * ONE /\ b * k <= d * k
    BY <1>1, <2>1, <2>2, TimesMonotone
  <2>5. lO * ONE \in Int /\ kS * ONE \in Int /\ d * k \in Int
    BY <1>1, <2>1, <2>2
  <2> QED BY <2>3, <2>4, <2>5
<1>7. iO * ONE <= iO * S
  <2>1. iO \in Nat /\ ONE \in Int /\ S \in Int
    BY <1>1
  <2> HIDE DEF iO
  <2>2. ONE * iO <= S * iO
    BY <2>1, TimesMonotone
  <2> QED BY <2>1, <2>2
<1>8. q * S * ONE <= fee * ONE * ONE
  <2> DEFINE a == q * S   b == fee * ONE
  <2>1. a \in Int /\ b \in Int /\ a <= b
    BY <1>1, <1>4
  <2> HIDE DEF a, b
  <2>2. a * ONE <= b * ONE
    BY <1>1, <2>1, TimesMonotone
  <2> QED BY <2>2 DEF a, b
<1> DEFINE qO == q * ONE   w == more + iO
<1>9. qO * S <= w * S
  <2>1. /\ q * S * ONE = qO * S /\ w * S = more * S + iO * S
        /\ fee * ONE * ONE = lO * ONE + iO * ONE
    BY <1>1, <1>3, <1>4
  <2>2. /\ qO * S \in Int /\ more * S \in Int /\ iO * S \in Int
        /\ lO * ONE \in Int /\ iO * ONE \in Int
    BY <1>1, <1>3, <1>4
  <2> DEFINE a == qO * S   b == w * S   c == more * S   d == iO * S   l == lO * ONE   i == iO * ONE
  <2>3. a <= l + i /\ l <= c /\ i <= d /\ b = c + d
    BY <1>6, <1>7, <1>8, <2>1
  <2> HIDE DEF a, b, c, d, l, i
  <2>4. a <= b
    BY <2>2, <2>3 DEF a, c, d, l, i
  <2> QED BY <2>4 DEF a, b
<1>10. qO <= w
  <2>1. qO \in Int /\ w \in Int
    BY <1>1, <1>3, <1>4
  <2>2. w * S < w * S + S /\ w * S \in Int /\ qO * S \in Int
    BY <1>1, <2>1
  <2> HIDE DEF qO, w
  <2>3. qO * S < w * S + S
    BY <1>1, <1>9, <2>1, <2>2
  <2> QED BY <1>1, <2>1, <2>3, TimesCancel
<1>11. /\ more = D * gain + D /\ (g + insurance) * ONE = g * ONE + iO
       /\ D * gain \in Int /\ g * ONE \in Int /\ iO \in Int
  BY <1>1, <1>3, <1>5
<1> DEFINE gO == g * ONE   dg == D * gain
<1>12. qO <= dg + D + iO /\ dg < gO + ONE /\ qO \in Int
  BY <1>1, <1>4, <1>5, <1>10, <1>11
<1> HIDE DEF qO, iO, gO, dg, more
<1>13. qO <= gO + iO + D + ONE
  BY <1>1, <1>11, <1>12 DEF gO, dg
<1> QED BY <1>3, <1>4, <1>5, <1>11, <1>13 DEF qO, gO, q, g

\* A flash loan is out of the vault until it is repaid,
LEMMA BorrowFlashloanLack ==
  ASSUME NEW e \in Environment, NEW P, Sound(P, e), NEW amount \in Nat
  PROVE  Lack(PoolBorrowFlashloan(P, e, amount)) = Lack(P) + FloorTo(amount, e.cfg.unit)
<1>1. e.cfg.unit \in Nat \ {0} /\ amount \in Int
  BY DEF Environment, PoolConfig
<1>2. FloorTo(amount, e.cfg.unit) \in Int
  BY <1>1, FloorToBounds
<1>3. P \in Pool
  BY DEF Sound
<1> DEFINE r == FloorTo(amount, e.cfg.unit)
<1>4. PoolBorrowFlashloan(P, e, amount) = [P EXCEPT !.vault = @ - r]
  BY DEF PoolBorrowFlashloan
<1> HIDE DEF r
<1>5. r \in Int
  BY <1>2 DEF r
<1>6. Lack([P EXCEPT !.vault = @ - r]) = Lack(P) + r
  BY <1>3, <1>5, PaidOutLack
<1> QED BY <1>4, <1>6 DEF r

\* and its fee pays for what the insurance and the depositors get of it; what they do
\* not get is within the fee less the fee over the index, but for a last digit for
\* each dx, a unit of the token and two last digits.
LEMMA RepayFlashloanLack ==
  ASSUME NEW e \in Environment, Prudent(e), NEW P, Sound(P, e), Growing(P), Booked(P),
         P.stable_loan_amount = 0,
         NEW amount \in Nat, NEW fee \in Nat, CanRepayFlashloan(P, e, fee)
  PROVE  /\ Lack(PoolRepayFlashloan(P, e, amount, fee)) <= Lack(P) + 1 - amount
         /\ (Lack(P) - Lack(PoolRepayFlashloan(P, e, amount, fee)) - amount) * ONE
              <= (e.cfg.unit + 1) * ONE
                   + (IF fee > 0 THEN (fee - DDiv(fee, SupplyIndex(P, e))) * ONE + P.dx_supply
                      ELSE 0)
<1> DEFINE due       == FlashloanDue(e, amount, fee)
           V         == [P EXCEPT !.vault = @ + due]
           Q         == UpdateIndex(V, e)
           supply    == DMul(Q.dx_supply, Q.deposit_index)
           insurance == DMul(fee, e.cfg.insurance_ratio)
           gain      == DDiv(fee - insurance, supply)
           R         == [Q EXCEPT !.insurance_balance = @ + insurance,
                                  !.deposit_index = @ + gain]
           S         == PoolRepayFlashloan(P, e, amount, fee)
           unit      == e.cfg.unit
<1>1. /\ due \in Nat /\ amount + fee <= due
      /\ unit \in Nat \ {0} /\ due < amount + fee + unit
  <2>1. unit \in Nat \ {0} /\ amount + fee \in Int /\ amount + fee >= 0
    BY DEF Environment, PoolConfig
  <2>2. due \in Int /\ amount + fee <= due /\ due < amount + fee + unit
    <3> HIDE DEF unit
    <3>1. /\ CeilTo(amount + fee, unit) \in Int /\ amount + fee <= CeilTo(amount + fee, unit)
          /\ CeilTo(amount + fee, unit) < amount + fee + unit
      BY <2>1, CeilToBounds
    <3> QED BY <3>1 DEF FlashloanDue, unit
  <2> QED BY <2>1, <2>2
<1>2. S = IF fee > 0 THEN UpdateInterestRate(R, e) ELSE V
  BY Zenon DEF PoolRepayFlashloan
<1>3. insurance \in Nat /\ insurance <= fee
  <2>1. e.cfg.insurance_ratio \in Nat /\ e.cfg.insurance_ratio <= ONE /\ ONE \in Nat
    BY DecimalsAssumption DEF Environment, PoolConfig, Prudent
  <2>2. DMul(e.cfg.insurance_ratio, fee) <= DMul(ONE, fee)
    BY <2>1, DMulMonotone
  <2>3. DMul(ONE, fee) = DMul(fee, ONE) /\ DMul(fee, ONE) = fee
    BY <2>1, DMulCommutes, DMulOne
  <2>4. DMul(e.cfg.insurance_ratio, fee) = insurance
    BY <2>1, DMulCommutes
  <2> QED BY <2>1, <2>2, <2>3, <2>4, DMulNat
<1> HIDE DEF due, insurance, S, unit
<1>4. P \in Pool /\ P.vault + due \in Nat
  BY <1>1 DEF Sound, Pool
<1>5. /\ Sound(V, e) /\ Growing(V) /\ Booked(V) /\ V.stable_loan_amount = 0
      /\ V = [P EXCEPT !.vault = @ - (-due)] /\ -due \in Int
  <2>1. P.vault - (-due) = P.vault + due /\ -due \in Int
    BY <1>1, <1>4 DEF Pool
  <2>2. V = [P EXCEPT !.vault = @ - (-due)]
    BY <2>1
  <2> QED BY <1>4, <2>1, <2>2 DEF Sound, Growing, Booked, Pool
<1>6. Lack(V) = Lack(P) + (-due)
  <2> HIDE DEF V
  <2> QED BY <1>4, <1>5, PaidOutLack
<1>7. Lack(P) \in Int /\ Lack(V) \in Int
  <2> HIDE DEF V
  <2> QED BY <1>4, <1>5, LackType DEF Sound
<1> HIDE DEF V
<1> DEFINE I == SupplyIndex(P, e)
           kept == fee - DDiv(fee, I)
<1> HIDE DEF I
<1>8. CASE fee > 0
  <2>1. /\ Q \in Pool /\ Growing(Q) /\ Booked(Q)
        /\ Lack(Q) <= Lack(V) + 1 /\ Lack(V) <= Lack(Q) + 1
    <3>1. Lack(Q) <= Lack(V) + (IF e.now = V.last_update THEN 0 ELSE 1) /\ Q \in Pool
          /\ Growing(Q) /\ Booked(Q) /\ Lack(V) <= Lack(Q) + 1
      BY <1>5, UpdateIndexLack
    <3> HIDE DEF Q
    <3>2. Lack(Q) \in Int
      BY <3>1, LackType
    <3> QED BY <1>7, <3>1, <3>2
  <2> HIDE DEF Q
  <2>2. /\ Q.dx_supply \in Nat /\ Q.deposit_index \in Nat /\ Q.vault \in Nat
        /\ Q.insurance_balance \in Int /\ supply \in Nat /\ Lack(Q) \in Int
        /\ DMul(Q.variable_loan_share_quantity, Q.loan_index) \in Nat
    BY <2>1, LackType
  <2>3. /\ supply \in Nat \ {0} /\ supply >= Q.dx_supply
        /\ Q.dx_supply = P.dx_supply /\ Q.deposit_index = I /\ I >= ONE
    <3>1. Q.dx_supply = P.dx_supply /\ Q.deposit_index = I
      <4>1. SameBooks(Q, V) /\ Settled(Q, V, e)
        BY <1>5, UpdateIndexSound, UpdateIndexSettles DEF Q
      <4>2. V.dx_supply = P.dx_supply /\ SupplyIndex(V, e) = SupplyIndex(P, e)
        BY <1>4 DEF V, Pool, SupplyIndex
      <4> QED BY <4>1, <4>2 DEF SameBooks, Settled, I
    <3>2. supply # 0
      BY <1>8, <3>1 DEF CanRepayFlashloan, I
    <3>3. Q.deposit_index >= ONE
      BY <2>1 DEF Growing
    <3> QED BY <2>2, <3>1, <3>2, <3>3, DMulGrows
  <2> DEFINE left == fee - insurance
  <2>4. left \in Nat
    BY <1>3
  <2>5. gain \in Nat /\ gain * supply <= left * ONE
    <3> HIDE DEF supply, left
    <3>1. DDiv(left, supply) \in Nat /\ DDiv(left, supply) * supply <= left * ONE
      BY <2>3, <2>4, DDivBounds
    <3> QED BY <3>1 DEF left
  <2>14. /\ DDiv(fee, I) \in Nat /\ DMul(Q.dx_supply, gain) \in Nat
         /\ DDiv(fee, I) * ONE
              <= (DMul(Q.dx_supply, gain) + insurance) * ONE + Q.dx_supply + ONE
    <3> DEFINE D == Q.dx_supply
    <3>1. D \in Nat /\ I \in Nat /\ I >= ONE /\ supply = DMul(D, I) /\ supply # 0
      BY <2>2, <2>3
    <3>2. gain = DDiv(fee - insurance, supply)
      OBVIOUS
    <3> HIDE DEF D, supply, gain
    <3>3. /\ DDiv(fee, I) \in Nat /\ DMul(D, gain) \in Nat
          /\ DDiv(fee, I) * ONE <= (DMul(D, gain) + insurance) * ONE + D + ONE
      BY <1>3, <3>1, <3>2, FeeShared
    <3> QED BY <3>3 DEF D
  <2> HIDE DEF gain
  <2>15. DMul(Q.dx_supply, Q.deposit_index + gain) >= supply + DMul(Q.dx_supply, gain)
    BY <2>2, <2>5, DMulSplit
  <2>6. gain * Q.dx_supply <= left * ONE
    <3> HIDE DEF supply, left
    <3>1. supply \in Int /\ Q.dx_supply \in Int
      BY <2>2, <2>3
    <3>2. Q.dx_supply * gain <= supply * gain
      BY <2>3, <2>5, <3>1, TimesMonotone
    <3>3. Q.dx_supply * gain = gain * Q.dx_supply /\ supply * gain = gain * supply
      BY <2>2, <2>3, <2>5
    <3>4. gain * Q.dx_supply \in Int /\ gain * supply \in Int /\ left * ONE \in Int
      BY <2>2, <2>3, <2>4, <2>5, DecimalsAssumption
    <3> QED BY <2>5, <3>2, <3>3, <3>4
  <2>7. DMul(Q.dx_supply, Q.deposit_index + gain) <= supply + left
        /\ DMul(Q.dx_supply, Q.deposit_index + gain) \in Nat
    <3> HIDE DEF left
    <3> DEFINE s == Q.deposit_index + gain
    <3>1. s \in Nat
      BY <2>2, <2>5
    <3>2. DMul(s, Q.dx_supply) <= DMul(Q.deposit_index, Q.dx_supply) + left
      BY <2>2, <2>4, <2>5, <2>6, DMulOfSum
    <3> HIDE DEF s
    <3>3. DMul(Q.deposit_index, Q.dx_supply) = supply
      <4>1. Q.deposit_index \in Int /\ Q.dx_supply \in Int
        BY <2>2
      <4> QED BY <4>1, DMulCommutes
    <3>4. DMul(s, Q.dx_supply) = DMul(Q.dx_supply, s)
      <4>1. s \in Int /\ Q.dx_supply \in Int
        BY <2>2, <3>1
      <4> QED BY <4>1, DMulCommutes
    <3>5. DMul(Q.dx_supply, s) \in Nat
      BY <2>2, <3>1, DMulNat
    <3> QED BY <3>2, <3>3, <3>4, <3>5 DEF s
  <2>8. /\ R \in Pool /\ R.dx_supply = Q.dx_supply
        /\ R.deposit_index = Q.deposit_index + gain
        /\ R.insurance_balance = Q.insurance_balance + insurance /\ R.vault = Q.vault
        /\ R.variable_loan_share_quantity = Q.variable_loan_share_quantity
        /\ R.loan_index = Q.loan_index
    <3> DEFINE i == Q.insurance_balance + insurance   s == Q.deposit_index + gain
    <3>1. R = [Q EXCEPT !.insurance_balance = i, !.deposit_index = s]
          /\ i \in Int /\ s \in Int
      BY <1>3, <2>2, <2>5
    <3> HIDE DEF i, s, R
    <3>2. /\ R \in Pool /\ R.dx_supply = Q.dx_supply /\ R.deposit_index = s
          /\ R.insurance_balance = i /\ R.vault = Q.vault
          /\ R.variable_loan_share_quantity = Q.variable_loan_share_quantity
          /\ R.loan_index = Q.loan_index
      BY <2>1, <3>1 DEF Pool
    <3> QED BY <3>2 DEF i, s
  <2> HIDE DEF R
  <2>9. Lack(S) = Lack(R)
    BY <1>2, <1>8, <2>8, UpdateInterestRateLack
  <2> DEFINE x == DMul(Q.variable_loan_share_quantity, Q.loan_index)
             y == DMul(Q.dx_supply, Q.deposit_index + gain)
             g == DMul(Q.dx_supply, gain)
  <2>10. /\ Lack(R) = y + (Q.insurance_balance + insurance) - Q.vault - x
         /\ Lack(Q) = supply + Q.insurance_balance - Q.vault - x
    BY <2>8 DEF Lack
  <2>11. x \in Int /\ y \in Int /\ y <= supply + left /\ y >= supply + g /\ g \in Nat
    BY <2>2, <2>7, <2>14, <2>15
  <2>12. left + insurance = fee
    BY <1>3
  <2> HIDE DEF x, y, g, supply, left
  <2>13. /\ Lack(R) <= Lack(Q) + fee /\ Lack(R) \in Int
         /\ Lack(Q) <= Lack(R) - g - insurance
    BY <1>3, <2>2, <2>4, <2>10, <2>11, <2>12
  <2>16. Lack(S) <= Lack(P) + 1 - amount
    BY <1>1, <1>6, <1>7, <2>1, <2>2, <2>9, <2>13
  <2> DEFINE m == Lack(P) - Lack(S) - amount   n == fee + unit - g - insurance
             q == DDiv(fee, I)
  <2>17. m <= n /\ m \in Int /\ n \in Int
    BY <1>1, <1>3, <1>6, <1>7, <2>1, <2>2, <2>9, <2>11, <2>13
  <2> DEFINE fO == fee * ONE   uO == unit * ONE   h == (g + insurance) * ONE   qO == q * ONE
             D == Q.dx_supply
  <2>18. m * ONE <= n * ONE /\ ONE \in Nat
    <3> HIDE DEF m, n
    <3> QED BY <2>17, DecimalsAssumption, TimesMonotone
  <2>19. /\ n * ONE = fO + uO - h /\ (unit + 1) * ONE = uO + ONE /\ kept * ONE = fO - qO
         /\ fO \in Int /\ uO \in Int /\ h \in Int /\ qO \in Int /\ m * ONE \in Int
         /\ D \in Nat
    <3> HIDE DEF m, D, q
    <3>1. q \in Nat /\ g \in Nat /\ D \in Nat
      BY <2>2, <2>11, <2>14 DEF q, D
    <3>2. kept = fee - q
      BY DEF q
    <3> HIDE DEF kept
    <3> QED BY <1>1, <1>3, <2>17, <2>18, <3>1, <3>2
  <2>20. qO <= h + D + ONE
    BY <2>14 DEF g
  <2> DEFINE mO == m * ONE   kO == kept * ONE
  <2>21. mO <= fO + uO - h /\ kO = fO - qO /\ mO \in Int
    BY <2>18, <2>19
  <2> HIDE DEF mO, kO, fO, uO, h, qO, D
  <2>22. mO <= uO + ONE + (kO + D)
    BY <2>18, <2>19, <2>20, <2>21
  <2>23. mO <= (unit + 1) * ONE + (kO + D)
    BY <2>19, <2>22
  <2>24. (Lack(P) - Lack(S) - amount) * ONE <= (unit + 1) * ONE + (kept * ONE + P.dx_supply)
    BY <2>3, <2>23 DEF mO, kO, D
  <2> HIDE DEF kept
  <2> QED BY <1>8, <2>16, <2>24 DEF S, unit, kept, I
<1>9. CASE ~(fee > 0)
  <2>1. Lack(S) = Lack(P) + (-due)
    BY <1>2, <1>6, <1>9
  <2>2. Lack(S) <= Lack(P) + 1 - amount
    BY <1>1, <1>7, <2>1
  <2>3. (Lack(P) - Lack(S) - amount) * ONE <= (unit + 1) * ONE
    <3>1. /\ Lack(P) - Lack(S) - amount \in Int /\ unit + 1 \in Int
          /\ Lack(P) - Lack(S) - amount <= unit + 1
      BY <1>1, <1>7, <1>9, <2>1
    <3> QED BY <3>1, DecimalsAssumption, TimesMonotone
  <2>4. (unit + 1) * ONE \in Int
    BY <1>1, DecimalsAssumption
  <2> QED BY <1>9, <2>2, <2>3, <2>4 DEF S, unit
<1> QED BY <1>8, <1>9

-----------------------------------------------------------------------------
(* What the insurance pays *)

\* A product of two gains is at least the sum of them.
LEMMA DMulOfGains ==
  ASSUME NEW x \in Nat, NEW y \in Nat
  PROVE  DMul(ONE + x, ONE + y) \in Nat /\ DMul(ONE + x, ONE + y) >= ONE + (x + y)
<1> DEFINE a == ONE + x   b == ONE + y   d == DMul(a, b)   s == ONE + (x + y)
<1>1. ONE \in Nat \ {0} /\ a \in Nat /\ b \in Nat /\ s \in Nat
  BY DecimalsAssumption
<1>2. a * b = s * ONE + x * y /\ x * y \in Nat
  BY <1>1
<1> HIDE DEF a, b, s
<1>3. d \in Nat /\ a * b < d * ONE + ONE
  BY <1>1, DMulBounds
<1>4. s * ONE < d * ONE + ONE
  <2>1. s * ONE \in Int /\ d * ONE \in Int
    BY <1>1, <1>3
  <2> DEFINE p == s * ONE   q == d * ONE   z == x * y
  <2> HIDE DEF p, q, z
  <2>2. p + z < q + ONE /\ z \in Nat /\ p \in Int /\ q \in Int
    BY <1>2, <1>3, <2>1 DEF p, q, z
  <2>3. p < q + ONE
    BY <1>1, <2>2
  <2> QED BY <2>3 DEF p, q
<1>5. s <= d
  <2>1. s \in Int /\ d \in Int
    BY <1>1, <1>3
  <2> HIDE DEF d
  <2> QED BY <1>1, <1>4, <2>1, TimesCancel
<1> QED BY <1>3, <1>5 DEF a, b, s

\* Compounding, by truncated squares, gains no less than the rate each time.
LEMMA PowiLinear ==
  \A n \in Nat, x \in Nat : Powi(ONE + x, n) \in Nat /\ Powi(ONE + x, n) >= ONE + n * x
<1> DEFINE Gains(m) == \A x \in Nat : PowiFcn[m][ONE + x] >= ONE + m * x
           A == {n \in Nat : Gains(n)}
<1>1. ASSUME NEW n \in Nat, \A j \in Nat : j < n => j \in A PROVE n \in A
  <2>1. SUFFICES ASSUME NEW x \in Nat PROVE PowiFcn[n][ONE + x] >= ONE + n * x
    OBVIOUS
  <2> DEFINE b == ONE + x   c == DMul(b, b)   y == c - ONE
  <2>2. ONE \in Nat /\ b \in Nat /\ b \in Int
    BY DecimalsAssumption
  <2>3. PowiFcn[n][b] = PowiStep(PowiFcn, n)[b]
    BY PowiDef
  <2>4. c \in Nat /\ c >= ONE + (x + x)
    BY DMulOfGains
  <2> HIDE DEF c
  <2>5. y \in Nat /\ y >= x + x /\ ONE + y = c
    BY <2>2, <2>4
  <2>6. CASE n = 0
    BY <2>2, <2>3, <2>6 DEF PowiStep
  <2>7. CASE n = 1
    BY <2>2, <2>3, <2>7 DEF PowiStep
  <2>8. ASSUME NEW m \in Nat, m < n
        PROVE  /\ PowiFcn[m][c] \in Nat
               /\ PowiFcn[m][c] >= ONE + m * (x + x) /\ m * (x + x) \in Nat
    <3>1. PowiFcn[m][c] \in Nat
      BY <2>4, PowiNat DEF Powi
    <3>2. PowiFcn[m][ONE + y] >= ONE + m * y
      <4>1. Gains(m)
        BY <1>1, <2>8
      <4> HIDE DEF y
      <4> QED BY <2>5, <4>1
    <3>3. x + x \in Int /\ y \in Int
      BY <2>5
    <3> HIDE DEF y
    <3>4. (x + x) * m <= y * m /\ (x + x) * m = m * (x + x) /\ y * m = m * y
      BY <2>5, <3>3, TimesMonotone
    <3> DEFINE p == m * (x + x)   q == m * y   g == PowiFcn[m][c]
    <3>5. p \in Nat /\ q \in Nat /\ p <= q /\ g >= ONE + q
      BY <2>5, <3>2, <3>4
    <3> HIDE DEF p, q, g
    <3>6. g >= ONE + p
      BY <2>2, <3>1, <3>5 DEF g
    <3> QED BY <3>1, <3>5, <3>6 DEF p, g
  <2>9. CASE n > 1 /\ n % 2 = 0
    <3> DEFINE m == n \div 2
    <3>1. m \in Nat /\ m < n /\ n = m + m
      BY <2>9
    <3>2. PowiStep(PowiFcn, n)[b] = PowiFcn[m][c]
      BY <2>2, <2>9 DEF PowiStep, c
    <3> HIDE DEF m
    <3>3. PowiFcn[m][c] >= ONE + m * (x + x)
      BY <2>8, <3>1
    <3>4. m * (x + x) = n * x
      BY <3>1
    <3> QED BY <2>3, <3>2, <3>3, <3>4
  <2>10. CASE n > 1 /\ n % 2 # 0
    <3> DEFINE m == (n - 1) \div 2   g == PowiFcn[m][c]   z == g - ONE
    <3>1. m \in Nat /\ m < n /\ n = m + m + 1
      BY <2>10
    <3>2. PowiStep(PowiFcn, n)[b] = DMul(b, PowiFcn[m][c])
      BY <2>2, <2>10 DEF PowiStep, c
    <3> HIDE DEF m
    <3>3. g \in Nat /\ g >= ONE + m * (x + x) /\ m * (x + x) \in Nat
      BY <2>8, <3>1
    <3>4. m * (x + x) + x = n * x
      BY <3>1
    <3> HIDE DEF g
    <3>5. z \in Nat /\ ONE + z = g /\ z >= m * (x + x)
      BY <2>2, <3>3
    <3> HIDE DEF z
    <3>6. DMul(ONE + x, ONE + z) \in Nat /\ DMul(ONE + x, ONE + z) >= ONE + (x + z)
      BY <3>5, DMulOfGains
    <3> DEFINE d == DMul(ONE + x, ONE + z)   k == m * (x + x)   nx == n * x
    <3> HIDE DEF d, k, nx
    <3>7. d \in Nat /\ d >= ONE + (x + z) /\ z >= k /\ k + x = nx /\ k \in Nat
      BY <3>3, <3>4, <3>5, <3>6 DEF d, k, nx
    <3>8. d >= ONE + nx
      BY <2>2, <3>5, <3>7
    <3> QED BY <2>3, <3>2, <3>5, <3>8 DEF d, nx, g
  <2> QED BY <2>6, <2>7, <2>9, <2>10
<1>2. A = Nat
  <2>1. A \in SUBSET Nat
    OBVIOUS
  <2> HIDE DEF A
  <2> QED BY <1>1, <2>1, StrongInduction
<1>3. ASSUME NEW n \in Nat, NEW x \in Nat
      PROVE  Powi(ONE + x, n) \in Nat /\ Powi(ONE + x, n) >= ONE + n * x
  <2>1. ONE + x \in Nat
    BY DecimalsAssumption
  <2>2. Gains(n)
    <3> HIDE DEF Gains
    <3> QED BY <1>2
  <2>3. PowiFcn[n][ONE + x] >= ONE + n * x
    BY <2>2
  <2> QED BY <2>1, <2>3, PowiNat DEF Powi
<1> QED BY <1>3

\* The rates of P fit its books: its depositors earn no more than its borrowers pay.
Matched(P) ==
  P.deposit_interest_rate * DMul(P.dx_supply, P.deposit_index)
    <= DMul(P.variable_loan_share_quantity, P.loan_index) * P.variable_loan_interest_rate

\* What the last digits of the interest since its last update may cost P's insurance.
DigitsLost(P, e) ==
  IF e.now = P.last_update THEN 0
  ELSE P.variable_loan_share_quantity + ONE
         + (e.now - P.last_update)
             * (DMul(P.variable_loan_share_quantity, P.loan_index) + P.deposit_interest_rate)

\* The rates at a level of deposits and of variable debts: what is earned on the one
\* is at most what is paid on the other.
LEMMA CalcInterestRateMatched ==
  ASSUME NEW e \in Environment, Prudent(e), NEW supply \in Nat, NEW debt \in Nat
  PROVE  LET rates == CalcInterestRate(e, supply, debt, 0)
         IN  rates.supply * supply <= debt * rates.variable
<1> DEFINE rates    == CalcInterestRate(e, supply, debt, 0)
           variable == rates.variable
           stable   == StableRate(variable, e.validator_apy)
           overall  == IF debt = 0 THEN 0 ELSE DDiv(DMul(debt, variable) + DMul(0, stable), debt)
           total    == DMul(debt, overall)
           keep     == ONE - e.cfg.insurance_ratio
           interest == DMul(total, keep)
           paid     == debt * variable
<1>1. rates.supply = IF supply = 0 THEN 0 ELSE DDiv(interest, supply)
  <2>1. debt + 0 = debt
    OBVIOUS
  <2> QED BY <2>1 DEF CalcInterestRate
<1>2. variable \in Nat
  <2>1. 0 \in Nat
    OBVIOUS
  <2> HIDE DEF rates
  <2>2. rates.variable \in Nat
    BY <2>1, CalcInterestRateNat DEF rates
  <2> QED BY <2>2
<1>3. ONE \in Nat \ {0} /\ e.validator_apy \in Nat /\ keep \in Nat /\ keep <= ONE
  BY DecimalsAssumption DEF Environment, PoolConfig, Prudent
<1> HIDE DEF rates, keep
<1>4. DMul(0, stable) = 0
  <2>1. variable \in Int /\ e.validator_apy \in Int
    BY <1>2, <1>3
  <2> HIDE DEF variable
  <2>2. stable \in Int
    BY <2>1 DEF StableRate
  <2> QED BY <2>2, DMulZero
<1> HIDE DEF variable, stable
<1>5. overall \in Nat /\ overall * debt <= paid
  <2>1. CASE debt = 0
    BY <1>2, <2>1
  <2>2. CASE debt # 0
    <3> DEFINE m == DMul(debt, variable)
    <3>1. m \in Nat /\ m * ONE <= paid /\ m + 0 = m /\ debt \in Nat \ {0}
      BY <1>2, <2>2, DMulBounds
    <3> HIDE DEF m
    <3>2. DDiv(m, debt) \in Nat /\ DDiv(m, debt) * debt <= m * ONE /\ DDiv(m, debt) * debt \in Nat
      BY <3>1, DDivBounds
    <3>3. overall = DDiv(m, debt)
      BY <1>4, <2>2, <3>1 DEF m
    <3>4. m * ONE \in Int /\ paid \in Int
      BY <1>2, <1>3, <3>1
    <3> HIDE DEF overall, paid
    <3> DEFINE a == m * ONE   b == DDiv(m, debt) * debt
    <3>5. b <= a /\ a <= paid /\ a \in Int /\ b \in Int
      BY <3>1, <3>2, <3>4
    <3> HIDE DEF a, b
    <3>6. b <= paid
      BY <3>4, <3>5
    <3> QED BY <3>2, <3>3, <3>6 DEF b
  <2> QED BY <2>1, <2>2
<1> HIDE DEF overall
<1>6. total \in Nat /\ total * ONE <= overall * debt
  <2>1. total \in Nat /\ total * ONE <= debt * overall
    BY <1>5, DMulBounds
  <2> QED BY <1>5, <2>1
<1> HIDE DEF total
<1>7. interest \in Nat /\ interest <= total
  <2>1. interest \in Nat
    BY <1>3, <1>6, DMulNat
  <2>2. DMul(keep, total) <= DMul(ONE, total) /\ DMul(ONE, total) = DMul(total, ONE)
    BY <1>3, <1>6, DMulMonotone, DMulCommutes
  <2>3. DMul(keep, total) = interest /\ DMul(total, ONE) = total
    BY <1>3, <1>6, DMulCommutes, DMulOne
  <2> QED BY <2>1, <2>2, <2>3
<1> HIDE DEF interest
<1>8. interest * ONE <= paid
  <2> DEFINE a == interest * ONE   b == total * ONE   c == overall * debt
  <2>1. a <= b
    BY <1>3, <1>6, <1>7, TimesMonotone
  <2>2. b <= c /\ c <= paid /\ a \in Int /\ b \in Int /\ c \in Int /\ paid \in Int
    BY <1>2, <1>3, <1>5, <1>6, <1>7
  <2> HIDE DEF a, b, c, paid
  <2>3. a <= paid
    BY <2>1, <2>2
  <2> QED BY <2>3 DEF a
<1>9. CASE supply = 0
  <2>1. rates.supply * supply = 0
    BY <1>1, <1>9
  <2>2. paid \in Nat
    BY <1>2
  <2>3. 0 <= paid
    BY <2>2
  <2> QED BY <2>1, <2>3 DEF paid, variable, rates
<1>10. CASE supply # 0
  <2>1. supply \in Nat \ {0}
    BY <1>10
  <2>2. /\ DDiv(interest, supply) * supply <= interest * ONE
        /\ DDiv(interest, supply) * supply \in Nat
    BY <1>7, <2>1, DDivBounds
  <2> DEFINE a == DDiv(interest, supply) * supply   b == interest * ONE
  <2>3. rates.supply * supply = a /\ a <= b /\ b <= paid
    BY <1>1, <1>8, <1>10, <2>2
  <2>4. a \in Int /\ b \in Int /\ paid \in Int
    BY <1>2, <1>3, <1>7, <2>2
  <2> HIDE DEF a, b, paid
  <2>5. rates.supply * supply <= paid
    BY <2>3, <2>4
  <2> QED BY <2>5 DEF paid, variable, rates
<1> QED BY <1>9, <1>10

LEMMA CancelProduct ==
  ASSUME NEW a \in Int, NEW b \in Int, NEW c \in Nat \ {0}, a * c <= b * c
  PROVE  a <= b
<1> DEFINE p == a * c   q == b * c
<1>1. p \in Int /\ q \in Int /\ p <= q /\ c \in Int /\ c > 0
  OBVIOUS
<1> HIDE DEF p, q
<1>2. p < q + c
  BY <1>1
<1> QED BY <1>2, TimesCancel DEF p, q

\* The interest of K dx at a rate r over delta epochs is within what the rate makes
\* of their worth and of a last digit.
LEMMA SupplyInterestBound ==
  ASSUME NEW K \in Nat, NEW D \in Nat, NEW r \in Nat, NEW delta \in Nat,
         NEW u, u = DMul(K, LinearInterest(D, r, delta) - D)
  PROVE  u \in Nat /\ u * ONE * EPOCH_OF_YEAR <= (DMul(K, D) + 1) * (r * delta)
<1> DEFINE s  == LinearRate(r, delta)
           g  == LinearInterest(D, r, delta) - D
           S  == DMul(K, D) + 1
           Y  == EPOCH_OF_YEAR
           rd == r * delta
<1>1. ONE \in Nat \ {0} /\ Y \in Nat \ {0} /\ rd \in Nat
  BY DecimalsAssumption
<1>2. s \in Nat /\ s * Y <= rd
  <2>1. Trunc(rd, Y) \in Int /\ Trunc(rd, Y) >= 0 /\ Trunc(rd, Y) * Y <= rd
    BY <1>1, TruncType, TruncBounds
  <2> QED BY <2>1 DEF LinearRate
<1>3. g \in Nat /\ g * ONE <= D * s
  <2> DEFINE I == LinearInterest(D, r, delta)
  <2>1. I \in Nat /\ I >= D
    BY LinearInterestGrows
  <2>2. I = DMul(D, ONE + s)
    BY DEF LinearInterest
  <2> HIDE DEF s, I
  <2>3. DMul(D, ONE + s) * ONE <= D * (ONE + s)
    <3>1. ONE + s \in Nat
      BY <1>1, <1>2
    <3> QED BY <3>1, DMulBounds
  <2>4. /\ D * (ONE + s) = D * ONE + D * s /\ (I - D) * ONE = I * ONE - D * ONE
        /\ D * ONE \in Int /\ D * s \in Int /\ I * ONE \in Int
    BY <1>1, <1>2, <2>1
  <2>5. I - D \in Nat
    BY <2>1
  <2> DEFINE x == D * ONE   y == D * s   z == I * ONE
  <2>6. z <= x + y /\ (I - D) * ONE = z - x /\ x \in Int /\ y \in Int /\ z \in Int
    BY <2>2, <2>3, <2>4
  <2> HIDE DEF x, y, z
  <2>7. (I - D) * ONE <= y
    BY <2>6
  <2> QED BY <2>5, <2>7 DEF I, y
<1>4. u \in Nat /\ u * ONE <= K * g
  <2> HIDE DEF g
  <2> QED BY <1>3, DMulBounds DEF g
<1>5. S \in Nat /\ K * D <= S * ONE
  <2> DEFINE d == DMul(K, D)   dO == d * ONE   kd == K * D
  <2>1. d \in Nat /\ kd < dO + ONE /\ kd \in Nat
    BY DMulBounds
  <2>2. (d + 1) * ONE = dO + ONE /\ dO \in Int
    BY <1>1, <2>1
  <2> HIDE DEF d, dO, kd
  <2>3. kd <= (d + 1) * ONE /\ d + 1 \in Nat
    BY <1>1, <2>1, <2>2
  <2> QED BY <2>3 DEF kd, d
<1> HIDE DEF s, g, S, rd
<1>6. u * ONE <= S * s
  <2> DEFINE a == u * ONE   b == K * g   c == g * ONE   d == D * s   f == K * D   h == S * ONE
  <2>1. /\ a \in Int /\ b \in Int /\ c \in Int /\ d \in Int /\ f \in Int /\ h \in Int
        /\ a <= b /\ c <= d /\ f <= h
    BY <1>1, <1>2, <1>3, <1>4, <1>5
  <2>2. b * ONE = c * K /\ d * K = f * s /\ h * s = S * s * ONE
    BY <1>1, <1>2, <1>3, <1>5
  <2> HIDE DEF a, b, c, d, f, h
  <2>3. a * ONE <= b * ONE /\ c * K <= d * K /\ f * s <= h * s
    BY <1>1, <1>2, <2>1, TimesMonotone
  <2>4. a * ONE \in Int /\ c * K \in Int /\ f * s \in Int /\ S * s * ONE \in Int
    BY <1>1, <1>2, <1>5, <2>1
  <2> DEFINE x == a * ONE   y == c * K   z == f * s   w == S * s * ONE
  <2>5. x <= y /\ y <= z /\ z <= w /\ x \in Int /\ y \in Int /\ z \in Int /\ w \in Int
    BY <2>2, <2>3, <2>4
  <2> HIDE DEF x, y, z, w
  <2>6. x <= w
    BY <2>5
  <2>7. S * s \in Int
    BY <1>2, <1>5
  <2> QED BY <1>1, <2>1, <2>6, <2>7, CancelProduct DEF x, w, a
<1>7. u * ONE * Y <= S * rd
  <2> DEFINE a == u * ONE   b == S * s   c == s * Y
  <2>1. a \in Int /\ b \in Int /\ c \in Int /\ b * Y = c * S /\ rd * S = S * rd
    BY <1>1, <1>2, <1>4, <1>5
  <2>2. a <= b /\ c <= rd
    BY <1>2, <1>6
  <2> HIDE DEF a, b, c
  <2>3. a * Y <= b * Y /\ c * S <= rd * S
    BY <1>1, <1>5, <2>1, <2>2, TimesMonotone
  <2> DEFINE x == a * Y   y == c * S   z == S * rd
  <2>4. x <= y /\ y <= z /\ x \in Int /\ y \in Int /\ z \in Int
    BY <1>1, <1>5, <2>1, <2>3
  <2> HIDE DEF x, y, z
  <2>5. x <= z
    BY <2>4
  <2> QED BY <2>5 DEF x, a, z
<1> QED BY <1>4, <1>7 DEF S, rd

\* The interest of N loan shares at a rate v over delta epochs is no less than what
\* the rate makes of their worth, but for a part of the rate of an epoch for each part
\* of it, a last digit for each share and a last digit.
LEMMA LoanInterestBound ==
  ASSUME NEW N \in Nat, NEW L \in Nat, NEW v \in Nat, NEW delta \in Nat,
         NEW w, w = DMul(N, CompoundInterest(L, v, delta) - L)
  PROVE  /\ w \in Nat
         /\ DMul(N, L) * v * delta
              <= (w * ONE + N + ONE + DMul(N, L) * delta) * EPOCH_OF_YEAR
<1> DEFINE a  == Trunc(v, EPOCH_OF_YEAR)
           C  == CompoundRate(v, delta)
           h  == CompoundInterest(L, v, delta) - L
           B  == DMul(N, L)
           Y  == EPOCH_OF_YEAR
           da == delta * a
<1>1. ONE \in Nat \ {0} /\ Y \in Nat \ {0}
  BY DecimalsAssumption
<1>2. a \in Nat /\ v <= (a + 1) * Y
  <2>1. a \in Int /\ a >= 0 /\ v < a * Y + Y /\ a * Y \in Int
    BY <1>1, TruncType, TruncBounds
  <2> HIDE DEF a
  <2>2. (a + 1) * Y = a * Y + Y
    BY <1>1, <2>1
  <2> QED BY <1>1, <2>1, <2>2
<1>3. da \in Nat /\ C \in Nat /\ C >= ONE + da
  <2>1. C = Powi(ONE + a, delta)
    BY DEF CompoundRate
  <2> HIDE DEF a
  <2> QED BY <1>2, <2>1, PowiLinear
<1> HIDE DEF a, C
<1>4. h \in Nat /\ L * da <= (h + 1) * ONE
  <2> DEFINE I == CompoundInterest(L, v, delta)   x == L * C   y == L * da   o == ONE + da
  <2>1. I \in Nat /\ I >= L
    BY CompoundInterestGrows
  <2>2. I = DMul(L, C)
    BY DEF CompoundInterest, C
  <2> HIDE DEF I, da
  <2>3. x < I * ONE + ONE /\ x \in Nat
    BY <1>3, <2>2, DMulBounds
  <2>4. L * o <= x
    <3>1. o \in Int /\ C \in Int /\ o <= C
      BY <1>1, <1>3
    <3> HIDE DEF o
    <3>2. o * L <= C * L
      BY <3>1, TimesMonotone
    <3>3. o * L = L * o /\ C * L = x
      BY <3>1
    <3> QED BY <3>2, <3>3
  <2>5. /\ L * o = L * ONE + y /\ (I - L + 1) * ONE = I * ONE - L * ONE + ONE
        /\ L * ONE \in Int /\ I * ONE \in Int /\ y \in Int
    BY <1>1, <1>3, <2>1
  <2> DEFINE p == L * ONE   q == I * ONE
  <2> HIDE DEF x, y, p, q, o
  <2>6. p + y < q + ONE /\ p \in Int /\ q \in Int
    BY <1>1, <2>3, <2>4, <2>5 DEF p, q
  <2>7. (I - L + 1) * ONE = q - p + ONE /\ I - L \in Nat
    BY <2>1, <2>5 DEF p, q
  <2>8. y <= (I - L + 1) * ONE
    BY <1>1, <2>5, <2>6, <2>7
  <2> QED BY <2>7, <2>8 DEF y, I
<1>5. w \in Nat /\ N * h < w * ONE + ONE /\ N * h \in Nat
  <2> HIDE DEF h
  <2> QED BY <1>4, DMulBounds DEF h
<1>6. B \in Nat /\ B * ONE <= N * L
  BY DMulBounds
<1> HIDE DEF h, B
<1>7. B * da <= N * (h + 1)
  <2> DEFINE x == B * ONE   y == N * L   z == L * da   k == (h + 1) * ONE
  <2>1. /\ x \in Int /\ y \in Int /\ z \in Int /\ k \in Int /\ x <= y /\ z <= k
    BY <1>1, <1>3, <1>4, <1>6
  <2>2. x * da = B * da * ONE /\ y * da = z * N /\ k * N = N * (h + 1) * ONE
    <3> HIDE DEF da
    <3> QED BY <1>1, <1>3, <1>4, <1>6
  <2> HIDE DEF x, y, z, k, da
  <2>3. x * da <= y * da /\ z * N <= k * N
    BY <1>3, <2>1, TimesMonotone
  <2> DEFINE p == B * da   q == N * (h + 1)   m == y * da
  <2>4. p \in Int /\ q \in Int /\ m \in Int /\ p * ONE \in Int /\ q * ONE \in Int
    BY <1>1, <1>3, <1>4, <1>6, <2>1
  <2> DEFINE pO == p * ONE   qO == q * ONE
  <2>5. pO <= m /\ m <= qO
    BY <2>2, <2>3
  <2> HIDE DEF pO, qO, m
  <2>6. pO <= qO
    BY <2>4, <2>5 DEF pO, qO
  <2> HIDE DEF p, q
  <2>7. p <= q
    BY <1>1, <2>4, <2>6, CancelProduct DEF pO, qO
  <2> QED BY <2>7 DEF p, q
<1> DEFINE wO == w * ONE   Bd == B * delta   Nh == N * h   Bda == B * da
<1>8. Bda <= wO + N + ONE /\ Bda \in Int /\ wO \in Int /\ Bd \in Nat
  <2>1. N * (h + 1) = Nh + N /\ Nh \in Int /\ wO \in Int /\ Bda \in Int /\ Bd \in Nat
    <3> HIDE DEF da
    <3> QED BY <1>1, <1>3, <1>4, <1>5, <1>6
  <2>2. Bda <= Nh + N /\ Nh < wO + ONE
    BY <1>5, <1>7, <2>1
  <2> HIDE DEF Bda, Nh, wO
  <2> QED BY <1>1, <2>1, <2>2
<1>9. B * v * delta <= (wO + N + ONE + Bd) * Y
  <2> DEFINE o == (a + 1) * Y   t == Bda + Bd   r == wO + N + ONE + Bd
  <2>1. o \in Int /\ v * Bd = B * v * delta /\ o * Bd = t * Y
    BY <1>1, <1>2, <1>6
  <2>2. t \in Int /\ r \in Int /\ t <= r
    <3> HIDE DEF Bda, Bd, wO
    <3> QED BY <1>1, <1>8
  <2>3. v * Bd <= o * Bd
    <3> HIDE DEF o, Bd
    <3> QED BY <1>2, <1>8, <2>1, TimesMonotone DEF o
  <2>4. t * Y <= r * Y /\ t * Y \in Int /\ r * Y \in Int
    <3> HIDE DEF t, r
    <3> QED BY <1>1, <2>2, TimesMonotone
  <2> DEFINE x == B * v * delta   y == t * Y   z == r * Y
  <2>5. x <= y /\ y <= z /\ x \in Int /\ y \in Int /\ z \in Int
    BY <1>6, <2>1, <2>3, <2>4
  <2> HIDE DEF x, y, z
  <2>6. x <= z
    BY <2>5
  <2> QED BY <2>6 DEF x, z, r
<1> QED BY <1>5, <1>9 DEF wO, Bd, B

\* An update of the indices takes no more from the insurance than last digits.
LEMMA UpdateIndexCovers ==
  ASSUME NEW e \in Environment, NEW P, Sound(P, e), Growing(P), Booked(P),
         P.stable_loan_amount = 0, Matched(P)
  PROVE  (P.insurance_balance - UpdateIndex(P, e).insurance_balance) * ONE <= DigitsLost(P, e)
<1> DEFINE Q == UpdateIndex(P, e)
           K == P.dx_supply   D == P.deposit_index   r == P.deposit_interest_rate
           N == P.variable_loan_share_quantity   L == P.loan_index
           v == P.variable_loan_interest_rate   delta == e.now - P.last_update
           S == DMul(K, D)   B == DMul(N, L)
           Y == EPOCH_OF_YEAR
<1>1. /\ K \in Nat /\ D \in Nat /\ r \in Nat /\ N \in Nat /\ L \in Nat /\ v \in Nat
      /\ delta \in Nat /\ S \in Nat /\ B \in Nat /\ P.insurance_balance \in Int
      /\ ONE \in Nat \ {0} /\ Y \in Nat \ {0}
  <2>1. P \in Pool /\ ONE \in Nat \ {0} /\ Y \in Nat \ {0}
    BY DecimalsAssumption DEF Sound
  <2>2. /\ K \in Nat /\ D \in Nat /\ N \in Nat /\ L \in Nat /\ P.insurance_balance \in Int
        /\ S \in Nat /\ B \in Nat
    BY <2>1, LackType
  <2>3. r \in Nat /\ v \in Nat
    BY <2>1 DEF Pool, Growing
  <2>4. delta \in Nat
    BY DEF Sound, Pool, Environment
  <2> QED BY <2>1, <2>2, <2>3, <2>4
<1>2. CASE e.now = P.last_update
  <2>1. Q = P
    BY <1>2 DEF UpdateIndex
  <2>2. P.insurance_balance - P.insurance_balance = 0
    BY <1>1
  <2> QED BY <1>1, <1>2, <2>1, <2>2 DEF DigitsLost
<1>3. CASE e.now # P.last_update
  <2> DEFINE stable == CompoundInterest(P.stable_loan_amount, P.stable_loan_interest_rate, delta)
             w == DMul(N, LoanIndex(P, e) - L)   u == DMul(K, SupplyIndex(P, e) - D)
  <2>1. stable = 0
    <3>1. P.stable_loan_interest_rate \in Int
      BY DEF Sound, Pool
    <3>2. CompoundRate(P.stable_loan_interest_rate, delta) \in Int
      BY <1>1, <3>1, CompoundRateType
    <3> QED BY <3>2, DMulZero DEF CompoundInterest
  <2>2. Q.insurance_balance = P.insurance_balance + (w + (stable - P.stable_loan_amount) - u)
    BY <1>3 DEF UpdateIndex, Sound, Pool
  <2>3. u = DMul(K, LinearInterest(D, r, delta) - D)
    BY <1>3 DEF SupplyIndex
  <2>4. w = DMul(N, CompoundInterest(L, v, delta) - L)
    BY <1>3 DEF LoanIndex
  <2> HIDE DEF stable, w, u, Q
  <2>5. DigitsLost(P, e) = N + ONE + delta * (B + r) /\ r * S <= B * v
    BY <1>3 DEF DigitsLost, Matched
  <2>6. u \in Nat /\ u * ONE * Y <= (S + 1) * (r * delta)
    <3> HIDE DEF K, D, r, delta
    <3> QED BY <1>1, <2>3, SupplyInterestBound DEF S, Y
  <2>7. w \in Nat /\ B * v * delta <= (w * ONE + N + ONE + B * delta) * Y
    <3> HIDE DEF N, L, v, delta
    <3> QED BY <1>1, <2>4, LoanInterestBound DEF B, Y
  <2>8. P.insurance_balance - Q.insurance_balance = u - w
    <3> DEFINE i == P.insurance_balance   j == Q.insurance_balance
    <3>1. i \in Int /\ j = i + (w - u)
      BY <1>1, <2>1, <2>2, <2>6, <2>7
    <3> HIDE DEF i, j
    <3>2. i - j = u - w
      BY <2>6, <2>7, <3>1
    <3> QED BY <3>2 DEF i, j
  <2> HIDE DEF K, D, r, N, L, v, delta, S, B, Y
  <2> DEFINE rd == r * delta   Bd == B * delta   wO == w * ONE   uO == u * ONE
             more == wO + N + ONE + Bd + rd
  <2>9. uO * Y <= more * Y
    <3> DEFINE a == (S + 1) * rd   b == r * S   c == B * v   f == B * v * delta
               g == wO + N + ONE + Bd   h == g * Y   rdY == rd * Y
    <3>1. /\ a = b * delta + rd /\ c * delta = f /\ more * Y = h + rdY
          /\ b \in Int /\ c \in Int /\ rd \in Nat /\ f \in Int /\ b * delta \in Int
          /\ h \in Int /\ rdY \in Int /\ uO * Y \in Int /\ g \in Int
      BY <1>1, <2>6, <2>7
    <3>2. uO * Y <= a /\ b <= c /\ f <= h
      BY <2>5, <2>6, <2>7
    <3>3. rd <= rdY
      <4>1. 1 <= Y /\ 1 \in Int /\ Y \in Int
        BY <1>1
      <4> HIDE DEF rd
      <4>2. 1 * rd <= Y * rd /\ 1 * rd = rd /\ Y * rd = rdY
        BY <1>1, <3>1, <4>1, TimesMonotone
      <4> QED BY <4>2
    <3> HIDE DEF b, c
    <3>4. b * delta <= c * delta
      BY <1>1, <3>1, <3>2, TimesMonotone
    <3> DEFINE x == uO * Y   bd == b * delta   z == more * Y
    <3> HIDE DEF x, bd, z, rd, rdY, h, f, a
    <3>5. /\ x <= a /\ a = bd + rd /\ bd <= f /\ f <= h /\ rd <= rdY /\ z = h + rdY
          /\ x \in Int /\ bd \in Int /\ rd \in Int /\ rdY \in Int /\ h \in Int /\ f \in Int
      BY <3>1, <3>2, <3>3, <3>4 DEF x, bd, z
    <3>6. x <= z
      BY <3>5
    <3> QED BY <3>6 DEF x, z
  <2>10. /\ uO \in Int /\ more \in Int /\ (u - w) * ONE = uO - wO /\ wO \in Int
         /\ more = wO + (N + ONE + delta * (B + r)) /\ N + ONE + delta * (B + r) \in Int
    BY <1>1, <2>6, <2>7
  <2> HIDE DEF uO, wO, more
  <2>11. uO <= more
    BY <1>1, <2>9, <2>10, CancelProduct
  <2> DEFINE lost == N + ONE + delta * (B + r)
  <2>12. uO <= wO + lost /\ lost \in Int
    BY <2>10, <2>11
  <2> HIDE DEF lost
  <2>13. (u - w) * ONE <= lost
    BY <2>10, <2>12
  <2>14. DigitsLost(P, e) = lost
    BY <2>5 DEF lost
  <2> QED BY <2>8, <2>13, <2>14 DEF Q
<1> QED BY <1>2, <1>3

LEMMA UpdateInterestRateMatched ==
  ASSUME NEW e \in Environment, Prudent(e), NEW R, Sound(R, e), Growing(R), Booked(R),
         R.stable_loan_amount = 0, R.last_update = e.now
  PROVE  /\ Matched(UpdateInterestRate(R, e))
         /\ UpdateInterestRate(R, e).insurance_balance = R.insurance_balance
<1> DEFINE S == DMul(R.dx_supply, R.deposit_index)
           B == DMul(R.variable_loan_share_quantity, R.loan_index)
           d == InterestRate(R, e, 0).supply
           v == InterestRate(R, e, 0).variable
           U == UpdateInterestRate(R, e)
<1>1. R \in Pool
  BY DEF Sound
<1>2. S \in Nat /\ B \in Nat
  BY <1>1, LackType
<1>3. StableLoanValue(R, e) + 0 = 0
  <2>1. e.now - StableLoanLastUpdate \in Nat /\ R.stable_loan_interest_rate \in Int
    BY <1>1 DEF Environment, StableLoanLastUpdate, Pool
  <2>2. CompoundRate(R.stable_loan_interest_rate, e.now - StableLoanLastUpdate) \in Int
    BY <2>1, CompoundRateType
  <2>3. CompoundInterest(R.stable_loan_amount, R.stable_loan_interest_rate,
                         e.now - StableLoanLastUpdate) = 0
    BY <2>2, DMulZero DEF CompoundInterest
  <2> QED BY <2>3 DEF StableLoanValue
<1>4. InterestRate(R, e, 0) = CalcInterestRate(e, S, B, 0)
  <2>1. SupplyIndex(R, e) = R.deposit_index /\ LoanIndex(R, e) = R.loan_index
    BY DEF SupplyIndex, LoanIndex
  <2> QED BY <1>3, <2>1 DEF InterestRate
<1> HIDE DEF S, B
<1>5. d * S <= B * v
  BY <1>2, <1>4, CalcInterestRateMatched
<1>6. U = [R EXCEPT !.deposit_interest_rate = d, !.variable_loan_interest_rate = v]
  BY DEF UpdateInterestRate
<1> HIDE DEF d, v, U
<1>7. /\ U.deposit_interest_rate = d /\ U.variable_loan_interest_rate = v
      /\ U.dx_supply = R.dx_supply /\ U.deposit_index = R.deposit_index
      /\ U.variable_loan_share_quantity = R.variable_loan_share_quantity
      /\ U.loan_index = R.loan_index /\ U.insurance_balance = R.insurance_balance
  BY <1>1, <1>6 DEF Pool
<1>8. Matched(U)
  BY <1>5, <1>7 DEF Matched, S, B
<1> QED BY <1>7, <1>8 DEF U

\* A method leaves rates that fit the books, and takes last digits of the insurance.
Insured(Q, P, e) ==
  /\ Matched(Q)
  /\ (P.insurance_balance - Q.insurance_balance) * ONE <= DigitsLost(P, e)

\* A method brings the indices up, may add to the insurance and sets the rates.
LEMMA RatesInsured ==
  ASSUME NEW e \in Environment, Prudent(e), NEW P, Sound(P, e), Growing(P), Booked(P),
         P.stable_loan_amount = 0, Matched(P),
         NEW R, Sound(R, e), Growing(R), Booked(R), R.stable_loan_amount = 0,
         R.last_update = e.now, R.insurance_balance >= UpdateIndex(P, e).insurance_balance
  PROVE  Insured(UpdateInterestRate(R, e), P, e)
<1> DEFINE i == P.insurance_balance   j == UpdateIndex(P, e).insurance_balance
           k == R.insurance_balance   lost == DigitsLost(P, e)
<1>1. /\ Matched(UpdateInterestRate(R, e))
      /\ UpdateInterestRate(R, e).insurance_balance = k
  BY UpdateInterestRateMatched
<1>2. (i - j) * ONE <= lost
  BY UpdateIndexCovers
<1>3. i \in Int /\ j \in Int /\ k \in Int /\ k >= j /\ ONE \in Nat
  <2>1. UpdateIndex(P, e) \in Pool
    BY UpdateIndexSound DEF Sound
  <2> QED BY <2>1, DecimalsAssumption DEF Sound, Pool
<1>4. lost \in Int
  <2>1. P \in Pool /\ P.last_update \in Nat /\ e.now \in Nat /\ P.deposit_interest_rate \in Int
        /\ P.variable_loan_share_quantity \in Int
    BY DEF Sound, Pool, Environment
  <2>2. DMul(P.variable_loan_share_quantity, P.loan_index) \in Int
    BY <2>1, LackType
  <2> DEFINE b == DMul(P.variable_loan_share_quantity, P.loan_index)
             r == P.deposit_interest_rate   n == P.variable_loan_share_quantity
             delta == e.now - P.last_update
  <2>3. lost = IF e.now = P.last_update THEN 0 ELSE n + ONE + delta * (b + r)
    BY DEF DigitsLost
  <2>4. b \in Int /\ r \in Int /\ n \in Int /\ delta \in Int
    BY <2>1, <2>2
  <2> HIDE DEF b, r, n, delta, lost
  <2>5. n + ONE + delta * (b + r) \in Int
    BY <1>3, <2>4
  <2> QED BY <2>3, <2>5
<1> HIDE DEF i, j, k, lost
<1>5. (i - k) * ONE <= (i - j) * ONE
  <2>1. i - k \in Int /\ i - j \in Int /\ i - k <= i - j
    BY <1>3
  <2> QED BY <1>3, <2>1, TimesMonotone
<1> DEFINE x == (i - k) * ONE   y == (i - j) * ONE
<1>6. x \in Int /\ y \in Int /\ x <= y /\ y <= lost
  BY <1>2, <1>3, <1>5
<1> HIDE DEF x, y
<1>7. x <= lost
  BY <1>4, <1>6
<1> QED BY <1>1, <1>7 DEF Insured, x, i, lost

LEMMA MethodInsured ==
  ASSUME NEW e \in Environment, Prudent(e), NEW P, Sound(P, e), Growing(P), Booked(P),
         P.stable_loan_amount = 0, Matched(P),
         NEW R, Sound(R, e), Booked(R), SameRates(R, P), Settled(R, P, e), SameStable(R, P),
         R.insurance_balance = UpdateIndex(P, e).insurance_balance
  PROVE  Insured(UpdateInterestRate(R, e), P, e)
<1>1. /\ SupplyIndex(P, e) >= ONE /\ LoanIndex(P, e) >= ONE
  BY IndicesGrow
<1>2. Growing(R) /\ R.stable_loan_amount = 0 /\ R.last_update = e.now
  BY <1>1 DEF Growing, SameRates, SameStable, Settled
<1>3. R.insurance_balance >= UpdateIndex(P, e).insurance_balance
  BY DEF Sound, Pool
<1> QED BY <1>2, <1>3, RatesInsured

\* What moves the vault alone.
LEMMA VaultInsured ==
  ASSUME NEW U \in Pool, NEW v \in Int, NEW P, NEW e
  PROVE  /\ Matched(U) <=> Matched([U EXCEPT !.vault = v])
         /\ Insured(U, P, e) <=> Insured([U EXCEPT !.vault = v], P, e)
<1> DEFINE V == [U EXCEPT !.vault = v]
<1>1. /\ V.deposit_interest_rate = U.deposit_interest_rate /\ V.dx_supply = U.dx_supply
      /\ V.variable_loan_interest_rate = U.variable_loan_interest_rate
      /\ V.deposit_index = U.deposit_index /\ V.loan_index = U.loan_index
      /\ V.variable_loan_share_quantity = U.variable_loan_share_quantity
      /\ V.insurance_balance = U.insurance_balance
  BY DEF Pool
<1> HIDE DEF V
<1>2. (Matched(U) <=> Matched(V)) /\ (Insured(U, P, e) <=> Insured(V, P, e))
  BY <1>1 DEF Matched, Insured
<1> QED BY <1>2 DEF V

LEMMA SelfInsured ==
  ASSUME NEW e \in Environment, NEW P, Sound(P, e), Growing(P), Booked(P), Matched(P)
  PROVE  Insured(P, P, e) /\ DigitsLost(P, e) \in Nat
<1> DEFINE b == DMul(P.variable_loan_share_quantity, P.loan_index)
           r == P.deposit_interest_rate   n == P.variable_loan_share_quantity
           delta == e.now - P.last_update   i == P.insurance_balance
<1>1. P \in Pool
  BY DEF Sound
<1>2. b \in Nat /\ n \in Nat /\ i \in Int
  BY <1>1, LackType
<1>3. r \in Nat /\ delta \in Nat /\ ONE \in Nat
  BY <1>1, DecimalsAssumption DEF Sound, Pool, Growing, Environment
<1>4. DigitsLost(P, e) = IF e.now = P.last_update THEN 0 ELSE n + ONE + delta * (b + r)
  BY DEF DigitsLost
<1> HIDE DEF b, r, n, delta
<1>5. DigitsLost(P, e) \in Nat
  <2>1. delta * (b + r) \in Nat
    BY <1>2, <1>3
  <2>2. n + ONE + delta * (b + r) \in Nat
    BY <1>2, <1>3, <2>1
  <2> QED BY <1>4, <2>2
<1>6. (i - i) * ONE = 0
  BY <1>2, <1>3
<1> QED BY <1>5, <1>6 DEF Insured

LEMMA AddLiquidityInsured ==
  ASSUME NEW e \in Environment, Prudent(e), NEW P, Sound(P, e), Growing(P), Booked(P),
         P.stable_loan_amount = 0, Matched(P),
         NEW amount \in Nat, CanAddLiquidity(P, e, amount)
  PROVE  Insured(AddLiquidity(P, e, amount), P, e)
<1> DEFINE minted == MintedDx(P, e, amount)
           Q == UpdateIndex(P, e)
           R == [Q EXCEPT !.vault = @ + amount, !.dx_supply = @ + minted]
<1>1. minted \in Nat
  BY AddLiquiditySound
<1>2. AddLiquidity(P, e, amount) = UpdateInterestRate(R, e)
  BY DEF AddLiquidity
<1>3. /\ Sound(Q, e) /\ SameBooks(Q, P)
      /\ Settled(Q, P, e) /\ SameRates(Q, P) /\ SameStable(Q, P)
  BY UpdateIndexSound, UpdateIndexSettles
<1> HIDE DEF minted, Q
<1>4. Q \in Pool /\ Q.vault + amount \in Nat /\ Q.dx_supply + minted \in Nat
  BY <1>1, <1>3 DEF Sound, Pool
<1>5. /\ R \in Pool /\ SameIndices(R, Q) /\ SameRates(R, Q) /\ SameStable(R, Q)
      /\ R.variable_loan_share_quantity = Q.variable_loan_share_quantity
      /\ R.insurance_balance = Q.insurance_balance
  BY <1>4 DEF Pool, SameIndices, SameRates, SameStable
<1> HIDE DEF R
<1>6. /\ Sound(R, e) /\ Booked(R) /\ SameRates(R, P) /\ Settled(R, P, e) /\ SameStable(R, P)
  BY <1>3, <1>5 DEF Sound, SameBooks, SameIndices, SameRates, SameStable, Settled, Booked
<1> QED BY <1>2, <1>5, <1>6, MethodInsured DEF Q

LEMMA RemoveLiquidityInsured ==
  ASSUME NEW e \in Environment, Prudent(e), NEW P, Sound(P, e), Growing(P), Booked(P),
         P.stable_loan_amount = 0, Matched(P),
         NEW dx \in Nat, dx <= P.dx_supply, CanRemoveLiquidity(P, e, dx)
  PROVE  Insured(RemoveLiquidity(P, e, dx), P, e)
<1> DEFINE removed == RemovedAmount(P, e, dx)
           Q == UpdateIndex(P, e)
           R == [Q EXCEPT !.dx_supply = @ - dx]
           U == UpdateInterestRate(R, e)
<1>1. removed \in Int
  <2>1. e.cfg.unit \in Nat \ {0}
    BY DEF Environment, PoolConfig
  <2> QED BY <2>1, RedemptionValueType, FloorToBounds DEF RemovedAmount
<1>2. RemoveLiquidity(P, e, dx) = [U EXCEPT !.vault = U.vault - removed]
  BY DEF RemoveLiquidity
<1>3. /\ Sound(Q, e) /\ SameBooks(Q, P)
      /\ Settled(Q, P, e) /\ SameRates(Q, P) /\ SameStable(Q, P)
  BY UpdateIndexSound, UpdateIndexSettles
<1> HIDE DEF removed, Q
<1>4. Q \in Pool /\ Q.dx_supply - dx \in Nat
  BY <1>3 DEF Sound, SameBooks, Pool
<1>5. /\ R \in Pool /\ SameIndices(R, Q) /\ SameRates(R, Q) /\ SameStable(R, Q)
      /\ R.variable_loan_share_quantity = Q.variable_loan_share_quantity
      /\ R.insurance_balance = Q.insurance_balance
  BY <1>4 DEF Pool, SameIndices, SameRates, SameStable
<1> HIDE DEF R
<1>6. /\ Sound(R, e) /\ Booked(R) /\ SameRates(R, P) /\ Settled(R, P, e) /\ SameStable(R, P)
  BY <1>3, <1>5 DEF Sound, SameBooks, SameIndices, SameRates, SameStable, Settled, Booked
<1>7. Insured(U, P, e) /\ U \in Pool
  BY <1>5, <1>6, MethodInsured, UpdateInterestRateSound DEF Q, Sound
<1> HIDE DEF U
<1>8. U.vault - removed \in Int
  BY <1>1, <1>7 DEF Pool
<1> QED BY <1>2, <1>7, <1>8, VaultInsured

LEMMA BorrowVariableInsured ==
  ASSUME NEW e \in Environment, Prudent(e), NEW P, Sound(P, e), Growing(P), Booked(P),
         P.stable_loan_amount = 0, Matched(P),
         NEW amount \in Nat, CanBorrowVariable(P, e, amount), SharesFor(P, e, amount) \in Nat
  PROVE  Insured(PoolBorrowVariable(P, e, amount), P, e)
<1> DEFINE shares == SharesFor(P, e, amount)
           lent == FloorTo(amount, e.cfg.unit)
           Q == UpdateIndex(P, e)
           R == [Q EXCEPT !.variable_loan_share_quantity = @ + shares]
           U == UpdateInterestRate(R, e)
<1>1. PoolBorrowVariable(P, e, amount) = [U EXCEPT !.vault = U.vault - lent]
  BY DEF PoolBorrowVariable
<1>2. shares \in Nat /\ lent \in Int
  <2>1. e.cfg.unit \in Nat \ {0} /\ amount \in Int
    BY DEF Environment, PoolConfig
  <2> QED BY <2>1, FloorToBounds
<1>3. /\ Sound(Q, e) /\ SameBooks(Q, P)
      /\ Settled(Q, P, e) /\ SameRates(Q, P) /\ SameStable(Q, P)
  BY UpdateIndexSound, UpdateIndexSettles
<1> HIDE DEF shares, lent, Q
<1>4. Q \in Pool /\ Q.variable_loan_share_quantity + shares \in Int
  BY <1>2, <1>3 DEF Sound, Pool
<1>5. /\ R \in Pool /\ SameIndices(R, Q) /\ SameRates(R, Q) /\ SameStable(R, Q)
      /\ R.variable_loan_share_quantity = Q.variable_loan_share_quantity + shares
      /\ R.insurance_balance = Q.insurance_balance
  BY <1>4 DEF Pool, SameIndices, SameRates, SameStable
<1> HIDE DEF R
<1>6. R.variable_loan_share_quantity >= 0
  <2>1. Q.variable_loan_share_quantity >= 0 /\ Q.variable_loan_share_quantity \in Int
    BY <1>3 DEF Booked, SameBooks, Sound, Pool
  <2> QED BY <1>2, <1>5, <2>1
<1>7. /\ Sound(R, e) /\ Booked(R) /\ SameRates(R, P) /\ Settled(R, P, e) /\ SameStable(R, P)
  BY <1>3, <1>5, <1>6 DEF Sound, SameBooks, SameIndices, SameRates, SameStable, Settled, Booked
<1>8. Insured(U, P, e) /\ U \in Pool
  BY <1>5, <1>7, MethodInsured, UpdateInterestRateSound DEF Q, Sound
<1> HIDE DEF U
<1>9. U.vault - lent \in Int
  BY <1>2, <1>8 DEF Pool
<1> QED BY <1>1, <1>8, <1>9, VaultInsured

LEMMA RepayVariableInsured ==
  ASSUME NEW e \in Environment, Prudent(e), NEW P, Sound(P, e), Growing(P), Booked(P),
         P.stable_loan_amount = 0, Matched(P),
         NEW bucket \in Int, NEW shares \in Int, NEW limit \in Int,
         CanRepayVariable(P, e, bucket, shares, limit),
         PoolRepayVariable(P, e, bucket, shares, limit).variable_loan_share_quantity >= 0
  PROVE  Insured(PoolRepayVariable(P, e, bucket, shares, limit), P, e)
<1> DEFINE paid == VariablePayment(P, e, bucket, shares, limit)
           gone == SharesRepaid(P, e, paid, shares)
           Q == UpdateIndex(P, e)
           R == [Q EXCEPT !.variable_loan_share_quantity = @ - gone, !.vault = @ + paid]
           S == PoolRepayVariable(P, e, bucket, shares, limit)
<1>1. paid \in Nat /\ gone \in Int
      /\ S.variable_loan_share_quantity = P.variable_loan_share_quantity - gone
  BY RepayVariableSound
<1>2. S = UpdateInterestRate(R, e)
  BY DEF PoolRepayVariable
<1>3. /\ Sound(Q, e) /\ SameBooks(Q, P)
      /\ Settled(Q, P, e) /\ SameRates(Q, P) /\ SameStable(Q, P)
  BY UpdateIndexSound, UpdateIndexSettles
<1>4. S.variable_loan_share_quantity >= 0
  OBVIOUS
<1> HIDE DEF gone, Q, S, paid
<1>5. Q \in Pool /\ Q.vault + paid \in Nat /\ Q.variable_loan_share_quantity - gone \in Int
  BY <1>1, <1>3 DEF Sound, Pool
<1>6. /\ R \in Pool /\ SameIndices(R, Q) /\ SameRates(R, Q) /\ SameStable(R, Q)
      /\ R.variable_loan_share_quantity = Q.variable_loan_share_quantity - gone
      /\ R.insurance_balance = Q.insurance_balance
  BY <1>5 DEF Pool, SameIndices, SameRates, SameStable
<1> HIDE DEF R
<1>7. R.variable_loan_share_quantity >= 0
  BY <1>1, <1>3, <1>4, <1>6 DEF SameBooks
<1>8. /\ Sound(R, e) /\ Booked(R) /\ SameRates(R, P) /\ Settled(R, P, e) /\ SameStable(R, P)
  BY <1>3, <1>6, <1>7 DEF Sound, SameBooks, SameIndices, SameRates, SameStable, Settled, Booked
<1>9. Insured(S, P, e)
  BY <1>2, <1>6, <1>8, MethodInsured DEF Q
<1> QED BY <1>9 DEF S

LEMMA BorrowFlashloanInsured ==
  ASSUME NEW e \in Environment, NEW P, Sound(P, e), Growing(P), Booked(P), Matched(P),
         NEW amount \in Nat
  PROVE  Insured(PoolBorrowFlashloan(P, e, amount), P, e)
<1>1. e.cfg.unit \in Nat \ {0} /\ P \in Pool /\ P.vault \in Nat /\ amount \in Int
  BY DEF Environment, PoolConfig, Sound, Pool
<1>2. FloorTo(amount, e.cfg.unit) \in Int
  BY <1>1, FloorToBounds
<1>3. P.vault - FloorTo(amount, e.cfg.unit) \in Int
  BY <1>1, <1>2
<1>4. Insured(P, P, e)
  BY SelfInsured
<1> QED BY <1>1, <1>3, <1>4, VaultInsured DEF PoolBorrowFlashloan

\* The admin takes tokens; the balance that says how many there are stays.
LEMMA WithdrawInsuranceInsured ==
  ASSUME NEW e \in Environment, NEW P, Sound(P, e), Growing(P), Booked(P), Matched(P),
         NEW amount \in Nat
  PROVE  Insured(PoolWithdrawInsurance(P, e, amount), P, e)
<1>1. e.cfg.unit \in Nat \ {0} /\ P \in Pool /\ P.vault \in Nat /\ amount \in Int
  BY DEF Environment, PoolConfig, Sound, Pool
<1>2. FloorTo(amount, e.cfg.unit) \in Int
  BY <1>1, FloorToBounds
<1>3. P.vault - FloorTo(amount, e.cfg.unit) \in Int
  BY <1>1, <1>2
<1>4. Insured(P, P, e)
  BY SelfInsured
<1> QED BY <1>1, <1>3, <1>4, VaultInsured DEF PoolWithdrawInsurance

LEMMA RepayFlashloanInsured ==
  ASSUME NEW e \in Environment, Prudent(e), NEW P, Sound(P, e), Growing(P), Booked(P),
         P.stable_loan_amount = 0, Matched(P),
         NEW amount \in Nat, NEW fee \in Nat, CanRepayFlashloan(P, e, fee)
  PROVE  Insured(PoolRepayFlashloan(P, e, amount, fee), P, e)
<1> DEFINE due       == FlashloanDue(e, amount, fee)
           V         == [P EXCEPT !.vault = @ + due]
           Q         == UpdateIndex(V, e)
           supply    == DMul(Q.dx_supply, Q.deposit_index)
           insurance == DMul(fee, e.cfg.insurance_ratio)
           gain      == DDiv(fee - insurance, supply)
           R         == [Q EXCEPT !.insurance_balance = @ + insurance,
                                  !.deposit_index = @ + gain]
           S         == PoolRepayFlashloan(P, e, amount, fee)
<1>1. due \in Nat
  <2>1. e.cfg.unit \in Nat \ {0} /\ amount + fee \in Int /\ amount + fee >= 0
    BY DEF Environment, PoolConfig
  <2>2. due \in Int /\ amount + fee <= due
    BY <2>1, CeilToBounds DEF FlashloanDue
  <2> QED BY <2>1, <2>2
<1>2. S = IF fee > 0 THEN UpdateInterestRate(R, e) ELSE V
  BY Zenon DEF PoolRepayFlashloan
<1>3. insurance \in Nat /\ fee - insurance \in Nat
  <2>1. e.cfg.insurance_ratio \in Nat /\ e.cfg.insurance_ratio <= ONE /\ ONE \in Nat
    BY DecimalsAssumption DEF Environment, PoolConfig, Prudent
  <2>2. DMul(e.cfg.insurance_ratio, fee) <= DMul(ONE, fee)
    BY <2>1, DMulMonotone
  <2>3. DMul(ONE, fee) = DMul(fee, ONE) /\ DMul(fee, ONE) = fee
    BY <2>1, DMulCommutes, DMulOne
  <2>4. DMul(e.cfg.insurance_ratio, fee) = insurance
    BY <2>1, DMulCommutes
  <2>5. insurance \in Nat
    BY <2>1, DMulNat
  <2> HIDE DEF insurance
  <2> QED BY <2>2, <2>3, <2>4, <2>5
<1> HIDE DEF due, insurance, S
<1>4. P \in Pool /\ P.vault + due \in Nat /\ P.vault + due \in Int
  BY <1>1 DEF Sound, Pool
<1>5. /\ Quiet(V, P) /\ V.dx_supply = P.dx_supply /\ Sound(V, e) /\ Insured(V, P, e)
      /\ V.insurance_balance = P.insurance_balance /\ Matched(V)
  <2>1. Quiet(V, P)
    BY <1>4, VaultQuiet
  <2>2. V.dx_supply = P.dx_supply /\ Sound(V, e) /\ V.insurance_balance = P.insurance_balance
    BY <1>4 DEF Sound, Pool
  <2>3. Insured(V, P, e) /\ Matched(V)
    BY <1>4, SelfInsured, VaultInsured
  <2> QED BY <2>1, <2>2, <2>3
<1>6. /\ Growing(V) /\ Booked(V) /\ V.stable_loan_amount = 0
      /\ SupplyIndex(V, e) = SupplyIndex(P, e) /\ LoanIndex(V, e) = LoanIndex(P, e)
  BY <1>5, QuietKeeps DEF Quiet, SameStable
<1>7. DigitsLost(V, e) = DigitsLost(P, e)
  <2> HIDE DEF V
  <2> QED BY <1>5 DEF DigitsLost, Quiet, SameIndices, SameRates
<1> HIDE DEF V
<1>8. /\ Sound(Q, e) /\ SameBooks(Q, V)
      /\ Settled(Q, V, e) /\ SameRates(Q, V) /\ SameStable(Q, V)
  BY <1>5, UpdateIndexSound, UpdateIndexSettles
<1>9. /\ SupplyIndex(P, e) \in Nat /\ LoanIndex(P, e) \in Nat
      /\ SupplyIndex(P, e) >= ONE /\ LoanIndex(P, e) >= ONE
  BY IndicesGrow
<1> HIDE DEF Q
<1>10. CASE fee > 0
  <2>1. /\ Q \in Pool /\ Q.dx_supply \in Nat
        /\ Q.deposit_index \in Nat /\ Q.insurance_balance \in Int
    BY <1>6, <1>8, <1>9 DEF Sound, Pool, Settled
  <2>2. supply \in Nat \ {0}
    <3>1. supply \in Nat
      BY <2>1, DMulNat
    <3>2. supply = DMul(P.dx_supply, SupplyIndex(P, e))
      BY <1>5, <1>6, <1>8 DEF SameBooks, Settled
    <3> QED BY <3>1, <3>2, <1>10 DEF CanRepayFlashloan
  <2> HIDE DEF supply
  <2>3. gain \in Nat
    BY <1>3, <2>2, DDivBounds
  <2> HIDE DEF gain
  <2>4. /\ R \in Pool /\ R.last_update = Q.last_update /\ R.loan_index = Q.loan_index
        /\ R.deposit_index = Q.deposit_index + gain
        /\ SameRates(R, Q) /\ SameStable(R, Q)
        /\ R.variable_loan_share_quantity = Q.variable_loan_share_quantity
        /\ R.insurance_balance = Q.insurance_balance + insurance
    <3>1. Q.insurance_balance + insurance \in Int /\ Q.deposit_index + gain \in Int
      BY <1>3, <2>1, <2>3
    <3> QED BY <2>1, <3>1 DEF Pool, SameRates, SameStable
  <2> HIDE DEF R
  <2>5. /\ R.last_update = e.now /\ R.loan_index = LoanIndex(P, e)
        /\ R.deposit_index = SupplyIndex(P, e) + gain
        /\ R.insurance_balance >= Q.insurance_balance
    <3>1. Q.insurance_balance + insurance >= Q.insurance_balance
      BY <1>3, <2>1
    <3> QED BY <1>6, <1>8, <2>4, <3>1 DEF Settled
  <2>6. Sound(R, e) /\ Booked(R) /\ R.stable_loan_amount = 0
    BY <1>6, <1>8, <2>4 DEF Sound, Booked, SameBooks, SameStable
  <2>7. Growing(R)
    <3>1. R.deposit_index >= ONE /\ R.loan_index >= ONE
      BY <1>9, <2>3, <2>5, DecimalsAssumption
    <3> QED BY <1>6, <1>8, <2>4, <3>1 DEF Growing, SameRates
  <2>8. S = UpdateInterestRate(R, e)
    BY <1>2, <1>10
  <2>9. Insured(UpdateInterestRate(R, e), V, e)
    BY <1>5, <1>6, <2>5, <2>6, <2>7, RatesInsured DEF Q
  <2> QED BY <1>5, <1>7, <2>8, <2>9 DEF Insured, S
<1>11. CASE ~(fee > 0)
  BY <1>2, <1>5, <1>11 DEF S
<1> QED BY <1>10, <1>11
=============================================================================
