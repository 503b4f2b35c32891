---------------------------- MODULE StakingProofs ----------------------------
(***************************************************************************)
(* Proofs about the staking pool, for any validators, stakes, rewards and  *)
(* amounts: units are bought and redeemed for what they are worth, and     *)
(* neither costs the others more than the last digit of a redemption.      *)
(*                                                                         *)
(* The invariant says that the pool has no stake units of a validator that *)
(* the validator does not know of, and that a validator has stake units if *)
(* and only if something is staked with it: a stake joining units that are *)
(* worth nothing would be shared with them.                                *)
(***************************************************************************)
EXTENDS StakingProperties, LendResourcePoolProofs

StakesKnown ==
  /\ DOMAIN lsu_map \subseteq Validators
  /\ \A v \in DOMAIN lsu_map : lsu_map[v] \in Nat /\ lsu_map[v] <= validator[v].units

StakingInv ==
  /\ validator \in [Validators -> Validator]
  /\ \A v \in Validators : validator[v].units = 0 <=> validator[v].staked = 0
  /\ StakesKnown
  /\ dse_supply \in Nat /\ ops \in Nat

-----------------------------------------------------------------------------
(* What stake units are worth *)

LEMMA ValueBounds ==
  ASSUME NEW x \in Validator, NEW n \in Nat
  PROVE  /\ ValueOf(x, n) \in Nat
         /\ ValueOf(x, n) * x.units <= n * x.staked
         /\ x.units > 0 => n * x.staked < ValueOf(x, n) * x.units + x.units
         /\ x.units = 0 => ValueOf(x, n) = 0
<1> DEFINE s == x.staked   u == x.units   p == n * s   w == ValueOf(x, n)
<1>1. s \in Nat /\ u \in Nat
  BY DEF Validator
<1>2. p \in Nat
  BY <1>1
<1> HIDE DEF s, u, p
<1>3. w = IF u = 0 THEN 0 ELSE p \div u
  BY DEF ValueOf, s, u, p
<1> HIDE DEF w
<1>4. CASE u = 0
  <2>1. w * u = 0
    BY <1>3, <1>4
  <2> QED BY <1>2, <1>3, <1>4, <2>1 DEF w, u, s, p
<1>5. CASE u # 0
  <2>1. w = p \div u /\ u \in Nat \ {0}
    BY <1>1, <1>3, <1>5
  <2>2. w \in Nat /\ w * u <= p /\ p < w * u + u
    BY <1>2, <2>1
  <2> QED BY <1>5, <2>2 DEF w, u, s, p
<1> QED BY <1>4, <1>5

LEMMA UnitsBounds ==
  ASSUME NEW x \in Validator, x.units = 0 <=> x.staked = 0, NEW a \in Nat
  PROVE  LET l == UnitsFor(x, a)
         IN  /\ l \in Nat
             /\ l * x.staked <= a * x.units
             /\ x.staked > 0 => a * x.units < l * x.staked + x.staked
             /\ x.staked = 0 => l = a
<1> DEFINE s == x.staked   u == x.units   p == a * u   l == UnitsFor(x, a)
<1>1. s \in Nat /\ u \in Nat
  BY DEF Validator
<1>2. p \in Nat
  BY <1>1
<1> HIDE DEF s, u, p
<1>3. l = IF s = 0 THEN a ELSE p \div s
  BY DEF UnitsFor, s, u, p
<1> HIDE DEF l
<1>4. CASE s = 0
  <2>1. u = 0
    BY <1>4 DEF s, u
  <2>2. l * s = 0 /\ p = 0
    BY <1>3, <1>4, <2>1 DEF p
  <2> QED BY <1>3, <1>4, <2>2 DEF l, u, s, p
<1>5. CASE s # 0
  <2>1. l = p \div s /\ s \in Nat \ {0}
    BY <1>1, <1>3, <1>5
  <2>2. l \in Nat /\ l * s <= p /\ p < l * s + s
    BY <1>2, <2>1
  <2> QED BY <1>5, <2>2 DEF l, u, s, p
<1> QED BY <1>4, <1>5

\* Both sides of a comparison divided by the same factor.
LEMMA CancelFactor ==
  ASSUME NEW a \in Int, NEW b \in Int, NEW c \in Nat \ {0}
  PROVE  /\ a * c <= b * c => a <= b
         /\ a * c < b * c => a < b
<1>1. a * c \in Int /\ b * c \in Int
  OBVIOUS
<1>2. ASSUME a * c <= b * c PROVE a <= b
  <2>1. a * c < b * c + c
    BY <1>1, <1>2
  <2> QED BY <2>1, TimesCancel
<1>3. ASSUME a * c < b * c PROVE a < b
  <2> SUFFICES ASSUME b <= a PROVE FALSE
    OBVIOUS
  <2>1. b * c <= a * c
    BY TimesMonotone
  <2> QED BY <1>1, <1>3, <2>1
<1> QED BY <1>2, <1>3

\* An amount that stake units cover is no more than they are worth.
LEMMA ValueAtLeast ==
  ASSUME NEW x \in Validator, NEW n \in Nat, NEW w \in Int, x.units > 0,
         w * x.units <= n * x.staked
  PROVE  w <= ValueOf(x, n)
<1> DEFINE u == x.units   p == n * x.staked   q == ValueOf(x, n)
<1>1. u \in Nat \ {0} /\ p \in Nat /\ x.staked \in Nat
  BY DEF Validator
<1>2. q \in Nat /\ p < q * u + u
  BY ValueBounds
<1> HIDE DEF q, p
<1>3. w * u < q * u + u
  BY <1>1, <1>2 DEF p
<1>4. w <= q
  BY <1>1, <1>2, <1>3, TimesCancel
<1> QED BY <1>4 DEF q

\* Two amounts of stake units are worth no less together.
LEMMA ValueAdds ==
  ASSUME NEW x \in Validator, NEW m \in Nat, NEW n \in Nat
  PROVE  ValueOf(x, m) + ValueOf(x, n) <= ValueOf(x, m + n)
<1> DEFINE u == x.units   s == x.staked   v == ValueOf(x, m)   w == ValueOf(x, n)
<1>1. u \in Nat /\ s \in Nat
  BY DEF Validator
<1>2. /\ v \in Nat /\ w \in Nat /\ v * u <= m * s /\ w * u <= n * s
      /\ u = 0 => (v = 0 /\ w = 0)
  BY ValueBounds
<1>3. m + n \in Nat /\ ValueOf(x, m + n) \in Nat
  <2>1. m + n \in Nat
    OBVIOUS
  <2> QED BY <2>1, ValueBounds
<1>4. CASE u = 0
  BY <1>2, <1>3, <1>4
<1>5. CASE u > 0
  <2> HIDE DEF u, s, v, w
  <2>1. /\ v * u \in Int /\ w * u \in Int /\ m * s \in Int /\ n * s \in Int
        /\ (v + w) * u = v * u + w * u /\ (m + n) * s = m * s + n * s
    BY <1>1, <1>2
  <2>2. (v + w) * u <= (m + n) * s /\ v + w \in Int
    BY <1>2, <2>1
  <2>3. v + w <= ValueOf(x, m + n)
    BY <1>3, <1>5, <2>2, ValueAtLeast DEF u, s
  <2> QED BY <2>3 DEF v, w
<1> QED BY <1>1, <1>4, <1>5

-----------------------------------------------------------------------------
(* Staking, unstaking and rewards *)

Known(x) == x \in Validator /\ (x.units = 0 <=> x.staked = 0)

\* A stake is worth what was staked to a smallest part of the stake units, never
\* more, and takes nothing from other stake units.
LEMMA StakedWorth ==
  ASSUME NEW x, Known(x), NEW a \in Nat, UnitsFor(x, a) # 0
  PROVE  LET l == UnitsFor(x, a)
             y == Staked(x, a)
         IN  /\ Known(y) /\ l \in Nat \ {0} /\ y.units = x.units + l /\ y.staked = x.staked + a
             /\ a - ValueOf(y, l) \in 0 .. (ValueOf(x, 1) + 1)
             /\ \A n \in Nat : ValueOf(x, n) <= ValueOf(y, n)
<1> DEFINE u == x.units   s == x.staked   l == UnitsFor(x, a)   y == Staked(x, a)
           w == ValueOf(y, l)   q == ValueOf(x, 1)   t == u + l   k == s + a
<1>1. u \in Nat /\ s \in Nat /\ (u = 0 <=> s = 0) /\ x \in Validator
  BY DEF Validator, Known
<1>2. /\ l \in Nat \ {0} /\ l * s <= a * u
      /\ s > 0 => a * u < l * s + s
      /\ s = 0 => l = a
  BY <1>1, UnitsBounds
<1>3. y.units = t /\ y.staked = k /\ y \in Validator
  BY <1>1, <1>2 DEF Staked, Validator
<1>4. w \in Nat /\ w * t <= l * k /\ l * k < w * t + t
  <2>1. /\ w \in Nat /\ w * y.units <= l * y.staked
        /\ y.units > 0 => l * y.staked < w * y.units + y.units
    BY <1>2, <1>3, ValueBounds
  <2>2. t > 0
    BY <1>1, <1>2
  <2> QED BY <1>3, <2>1, <2>2
<1>5. q \in Nat /\ (u > 0 => s < q * u + u) /\ (u = 0 => q = 0)
  <2>1. /\ q \in Nat /\ (u > 0 => 1 * s < q * u + u) /\ (u = 0 => q = 0)
    BY <1>1, ValueBounds, 1 \in Nat
  <2>2. 1 * s = s
    BY <1>1
  <2> QED BY <2>1, <2>2
<1> HIDE DEF u, s, l, y, w, q
<1>6. t \in Nat \ {0} /\ k \in Nat
  BY <1>1, <1>2
<1>7. /\ l * k = l * s + l * a /\ a * t = a * u + l * a
      /\ l * s \in Nat /\ l * a \in Nat /\ a * u \in Nat /\ a * t \in Nat /\ w * t \in Nat
  BY <1>1, <1>2, <1>4
<1>8. Known(y)
  BY <1>1, <1>2, <1>3 DEF Known
<1>9. w <= a
  <2>1. w * t <= a * t
    BY <1>2, <1>4, <1>7
  <2> QED BY <1>4, <1>6, <2>1, CancelFactor
<1>10. a - w <= q + 1
  <2>1. a * t - w * t < (a * u - l * s) + t
    <3> HIDE DEF t, k
    <3> QED BY <1>1, <1>2, <1>4, <1>6, <1>7
  <2>2. (a - w) * t = a * t - w * t /\ a - w \in Int
    <3> HIDE DEF t
    <3> QED BY <1>4, <1>6
  <2>3. CASE u = 0
    <3>1. a * u = 0 /\ l * s = 0
      BY <1>1, <1>2, <2>3
    <3>2. (a - w) * t < 0 * t + t
      <4> HIDE DEF t
      <4> QED BY <1>6, <2>1, <2>2, <3>1
    <3>3. a - w <= 0
      BY <1>6, <2>2, <3>2, TimesCancel
    <3> QED BY <1>5, <2>2, <3>3
  <2>4. CASE u > 0
    <3>1. a * u - l * s < q * u + u
      BY <1>1, <1>2, <1>5, <1>7, <2>4
    <3>2. /\ q * u + u = (q + 1) * u /\ (q + 1) * t = (q + 1) * u + (q + 1) * l
          /\ (q + 1) * u \in Nat /\ (q + 1) * l \in Nat
      BY <1>1, <1>2, <1>5
    <3>3. (a - w) * t < (q + 1) * t + t
      <4>1. a * u - l * s <= (q + 1) * t
        BY <1>7, <3>1, <3>2
      <4>2. (q + 1) * t \in Nat
        BY <1>5, <1>6
      <4> HIDE DEF t
      <4> QED BY <1>6, <1>7, <2>1, <2>2, <4>1, <4>2
    <3> QED BY <1>5, <1>6, <2>2, <3>3, TimesCancel
  <2> QED BY <1>1, <2>3, <2>4
<1>11. ASSUME NEW n \in Nat PROVE ValueOf(x, n) <= ValueOf(y, n)
  <2> DEFINE v == ValueOf(x, n)
  <2>1. v \in Nat /\ v * u <= n * s /\ (u = 0 => v = 0) /\ ValueOf(y, n) \in Nat
    BY <1>1, <1>3, ValueBounds DEF u, s
  <2> HIDE DEF v
  <2>2. CASE u = 0
    BY <2>1, <2>2 DEF v
  <2>3. CASE u > 0
    <3>1. v * l <= n * a
      <4>1. (v * u) * l <= (n * s) * l
        BY <1>1, <1>2, <2>1, TimesMonotone
      <4>2. (l * s) * n <= (a * u) * n
        BY <1>2, <1>7, TimesMonotone
      <4>3. /\ (v * u) * l = (v * l) * u /\ (n * s) * l = (l * s) * n
            /\ (a * u) * n = (n * a) * u
        BY <1>1, <1>2, <2>1
      <4>4. (v * l) * u <= (n * a) * u /\ v * l \in Int /\ n * a \in Int
        <5>1. v * l \in Int /\ n * a \in Int
          BY <1>2, <2>1
        <5>2. (v * l) * u \in Int /\ (l * s) * n \in Int /\ (n * a) * u \in Int
          BY <1>1, <1>7, <5>1
        <5> QED BY <4>1, <4>2, <4>3, <5>1, <5>2
      <4> QED BY <1>1, <2>3, <4>4, CancelFactor
    <3>2. v * t = v * u + v * l /\ n * k = n * s + n * a
      BY <1>1, <1>2, <2>1
    <3>3. v * t <= n * k
      <4>1. v * u \in Int /\ v * l \in Int /\ n * s \in Int /\ n * a \in Int
        BY <1>1, <1>2, <2>1
      <4> HIDE DEF t, k
      <4> QED BY <2>1, <3>1, <3>2, <4>1
    <3>4. v <= ValueOf(y, n)
      BY <1>3, <1>6, <2>1, <3>3, ValueAtLeast
    <3> QED BY <3>4 DEF v
  <2> QED BY <1>1, <2>2, <2>3
<1> QED BY <1>2, <1>3, <1>4, <1>5, <1>8, <1>9, <1>10, <1>11 DEF u, s, l, y, w, q

\* A reward makes no stake units worth less.
LEMMA RewardedWorth ==
  ASSUME NEW x, Known(x), NEW g \in Nat, x.units = 0 => g = 0
  PROVE  LET y == [x EXCEPT !.staked = @ + g]
         IN  Known(y) /\ \A n \in Nat : ValueOf(x, n) <= ValueOf(y, n)
<1> DEFINE u == x.units   s == x.staked   y == [x EXCEPT !.staked = @ + g]
<1>1. u \in Nat /\ s \in Nat /\ (u = 0 <=> s = 0) /\ x \in Validator
  BY DEF Validator, Known
<1>2. y.units = u /\ y.staked = s + g /\ y \in Validator
  BY <1>1 DEF Validator
<1>3. Known(y)
  BY <1>1, <1>2 DEF Known
<1>4. ASSUME NEW n \in Nat PROVE ValueOf(x, n) <= ValueOf(y, n)
  <2> DEFINE v == ValueOf(x, n)
  <2>1. v \in Nat /\ v * u <= n * s /\ (u = 0 => v = 0) /\ ValueOf(y, n) \in Nat
    BY <1>1, <1>2, ValueBounds
  <2> HIDE DEF v, u, s, y
  <2>2. CASE u = 0
    BY <2>1, <2>2 DEF v
  <2>3. CASE u > 0
    <3>1. n * (s + g) = n * s + n * g /\ n * g \in Nat /\ n * s \in Nat /\ v * u \in Nat
      BY <1>1, <2>1
    <3>2. v * u <= n * (s + g)
      BY <2>1, <3>1
    <3>3. v <= ValueOf(y, n)
      BY <1>2, <2>1, <2>3, <3>2, ValueAtLeast
    <3> QED BY <3>3 DEF v
  <2> QED BY <1>1, <2>2, <2>3
<1> QED BY <1>3, <1>4 DEF y

\* Unstaking pays no more than is staked, and costs the stake units that stay no
\* more than its last digit.
LEMMA UnstakedWorth ==
  ASSUME NEW x, Known(x), NEW t \in Nat, NEW h \in Nat, t <= h, h <= x.units
  PROVE  LET y == Unstaked(x, t)
         IN  /\ Known(y) /\ y.units = x.units - t
             /\ ValueOf(x, t) \in Nat /\ y.staked = x.staked - ValueOf(x, t)
             /\ ValueOf(x, h) - ValueOf(x, t) - 1 <= ValueOf(y, h - t)
             /\ \A n \in Nat : n <= y.units => ValueOf(y, n) \in Nat
<1> DEFINE u == x.units   s == x.staked   y == Unstaked(x, t)
           w == ValueOf(x, t)   v == ValueOf(x, h)   d == u - t   k == s - w
<1>1. u \in Nat /\ s \in Nat /\ (u = 0 <=> s = 0) /\ x \in Validator
  BY DEF Validator, Known
<1>2. /\ w \in Nat /\ w * u <= t * s
      /\ u > 0 => t * s < w * u + u
      /\ u = 0 => w = 0
  BY <1>1, ValueBounds
<1>3. /\ v \in Nat /\ v * u <= h * s
      /\ u = 0 => v = 0
  BY <1>1, ValueBounds
<1>4. d \in Nat /\ h - t \in Nat /\ t <= u
  BY <1>1
<1>5. y.units = d /\ y.staked = k
  BY DEF Unstaked
<1> HIDE DEF w, v
<1>6. w <= s /\ (d = 0 => w = s) /\ (w = s => d = 0)
  <2>1. CASE u = 0
    BY <1>1, <1>2, <1>4, <2>1
  <2>2. CASE u > 0
    <3>1. t * s <= u * s /\ u * s = s * u /\ t * s \in Int /\ w * u \in Int /\ s * u \in Int
      BY <1>1, <1>2, <1>4, TimesMonotone
    <3>2. w <= s
      <4>1. w * u <= s * u
        BY <1>2, <3>1
      <4> HIDE DEF u, s
      <4> QED BY <1>1, <1>2, <2>2, <4>1, CancelFactor
    <3>3. ASSUME d = 0 PROVE s <= w
      <4>1. t = u
        BY <1>1, <1>4, <3>3
      <4>2. s * u < w * u + u
        BY <1>2, <2>2, <3>1, <4>1
      <4> HIDE DEF u, s
      <4> QED BY <1>1, <1>2, <2>2, <4>2, TimesCancel
    <3>4. ASSUME w = s PROVE d = 0
      <4>1. u * s <= t * s
        BY <1>2, <3>1, <3>4
      <4>2. s \in Nat \ {0}
        BY <1>1, <2>2
      <4>3. u <= t
        <5> HIDE DEF u, s
        <5> QED BY <1>1, <4>1, <4>2, CancelFactor
      <4> QED BY <1>1, <1>4, <4>3
    <3> QED BY <1>1, <1>2, <3>2, <3>3, <3>4
  <2> QED BY <1>1, <2>1, <2>2
<1>7. k \in Nat /\ (d = 0 <=> k = 0)
  BY <1>1, <1>2, <1>6
<1>8. y \in Validator /\ Known(y)
  <2>1. y = [units |-> d, staked |-> k]
    BY DEF Unstaked, w
  <2>2. y \in Validator
    BY <1>4, <1>7, <2>1 DEF Validator
  <2> HIDE DEF d, k, y
  <2> QED BY <1>5, <1>7, <2>2 DEF Known
<1>9. \A n \in Nat : ValueOf(y, n) \in Nat
  BY <1>8, ValueBounds
<1>10. v - w - 1 <= ValueOf(y, h - t)
  <2>1. CASE d = 0
    <3>1. h = u
      BY <1>1, <1>4, <2>1
    <3>2. v <= s
      <4>1. CASE u = 0
        BY <1>1, <1>3, <4>1
      <4>2. CASE u > 0
        <5>1. v * u <= s * u
          BY <1>1, <1>3, <3>1
        <5> HIDE DEF u, s
        <5> QED BY <1>1, <1>3, <4>2, <5>1, CancelFactor
      <4> QED BY <1>1, <4>1, <4>2
    <3>3. ValueOf(y, h - t) \in Nat
      BY <1>4, <1>9
    <3> QED BY <1>2, <1>3, <1>6, <2>1, <3>2, <3>3, <1>1
  <2>2. CASE d > 0
    <3> DEFINE r == v - w - 1   c == h - t
    <3>1. u \in Nat \ {0} /\ r \in Int /\ c \in Nat
      BY <1>1, <1>2, <1>3, <1>4, <2>2
    <3>2. s * d <= k * u
      <4>1. s * d = s * u - t * s /\ k * u = s * u - w * u
        BY <1>1, <1>2
      <4>2. s * u \in Int /\ t * s \in Int /\ w * u \in Int
        BY <1>1, <1>2
      <4> QED BY <1>2, <4>1, <4>2
    <3>3. r * u <= c * s
      <4>1. r * u = v * u - w * u - u /\ c * s = h * s - t * s
        BY <1>1, <1>2, <1>3
      <4>2. v * u \in Int /\ w * u \in Int /\ h * s \in Int /\ t * s \in Int
        BY <1>1, <1>2, <1>3
      <4>3. u > 0
        BY <3>1
      <4> HIDE DEF r, c
      <4> QED BY <1>1, <1>2, <1>3, <4>1, <4>2, <4>3
    <3>4. (r * d) * u <= (c * k) * u
      <4>1. (r * u) * d <= (c * s) * d
        <5>1. r * u \in Int /\ c * s \in Int
          BY <1>1, <3>1
        <5> QED BY <1>4, <3>3, <5>1, TimesMonotone
      <4>2. (s * d) * c <= (k * u) * c
        <5>1. s * d \in Int /\ k * u \in Int
          BY <1>1, <1>4, <1>7
        <5> QED BY <3>1, <3>2, <5>1, TimesMonotone
      <4> HIDE DEF u, s, d, k, r, c
      <4>3. /\ (r * u) * d = (r * d) * u /\ (c * s) * d = (s * d) * c
            /\ (k * u) * c = (c * k) * u
        BY <1>1, <1>4, <1>7, <3>1
      <4>4. (r * d) * u \in Int /\ (s * d) * c \in Int /\ (c * k) * u \in Int
        <5>1. r * d \in Int /\ s * d \in Int /\ c * k \in Int
          BY <1>1, <1>4, <1>7, <3>1
        <5> QED BY <1>1, <3>1, <5>1
      <4> QED BY <4>1, <4>2, <4>3, <4>4
    <3>5. r * d <= c * k
      <4>1. r * d \in Int /\ c * k \in Int
        BY <1>4, <1>7, <3>1
      <4> HIDE DEF u, d, k, r, c
      <4> QED BY <3>1, <3>4, <4>1, CancelFactor
    <3> HIDE DEF r, c, d, k, y
    <3>6. r <= ValueOf(y, c)
      BY <1>5, <1>8, <2>2, <3>1, <3>5, ValueAtLeast
    <3> QED BY <3>6 DEF r, c
  <2> QED BY <1>4, <2>1, <2>2
<1> HIDE DEF d, k, y
<1> QED BY <1>2, <1>5, <1>8, <1>9, <1>10 DEF w, v, d, k, y

-----------------------------------------------------------------------------
(* What units of the pool are exchanged for *)

\* Less than d parts of ONE: no more than the whole ones in them, and one.
LEMMA WholeParts ==
  ASSUME NEW d \in Nat
  PROVE  d \div ONE \in Nat /\ d < (d \div ONE) * ONE + ONE
  BY DecimalsAssumption

\* Units for a value are worth it, to the last digit and a smallest unit.
LEMMA UnitsWorth ==
  ASSUME NEW val \in Nat, NEW p \in Nat \ {0}
  PROVE  /\ DDiv(val, p) \in Nat /\ DDiv(val, p) * p <= val * ONE
         /\ val - DMul(DDiv(val, p), p) \in 0 .. (p \div ONE + 1)
<1> DEFINE m == DDiv(val, p)   b == m * p   o == val * ONE
           e == DMul(m, p)   f == e * ONE   q == p \div ONE   g == q * ONE
<1>1. o \in Nat /\ m \in Nat /\ b \in Nat /\ b <= o /\ o < b + p
  BY DDivBounds
<1> HIDE DEF m
<1>2. e \in Nat /\ f \in Nat /\ f <= b /\ b < f + ONE
  BY <1>1, DMulBounds
<1>3. q \in Nat /\ g \in Nat /\ p < g + ONE /\ ONE \in Nat \ {0}
  BY WholeParts, DecimalsAssumption
<1> HIDE DEF e, q, b
<1>4. e <= val
  <2>1. f <= o
    <3> HIDE DEF f, o
    <3> QED BY <1>1, <1>2
  <2> QED BY <1>2, <1>3, <2>1, CancelFactor
<1>5. val <= e + q + 1
  <2>1. (e + q + 1) * ONE = f + g + ONE
    BY <1>2, <1>3
  <2>2. val * ONE < (e + q + 1) * ONE + ONE
    <3> HIDE DEF f, g
    <3> QED BY <1>1, <1>2, <1>3, <2>1 DEF o
  <2>3. e + q + 1 \in Int
    BY <1>2, <1>3
  <2> QED BY <1>3, <2>2, <2>3, TimesCancel
<1> QED BY <1>1, <1>2, <1>3, <1>4, <1>5 DEF e, q, b, m

\* Stake units for a value are worth it, to a smallest stake unit below and the
\* last digit of the index above.
LEMMA TakenWorth ==
  ASSUME NEW x, Known(x), NEW h \in Nat \ {0}, h <= x.units, NEW r \in Nat,
         DDiv(ValueOf(x, h), h) # 0, DDiv(r, DDiv(ValueOf(x, h), h)) <= h
  PROVE  LET t == DDiv(r, DDiv(ValueOf(x, h), h))
         IN  /\ t \in Nat /\ ValueOf(x, t) \in Nat
             /\ r - ValueOf(x, t) <= ValueOf(x, 1) + 1
             /\ ValueOf(x, t) - r <= t \div ONE + 1
<1> DEFINE u == x.units   s == x.staked   v == ValueOf(x, h)   i == DDiv(v, h)
           t == DDiv(r, i)   w == ValueOf(x, t)   q == ValueOf(x, 1)
<1>1. u \in Nat \ {0} /\ s \in Nat /\ x \in Validator
  BY DEF Validator, Known
<1>2. v \in Nat /\ v * u <= h * s /\ h * s < v * u + u
  BY <1>1, ValueBounds
<1>3. q \in Nat /\ s < q * u + u
  <2>1. q \in Nat /\ 1 * s < q * u + u
    BY <1>1, ValueBounds, 1 \in Nat
  <2>2. 1 * s = s
    BY <1>1
  <2> QED BY <2>1, <2>2
<1> HIDE DEF v
<1>4. i \in Nat \ {0} /\ i * h <= v * ONE /\ v * ONE < i * h + h
  <2>1. i \in Nat /\ i * h <= v * ONE /\ v * ONE < i * h + h
    BY <1>2, DDivBounds
  <2> QED BY <2>1 DEF v
<1> HIDE DEF i
<1>5. t \in Nat /\ t * i <= r * ONE /\ r * ONE < t * i + i
  BY <1>4, DDivBounds
<1>6. t <= h
  BY DEF t, i, v
<1> HIDE DEF t
<1>7. w \in Nat /\ w * u <= t * s /\ t * s < w * u + u
  BY <1>1, <1>5, ValueBounds
<1> HIDE DEF w, q, u, s
<1>8. ONE \in Nat \ {0}
  BY DecimalsAssumption
<1>9. r - w <= q + 1
  <2>1. i * u <= s * ONE
    <3>1. (i * h) * u <= (v * ONE) * u
      <4>1. i * h \in Int /\ v * ONE \in Int
        BY <1>2, <1>4, <1>8
      <4> QED BY <1>1, <1>4, <4>1, TimesMonotone
    <3>2. (v * u) * ONE <= (h * s) * ONE
      <4>1. v * u \in Int /\ h * s \in Int
        BY <1>1, <1>2
      <4> QED BY <1>2, <1>8, <4>1, TimesMonotone
    <3>3. /\ (i * h) * u = (i * u) * h /\ (v * ONE) * u = (v * u) * ONE
          /\ (h * s) * ONE = (s * ONE) * h
      BY <1>1, <1>2, <1>4, <1>8
    <3>4. i * u \in Int /\ s * ONE \in Int /\ v * u \in Int
      BY <1>1, <1>2, <1>4, <1>8
    <3>5. (i * u) * h \in Int /\ (s * ONE) * h \in Int /\ (v * u) * ONE \in Int
      BY <1>8, <3>4
    <3>6. (i * u) * h <= (s * ONE) * h
      BY <3>1, <3>2, <3>3, <3>5
    <3> QED BY <3>4, <3>6, CancelFactor
  <2>2. r * u < (t + 1) * s
    <3>1. (r * ONE) * u < (t * i + i) * u
      <4>1. r * ONE \in Int /\ t * i + i \in Int
        BY <1>4, <1>5, <1>8
      <4>2. r * ONE + 1 <= t * i + i /\ r * ONE + 1 \in Int
        BY <1>5, <4>1
      <4>3. (r * ONE + 1) * u <= (t * i + i) * u
        BY <1>1, <4>1, <4>2, TimesMonotone
      <4>4. (r * ONE + 1) * u = (r * ONE) * u + u /\ (r * ONE) * u \in Int
        BY <1>1, <4>1
      <4>5. (t * i + i) * u \in Int
        BY <1>1, <4>1
      <4> QED BY <1>1, <4>3, <4>4, <4>5
    <3>2. (i * u) * (t + 1) <= (s * ONE) * (t + 1)
      <4>1. i * u \in Int /\ s * ONE \in Int /\ t + 1 \in Nat
        BY <1>1, <1>4, <1>5, <1>8
      <4> QED BY <2>1, <4>1, TimesMonotone
    <3>3. /\ (r * ONE) * u = (r * u) * ONE /\ (t * i + i) * u = (i * u) * (t + 1)
          /\ (s * ONE) * (t + 1) = ((t + 1) * s) * ONE
      BY <1>1, <1>4, <1>5, <1>8
    <3>4. r * u \in Int /\ (t + 1) * s \in Int /\ i * u \in Int
      BY <1>1, <1>4, <1>5
    <3>5. (r * u) * ONE < ((t + 1) * s) * ONE
      <4>1. (r * u) * ONE \in Int /\ ((t + 1) * s) * ONE \in Int /\ (i * u) * (t + 1) \in Int
        BY <1>5, <1>8, <3>4
      <4> QED BY <3>1, <3>2, <3>3, <4>1
    <3> QED BY <1>8, <3>4, <3>5, CancelFactor
  <2>3. r * u < (w + q + 1) * u + u
    <3>1. (t + 1) * s = t * s + s /\ (w + q + 1) * u = w * u + q * u + u
      BY <1>1, <1>3, <1>5, <1>7
    <3>2. t * s \in Int /\ w * u \in Int /\ q * u \in Int /\ r * u \in Int
      BY <1>1, <1>3, <1>5, <1>7
    <3> QED BY <1>1, <1>3, <1>7, <2>2, <3>1, <3>2
  <2>4. w + q + 1 \in Int /\ r \in Int
    BY <1>3, <1>7
  <2>5. r <= w + q + 1
    BY <1>1, <2>3, <2>4, TimesCancel
  <2> QED BY <1>3, <1>7, <2>5
<1>10. w - r <= t \div ONE + 1
  <2> DEFINE z == t \div ONE
  <2>1. z \in Nat /\ t < z * ONE + ONE
    BY <1>5, WholeParts
  <2> HIDE DEF z
  <2>2. w * h <= t * (v + 1)
    <3>1. (w * u) * h <= (t * s) * h
      <4>1. w * u \in Int /\ t * s \in Int
        BY <1>1, <1>5, <1>7
      <4> QED BY <1>7, <4>1, TimesMonotone
    <3>2. (h * s) * t <= (v * u + u) * t
      <4>1. h * s \in Int /\ v * u + u \in Int /\ h * s <= v * u + u
        BY <1>1, <1>2
      <4> QED BY <1>5, <4>1, TimesMonotone
    <3>3. /\ (w * u) * h = (w * h) * u /\ (t * s) * h = (h * s) * t
          /\ (v * u + u) * t = (t * (v + 1)) * u
      BY <1>1, <1>2, <1>5, <1>7
    <3>4. w * h \in Int /\ t * (v + 1) \in Int /\ h * s \in Int
      BY <1>1, <1>2, <1>5, <1>7
    <3>5. (w * h) * u \in Int /\ (t * (v + 1)) * u \in Int /\ (h * s) * t \in Int
      BY <1>1, <1>5, <3>4
    <3>6. (w * h) * u <= (t * (v + 1)) * u
      BY <3>1, <3>2, <3>3, <3>5
    <3> QED BY <1>1, <3>4, <3>6, CancelFactor
  <2>3. (w * ONE) * h <= (r * ONE + t + ONE) * h
    <3>1. (w * h) * ONE <= (t * (v + 1)) * ONE
      <4>1. w * h \in Int /\ t * (v + 1) \in Int
        BY <1>2, <1>5, <1>7
      <4> QED BY <1>8, <2>2, <4>1, TimesMonotone
    <3>2. (v * ONE) * t <= (i * h + h) * t
      <4>1. v * ONE \in Int /\ i * h + h \in Int /\ v * ONE <= i * h + h
        BY <1>2, <1>4, <1>8
      <4> QED BY <1>5, <4>1, TimesMonotone
    <3>3. (t * i) * h <= (r * ONE) * h
      <4>1. t * i \in Int /\ r * ONE \in Int
        BY <1>4, <1>5, <1>8
      <4> QED BY <1>5, <4>1, TimesMonotone
    <3>4. t * ONE <= h * ONE
      BY <1>5, <1>6, <1>8, TimesMonotone
    <3>5. /\ (w * h) * ONE = (w * ONE) * h
          /\ (t * (v + 1)) * ONE = (v * ONE) * t + t * ONE
          /\ (i * h + h) * t = (t * i) * h + t * h
          /\ (r * ONE + t + ONE) * h = (r * ONE) * h + t * h + h * ONE
      BY <1>2, <1>4, <1>5, <1>7, <1>8
    <3>6. /\ (w * ONE) * h \in Int /\ (v * ONE) * t \in Int /\ t * ONE \in Int
          /\ (t * i) * h \in Int /\ t * h \in Int /\ (r * ONE) * h \in Int /\ h * ONE \in Int
      <4>1. w * ONE \in Int /\ v * ONE \in Int /\ t * i \in Int /\ r * ONE \in Int
        BY <1>2, <1>4, <1>5, <1>7, <1>8
      <4> QED BY <1>5, <1>8, <4>1
    <3> QED BY <3>1, <3>2, <3>3, <3>4, <3>5, <3>6
  <2>4. w * ONE <= r * ONE + t + ONE
    <3>1. w * ONE \in Int /\ r * ONE + t + ONE \in Int
      BY <1>5, <1>7, <1>8
    <3> QED BY <2>3, <3>1, CancelFactor
  <2>5. w * ONE < (r + z + 1) * ONE + ONE
    <3>1. (r + z + 1) * ONE = r * ONE + z * ONE + ONE
      BY <1>8, <2>1
    <3>2. w * ONE \in Int /\ r * ONE \in Int /\ z * ONE \in Int
      BY <1>7, <1>8, <2>1
    <3> QED BY <1>5, <1>8, <2>1, <2>4, <3>1, <3>2
  <2>6. w <= r + z + 1
    <3>1. r + z + 1 \in Int
      BY <2>1
    <3> QED BY <1>7, <1>8, <2>5, <3>1, TimesCancel
  <2> QED BY <1>7, <2>1, <2>6 DEF z
<1> QED BY <1>5, <1>7, <1>9, <1>10 DEF w, q, t, i, v

-----------------------------------------------------------------------------
(* What the pool holds *)

Worths(vals, lsu) == [v \in DOMAIN lsu |-> ValueOf(vals[v], lsu[v])]

LEMMA TotalIsSum ==
  ASSUME NEW vals, NEW lsu
  PROVE  SumCurrentStaked(vals, lsu) = SetSum(Worths(vals, lsu), DOMAIN lsu)
<1> DEFINE S == DOMAIN lsu
           f == Worths(vals, lsu)
           F(g) == [s \in SUBSET S |->
                      IF s = {} THEN 0
                      ELSE ValueOf(vals[OneOf(s)], lsu[OneOf(s)]) + g[s \ {OneOf(s)}]]
           H(g) == [s \in SUBSET S |->
                      IF s = {} THEN 0 ELSE f[OneOf(s)] + g[s \ {OneOf(s)}]]
<1>1. \A v \in S : f[v] = ValueOf(vals[v], lsu[v])
  BY DEF Worths
<1> HIDE DEF S, f
<1>2. \A s \in SUBSET S : s # {} => f[OneOf(s)] = ValueOf(vals[OneOf(s)], lsu[OneOf(s)])
  BY <1>1, OneOfType
<1>3. \A g : F(g) = H(g)
  BY <1>2
<1>4. MapThenSumSet(LAMBDA v : ValueOf(vals[v], lsu[v]), S) = (CHOOSE g : g = F(g))[S]
  BY Zenon DEF MapThenSumSet, MapThenFoldSet, OneOf
<1>5. SetSum(f, S) = (CHOOSE g : g = H(g))[S]
  BY Zenon, SetSumDef DEF Adds
<1> HIDE DEF F, H
<1>6. (CHOOSE g : g = F(g)) = (CHOOSE g : g = H(g))
  BY <1>3, Zenon
<1>7. MapThenSumSet(LAMBDA v : ValueOf(vals[v], lsu[v]), S) = SetSum(f, S)
  BY <1>4, <1>5, <1>6, Zenon
<1> QED BY <1>7 DEF SumCurrentStaked, S, f

\* Where one validator or the pool's stake units of it change.
LEMMA TotalChanges ==
  ASSUME NEW vals, NEW lsu, NEW vals2, NEW lsu2, NEW v,
         IsFiniteSet(DOMAIN lsu), DOMAIN lsu2 = DOMAIN lsu \cup {v},
         \A w \in DOMAIN lsu : ValueOf(vals[w], lsu[w]) \in Nat,
         \A w \in DOMAIN lsu2 : ValueOf(vals2[w], lsu2[w]) \in Nat,
         \A w \in DOMAIN lsu \ {v} : vals2[w] = vals[w] /\ lsu2[w] = lsu[w]
  PROVE  /\ SumCurrentStaked(vals, lsu) \in Nat
         /\ SumCurrentStaked(vals2, lsu2) =
              SumCurrentStaked(vals, lsu) + ValueOf(vals2[v], lsu2[v])
                - (IF v \in DOMAIN lsu THEN ValueOf(vals[v], lsu[v]) ELSE 0)
<1> DEFINE D == DOMAIN lsu   E == DOMAIN lsu2   r == D \ {v}
           f == Worths(vals, lsu)   g == Worths(vals2, lsu2)
<1>1. /\ IsFiniteSet(D) /\ IsFiniteSet(E) /\ IsFiniteSet(r) /\ E \ {v} = r
  <2>1. IsFiniteSet(E)
    BY FS_AddElement
  <2>2. IsFiniteSet(r) /\ E \ {v} = r
    BY FS_Subset, r \in SUBSET D
  <2> QED BY <2>1, <2>2
<1>2. /\ \A w \in D : f[w] = ValueOf(vals[w], lsu[w]) /\ f[w] \in Int /\ f[w] >= 0
      /\ \A w \in E : g[w] = ValueOf(vals2[w], lsu2[w]) /\ g[w] \in Int
      /\ \A w \in r : f[w] = g[w]
  BY DEF Worths
<1>3. SumCurrentStaked(vals, lsu) = SetSum(f, D) /\ SumCurrentStaked(vals2, lsu2) = SetSum(g, E)
  BY TotalIsSum
<1>4. v \in E
  OBVIOUS
<1> HIDE DEF f, g, D, E, r
<1>5. SetSum(g, E) = g[v] + SetSum(g, r)
  BY <1>1, <1>2, <1>4, SetSumElement
<1>6. SetSum(f, r) = SetSum(g, r)
  BY <1>1, <1>2, SetSumSame
<1>7. SetSum(f, D) = (IF v \in D THEN f[v] ELSE 0) + SetSum(f, r)
  <2>1. CASE v \in D
    <3>1. SetSum(f, D) = f[v] + SetSum(f, D \ {v})
      BY <1>1, <1>2, <2>1, SetSumElement
    <3> QED BY <2>1, <3>1 DEF r
  <2>2. CASE v \notin D
    <3>1. r = D
      BY <2>2 DEF r
    <3>2. SetSum(f, D) \in Int
      BY <1>1, <1>2, SetSumType
    <3> QED BY <2>2, <3>1, <3>2
  <2> QED BY <2>1, <2>2
<1>8. SetSum(f, D) \in Int /\ SetSum(f, r) \in Int /\ SetSum(f, D) >= 0
  <2>1. SetSum(f, D) \in Int
    BY <1>1, <1>2, SetSumType
  <2>2. SetSum(f, r) \in Int
    <3>1. \A w \in r : f[w] \in Int
      BY <1>2 DEF r
    <3> QED BY <1>1, <3>1, SetSumType
  <2>3. 0 * Cardinality(D) <= SetSum(f, D)
    BY <1>1, <1>2, 0 \in Int, SetSumBounds
  <2>4. 0 * Cardinality(D) = 0
    BY <1>1, FS_CardinalityType
  <2> QED BY <2>1, <2>2, <2>3, <2>4
<1>9. g[v] \in Int /\ (v \in D => f[v] \in Int)
  BY <1>2, <1>4
<1>10. SetSum(g, E) = SetSum(f, D) + g[v] - (IF v \in D THEN f[v] ELSE 0)
  BY <1>5, <1>6, <1>7, <1>8, <1>9
<1>11. g[v] = ValueOf(vals2[v], lsu2[v]) /\ (v \in D => f[v] = ValueOf(vals[v], lsu[v]))
  BY <1>2, <1>4
<1> QED BY <1>3, <1>8, <1>10, <1>11 DEF D

LEMMA KnownValues ==
  ASSUME StakingInv
  PROVE  /\ IsFiniteSet(DOMAIN lsu_map) /\ DOMAIN lsu_map \subseteq Validators
         /\ \A v \in Validators : Known(validator[v]) /\ validator[v] \in Validator
         /\ \A v \in DOMAIN lsu_map : /\ lsu_map[v] \in Nat /\ lsu_map[v] <= validator[v].units
                                      /\ ValueOf(validator[v], lsu_map[v]) \in Nat
<1>1. IsFiniteSet(DOMAIN lsu_map) /\ DOMAIN lsu_map \subseteq Validators
  BY StakingAssumption, FS_Subset DEF StakingInv, StakesKnown
<1>2. \A v \in Validators : Known(validator[v]) /\ validator[v] \in Validator
  BY DEF StakingInv, Known
<1>3. \A v \in DOMAIN lsu_map : lsu_map[v] \in Nat /\ lsu_map[v] <= validator[v].units
  BY DEF StakingInv, StakesKnown
<1> QED BY <1>1, <1>2, <1>3, ValueBounds

\* All units are worth no more than what the pool holds.
LEMMA Price ==
  ASSUME StakingInv
  PROVE  /\ TotalValue \in Nat /\ ValuePerUnit \in Nat /\ dse_supply \in Nat
         /\ dse_supply * ValuePerUnit <= TotalValue * ONE
<1> DEFINE T == TotalValue   d == dse_supply   p == ValuePerUnit
<1>1. T \in Nat /\ d \in Nat
  <2> DEFINE D == DOMAIN lsu_map   f == Worths(validator, lsu_map)
  <2>1. IsFiniteSet(D) /\ \A v \in D : f[v] \in Int /\ f[v] >= 0
    BY KnownValues DEF Worths
  <2>2. T = SetSum(f, D)
    BY TotalIsSum DEF TotalValue
  <2> HIDE DEF f, D
  <2>3. SetSum(f, D) \in Int /\ 0 * Cardinality(D) <= SetSum(f, D)
    BY <2>1, 0 \in Int, SetSumType, SetSumBounds
  <2>4. 0 * Cardinality(D) = 0
    BY <2>1, FS_CardinalityType
  <2> HIDE DEF T
  <2> QED BY <2>2, <2>3, <2>4 DEF StakingInv
<1>2. p = IF d = 0 THEN ONE ELSE DDiv(T, d)
  BY DEF ValuePerUnit
<1> HIDE DEF T, d, p
<1>3. CASE d = 0
  <2>1. p = ONE /\ d * p = 0 /\ T * ONE \in Nat
    BY <1>1, <1>2, <1>3, DecimalsAssumption
  <2> QED BY <1>1, <2>1, DecimalsAssumption DEF T, d, p
<1>4. CASE d # 0
  <2>1. p = DDiv(T, d) /\ p \in Nat /\ p * d <= T * ONE
    BY <1>1, <1>2, <1>4, DDivBounds
  <2>2. p * d = d * p
    BY <1>1, <2>1
  <2> QED BY <1>1, <2>1, <2>2 DEF T, d, p
<1> QED BY <1>3, <1>4

-----------------------------------------------------------------------------
(* The steps *)

Paid(v) == validator'[v].staked - validator[v].staked
Due == DMul(dse_supply' - dse_supply, ValuePerUnit)

\* Only what concerns v changes.
LEMMA StepTotal ==
  ASSUME StakingInv, NEW v \in Validators,
         DOMAIN lsu_map' = DOMAIN lsu_map \cup {v},
         \A w \in DOMAIN lsu_map' : ValueOf(validator'[w], lsu_map'[w]) \in Nat,
         \A w \in DOMAIN lsu_map \ {v} : validator'[w] = validator[w] /\ lsu_map'[w] = lsu_map[w]
  PROVE  TotalValue' = TotalValue + ValueOf(validator'[v], lsu_map'[v])
                         - (IF v \in DOMAIN lsu_map THEN ValueOf(validator[v], lsu_map[v]) ELSE 0)
<1>1. IsFiniteSet(DOMAIN lsu_map)
  BY KnownValues
<1>2. \A w \in DOMAIN lsu_map : ValueOf(validator[w], lsu_map[w]) \in Nat
  BY KnownValues
<1> DEFINE vals2 == validator'   lsu2 == lsu_map'
<1>3. /\ DOMAIN lsu2 = DOMAIN lsu_map \cup {v}
      /\ \A w \in DOMAIN lsu2 : ValueOf(vals2[w], lsu2[w]) \in Nat
      /\ \A w \in DOMAIN lsu_map \ {v} : vals2[w] = validator[w] /\ lsu2[w] = lsu_map[w]
  OBVIOUS
<1>4. TotalValue = SumCurrentStaked(validator, lsu_map)
  BY DEF TotalValue
<1>5. TotalValue' = SumCurrentStaked(vals2, lsu2)
  BY DEF TotalValue
<1> HIDE DEF vals2, lsu2
<1>6. SumCurrentStaked(vals2, lsu2) =
        SumCurrentStaked(validator, lsu_map) + ValueOf(vals2[v], lsu2[v])
          - (IF v \in DOMAIN lsu_map THEN ValueOf(validator[v], lsu_map[v]) ELSE 0)
  BY <1>1, <1>2, <1>3, TotalChanges
<1> QED BY <1>4, <1>5, <1>6 DEF vals2, lsu2

LEMMA ContributeSound ==
  ASSUME StakingInv, NEW v \in Validators, NEW a \in Nat, Contribute(v, a)
  PROVE  /\ StakingInv'
         /\ Paid(v) - Due \in 0 .. (StakePart(v) + DsePart)
         /\ TotalValue' >= DMul(dse_supply', ValuePerUnit)
<1> DEFINE x == validator[v]   l == UnitsFor(x, a)   y == Staked(x, a)
           h == Amount(lsu_map, v)   val == ValueOf(y, l)
           T == TotalValue   U == TotalValue'   p == ValuePerUnit
           d == dse_supply   m == DDiv(val, p)   e == DMul(m, p)
           before == IF v \in DOMAIN lsu_map THEN ValueOf(x, lsu_map[v]) ELSE 0
<1>1. /\ IsFiniteSet(DOMAIN lsu_map) /\ DOMAIN lsu_map \subseteq Validators
      /\ \A w \in Validators : Known(validator[w]) /\ validator[w] \in Validator
      /\ \A w \in DOMAIN lsu_map : /\ lsu_map[w] \in Nat /\ lsu_map[w] <= validator[w].units
                                   /\ ValueOf(validator[w], lsu_map[w]) \in Nat
  BY KnownValues
<1>2. /\ l # 0 /\ p # 0
      /\ validator' = [validator EXCEPT ![v] = y]
      /\ DOMAIN lsu_map' = DOMAIN lsu_map \cup {v}
      /\ lsu_map'[v] = h + l
      /\ \A w \in DOMAIN lsu_map \ {v} : lsu_map'[w] = lsu_map[w] + 0
      /\ dse_supply' = d + m
      /\ ops' = ops + 1
  BY DEF Contribute, Amount, Minted, Step
<1>3. /\ Known(y) /\ l \in Nat \ {0} /\ y.units = x.units + l /\ y.staked = x.staked + a
      /\ a - val \in 0 .. StakePart(v)
      /\ \A n \in Nat : ValueOf(x, n) <= ValueOf(y, n)
  BY <1>1, <1>2, StakedWorth DEF StakePart
<1>4. validator \in [Validators -> Validator] /\ y \in Validator /\ ops \in Nat
  BY <1>3 DEF StakingInv, Known
<1>5. h \in Nat /\ h <= x.units /\ x.units \in Nat /\ x.staked \in Nat
  BY <1>1 DEF Amount, Validator
<1>6. T \in Nat /\ p \in Nat \ {0} /\ d \in Nat /\ d * p <= T * ONE
  BY <1>2, Price
<1> HIDE DEF l, y, h, p, d
<1>7. val \in Nat /\ val <= a
  BY <1>3, <1>4, ValueBounds
<1>8. m \in Nat /\ m * p <= val * ONE /\ val - e \in 0 .. DsePart
  BY <1>6, <1>7, UnitsWorth DEF DsePart, p
<1>9. /\ \A w \in Validators : validator'[w] \in Validator /\ Known(validator'[w])
      /\ \A w \in DOMAIN lsu_map' : lsu_map'[w] \in Nat /\ lsu_map'[w] <= validator'[w].units
  <2>1. \A w \in Validators : validator'[w] = IF w = v THEN y ELSE validator[w]
    BY <1>2, <1>4
  <2>2. \A w \in Validators : validator'[w] \in Validator /\ Known(validator'[w])
    BY <1>1, <1>3, <1>4, <2>1
  <2>3. lsu_map'[v] \in Nat /\ lsu_map'[v] <= validator'[v].units
    BY <1>2, <1>3, <1>5, <2>1
  <2>4. ASSUME NEW w \in DOMAIN lsu_map \ {v}
        PROVE  lsu_map'[w] \in Nat /\ lsu_map'[w] <= validator'[w].units
    <3>1. lsu_map[w] \in Nat /\ lsu_map[w] <= validator[w].units
      BY <1>1
    <3>2. lsu_map'[w] = lsu_map[w] /\ validator'[w] = validator[w]
      BY <1>1, <1>2, <2>1, <3>1
    <3> QED BY <3>1, <3>2
  <2> QED BY <1>2, <2>2, <2>3, <2>4
<1>10. StakingInv'
  <2>1. validator' \in [Validators -> Validator]
    BY <1>2, <1>4
  <2>2. DOMAIN lsu_map' \subseteq Validators
    BY <1>1, <1>2
  <2>3. dse_supply' \in Nat /\ ops' \in Nat
    BY <1>2, <1>4, <1>6, <1>8
  <2> QED BY <1>9, <2>1, <2>2, <2>3 DEF StakingInv, StakesKnown, Known
<1>11. Paid(v) = a /\ Due = e
  <2>1. validator'[v] = y
    BY <1>2, <1>4
  <2>2. dse_supply' - dse_supply = m
    BY <1>2, <1>6, <1>8 DEF d
  <2>3. Paid(v) = a
    <3>1. Paid(v) = y.staked - x.staked
      BY <2>1 DEF Paid
    <3>2. a \in Int
      OBVIOUS
    <3> HIDE DEF x
    <3> QED BY <1>3, <1>5, <3>1, <3>2
  <2> QED BY <2>2, <2>3 DEF Due, p
<1>12. Paid(v) - Due \in 0 .. (StakePart(v) + DsePart)
  <2>1. StakePart(v) \in Int /\ DsePart \in Int
    <3>1. ValueOf(x, 1) \in Nat
      BY <1>1, 1 \in Nat, ValueBounds
    <3>2. p \div ONE \in Nat
      BY <1>6, WholeParts
    <3> QED BY <3>1, <3>2 DEF StakePart, DsePart, p
  <2>2. e \in Int
    BY <1>6, <1>8, DMulType
  <2> HIDE DEF val, e
  <2> QED BY <1>3, <1>7, <1>8, <1>11, <2>1, <2>2
<1>13. U = T + ValueOf(y, h + l) - before
  <2>1. \A w \in DOMAIN lsu_map' : ValueOf(validator'[w], lsu_map'[w]) \in Nat
    <3> TAKE w \in DOMAIN lsu_map'
    <3>1. w \in Validators
      BY <1>1, <1>2
    <3> QED BY <1>9, <3>1, ValueBounds
  <2>2. \A w \in DOMAIN lsu_map \ {v} : validator'[w] = validator[w] /\ lsu_map'[w] = lsu_map[w]
    BY <1>1, <1>2, <1>4
  <2>3. U = T + ValueOf(validator'[v], lsu_map'[v]) - before
    BY <1>2, <2>1, <2>2, StepTotal
  <2>4. validator'[v] = y
    BY <1>2, <1>4
  <2> QED BY <1>2, <2>3, <2>4
<1>14. before <= ValueOf(y, h) /\ before \in Nat /\ ValueOf(y, h) \in Nat
  <2>1. ValueOf(y, h) \in Nat
    BY <1>4, <1>5, ValueBounds
  <2>2. CASE v \in DOMAIN lsu_map
    <3>1. h = lsu_map[v]
      BY <2>2 DEF h, Amount
    <3> QED BY <1>1, <1>3, <1>5, <2>1, <2>2, <3>1
  <2>3. CASE v \notin DOMAIN lsu_map
    BY <2>1, <2>3
  <2> QED BY <2>2, <2>3
<1>15. ValueOf(y, h) + val <= ValueOf(y, h + l) /\ ValueOf(y, h + l) \in Nat
  <2>1. h + l \in Nat
    BY <1>3, <1>5
  <2> QED BY <1>3, <1>4, <1>5, <2>1, ValueAdds, ValueBounds
<1>16. U >= T + val /\ U \in Int
  <2> HIDE DEF T, U, before, val
  <2> QED BY <1>6, <1>7, <1>13, <1>14, <1>15
<1>17. DMul(d + m, p) <= T + val /\ DMul(d + m, p) \in Int
  <2> DEFINE D == DMul(d + m, p)
  <2> HIDE DEF m, val, T
  <2>1. D \in Nat /\ D * ONE <= (d + m) * p
    BY <1>6, <1>8, DMulBounds, d + m \in Nat
  <2>2. (d + m) * p = d * p + m * p /\ (T + val) * ONE = T * ONE + val * ONE
    BY <1>6, <1>7, <1>8, DecimalsAssumption
  <2>3. d * p \in Int /\ m * p \in Int /\ T * ONE \in Int /\ val * ONE \in Int
    BY <1>6, <1>7, <1>8, DecimalsAssumption
  <2> HIDE DEF D
  <2>4. D * ONE <= (T + val) * ONE
    <3>1. D * ONE \in Int
      BY <2>1, DecimalsAssumption
    <3> QED BY <1>6, <1>8, <2>1, <2>2, <2>3, <3>1
  <2>5. D <= T + val
    BY <1>6, <1>7, <2>1, <2>4, CancelFactor, DecimalsAssumption
  <2> QED BY <2>1, <2>5 DEF D
<1> HIDE DEF T, U, val, m
<1>18. TotalValue' >= DMul(dse_supply', ValuePerUnit)
  BY <1>2, <1>6, <1>7, <1>16, <1>17 DEF U, p
<1> QED BY <1>10, <1>12, <1>18

LEMMA RedeemSound ==
  ASSUME StakingInv, NEW v \in DOMAIN lsu_map, NEW a \in Nat, Redeem(v, a)
  PROVE  /\ StakingInv'
         /\ Paid(v) - Due \in -(Taken(v, a) \div ONE + 1) .. StakePart(v)
         /\ TotalValue' >= DMul(dse_supply', ValuePerUnit) - (Taken(v, a) \div ONE + 2)
         /\ dse_supply' >= dse_supply => TotalValue' >= DMul(dse_supply', ValuePerUnit)
<1> DEFINE x == validator[v]   h == lsu_map[v]   p == ValuePerUnit   d == dse_supply
           r == DMul(a, p)   t == Taken(v, a)   y == Unstaked(x, t)   w == ValueOf(x, t)
           V == ValueOf(x, h)   z == t \div ONE   T == TotalValue   U == TotalValue'
<1>1. /\ DOMAIN lsu_map \subseteq Validators /\ v \in Validators
      /\ \A k \in Validators : Known(validator[k]) /\ validator[k] \in Validator
      /\ \A k \in DOMAIN lsu_map : /\ lsu_map[k] \in Nat /\ lsu_map[k] <= validator[k].units
                                   /\ ValueOf(validator[k], lsu_map[k]) \in Nat
  BY KnownValues
<1>2. /\ a <= d /\ r <= V /\ h # 0 /\ DDiv(V, h) # 0 /\ t <= h
      /\ t = DDiv(r, DDiv(V, h))
      /\ validator' = [validator EXCEPT ![v] = y]
      /\ lsu_map' = [lsu_map EXCEPT ![v] = h - t]
      /\ dse_supply' = d - a
      /\ ops' = ops + 1
  BY DEF Redeem, Covered, Taken, RedeemValue, LsuIndex, Step
<1>3. validator \in [Validators -> Validator] /\ ops \in Nat
  BY DEF StakingInv
<1>4. T \in Nat /\ p \in Nat /\ d \in Nat /\ d * p <= T * ONE
  BY Price
<1>5. Known(x) /\ h \in Nat \ {0} /\ h <= x.units /\ x \in Validator /\ V \in Nat
  BY <1>1, <1>2
<1>6. r \in Nat /\ r * ONE <= a * p
  BY <1>4, DMulBounds
<1>7. /\ t \in Nat /\ w \in Nat
      /\ r - w <= StakePart(v)
      /\ w - r <= z + 1
  BY <1>2, <1>5, <1>6, TakenWorth DEF StakePart
<1>8. /\ Known(y) /\ y.units = x.units - t /\ y.staked = x.staked - w
      /\ V - w - 1 <= ValueOf(y, h - t)
      /\ h - t \in Nat
  <2>1. h - t \in Nat
    BY <1>2, <1>5, <1>7
  <2> HIDE DEF t
  <2> QED BY <1>2, <1>5, <1>7, <2>1, UnstakedWorth
<1>9. z \in Nat
  <2> HIDE DEF t
  <2> QED BY <1>7, WholeParts
<1>10. y \in Validator /\ x.units \in Nat /\ x.staked \in Nat
  BY <1>5, <1>8 DEF Known, Validator
<1> HIDE DEF t, y, w, V, r, p, d, z, h
<1>11. /\ DOMAIN lsu_map' = DOMAIN lsu_map
       /\ lsu_map'[v] = h - t /\ validator'[v] = y
       /\ \A k \in Validators \ {v} : validator'[k] = validator[k]
       /\ \A k \in DOMAIN lsu_map \ {v} : lsu_map'[k] = lsu_map[k]
  BY <1>1, <1>2, <1>3
<1>12. /\ \A k \in Validators : validator'[k] \in Validator /\ Known(validator'[k])
       /\ \A k \in DOMAIN lsu_map' : lsu_map'[k] \in Nat /\ lsu_map'[k] <= validator'[k].units
  <2>1. \A k \in Validators : validator'[k] \in Validator /\ Known(validator'[k])
    BY <1>1, <1>8, <1>10, <1>11
  <2>2. lsu_map'[v] \in Nat /\ lsu_map'[v] <= validator'[v].units
    BY <1>5, <1>7, <1>8, <1>10, <1>11
  <2>3. ASSUME NEW k \in DOMAIN lsu_map \ {v}
        PROVE  lsu_map'[k] \in Nat /\ lsu_map'[k] <= validator'[k].units
    BY <1>1, <1>11
  <2> QED BY <1>11, <2>1, <2>2, <2>3
<1>13. StakingInv'
  <2>1. validator' \in [Validators -> Validator]
    BY <1>2, <1>3, <1>10
  <2>2. dse_supply' \in Nat /\ ops' \in Nat
    BY <1>2, <1>3, <1>4
  <2>3. DOMAIN lsu_map' \subseteq Validators
    BY <1>1, <1>11
  <2> QED BY <1>12, <2>1, <2>2, <2>3 DEF StakingInv, StakesKnown, Known
<1>14. Paid(v) = -w /\ Due = -r
  <2>1. Paid(v) = -w
    <3>1. Paid(v) = y.staked - x.staked
      BY <1>11 DEF Paid
    <3> HIDE DEF x
    <3> QED BY <1>7, <1>8, <1>10, <3>1
  <2>2. dse_supply' - dse_supply = -a
    BY <1>2, <1>4 DEF d
  <2>3. DMul(-a, p) = -r
    BY <1>4, DMulNegative DEF r
  <2> QED BY <2>1, <2>2, <2>3 DEF Due, p
<1>15. Paid(v) - Due \in -(z + 1) .. StakePart(v)
  <2>1. StakePart(v) \in Int
    <3>1. ValueOf(x, 1) \in Nat
      BY <1>5, 1 \in Nat, ValueBounds
    <3> QED BY <3>1 DEF StakePart
  <2> QED BY <1>6, <1>7, <1>9, <1>14, <2>1
<1>16. /\ U = T + ValueOf(y, h - t) - V
       /\ ValueOf(y, h - t) \in Nat
  <2>1. \A k \in DOMAIN lsu_map' : ValueOf(validator'[k], lsu_map'[k]) \in Nat
    <3> TAKE k \in DOMAIN lsu_map'
    <3>1. k \in Validators
      BY <1>1, <1>11
    <3> QED BY <1>12, <3>1, ValueBounds
  <2>2. \A k \in DOMAIN lsu_map \ {v} : validator'[k] = validator[k] /\ lsu_map'[k] = lsu_map[k]
    BY <1>1, <1>11
  <2>3. DOMAIN lsu_map' = DOMAIN lsu_map \cup {v}
    BY <1>11
  <2>4. U = T + ValueOf(validator'[v], lsu_map'[v]) - V
    BY <1>1, <2>1, <2>2, <2>3, StepTotal DEF V, h
  <2>5. ValueOf(y, h - t) \in Nat
    BY <1>8, <1>10, ValueBounds
  <2> QED BY <1>11, <2>4, <2>5
<1> HIDE DEF T, U
<1>17. U >= T - r - (z + 2) /\ U \in Int
  BY <1>4, <1>5, <1>6, <1>7, <1>8, <1>9, <1>16
<1>18. DMul(d - a, p) <= T - r /\ DMul(d - a, p) \in Int
  <2> DEFINE D == DMul(d - a, p)
  <2>1. D \in Nat /\ D * ONE <= (d - a) * p
    <3>1. d - a \in Nat
      BY <1>2, <1>4
    <3> QED BY <1>4, <3>1, DMulBounds
  <2>2. (d - a) * p = d * p - a * p /\ (T - r) * ONE = T * ONE - r * ONE
    BY <1>4, <1>6, DecimalsAssumption
  <2>3. d * p \in Int /\ a * p \in Int /\ T * ONE \in Int /\ r * ONE \in Int
    BY <1>4, <1>6, DecimalsAssumption
  <2> HIDE DEF D
  <2>4. D * ONE <= (T - r) * ONE
    <3>1. D * ONE \in Int
      BY <2>1, DecimalsAssumption
    <3> QED BY <1>4, <1>6, <2>1, <2>2, <2>3, <3>1
  <2>5. D <= T - r
    BY <1>4, <1>6, <2>1, <2>4, CancelFactor, DecimalsAssumption
  <2> QED BY <2>1, <2>5 DEF D
<1>19. U >= DMul(dse_supply', p) - (z + 2)
  BY <1>2, <1>4, <1>6, <1>9, <1>17, <1>18
<1>20. ASSUME dse_supply' >= dse_supply PROVE U >= DMul(dse_supply', p)
  <2>1. a = 0
    BY <1>2, <1>4, <1>20 DEF d
  <2>2. r = 0
    BY <1>4, <2>1, DMulZero DEF r
  <2>3. t = 0
    <3> DEFINE i == DDiv(V, h)
    <3>1. i \in Nat \ {0}
      <4>1. i \in Nat
        BY <1>5, DDivBounds
      <4> QED BY <1>2, <4>1
    <3>2. t = DDiv(0, i)
      BY <1>2, <2>2
    <3> HIDE DEF i
    <3>3. 0 * ONE = 0 /\ 0 \div i = 0
      BY <3>1, DecimalsAssumption
    <3> QED BY <3>1, <3>2, <3>3 DEF DDiv, Trunc
  <2>4. w = 0
    <3>1. 0 * x.staked = 0 /\ (x.units # 0 => 0 \div x.units = 0)
      BY <1>10
    <3> QED BY <2>3, <3>1 DEF w, ValueOf
  <2>5. y.units = x.units /\ y.staked = x.staked
    BY <1>8, <1>10, <2>3, <2>4
  <2>6. ValueOf(y, h - t) = V
    <3>1. h - t = h
      BY <1>5, <2>3
    <3> QED BY <2>5, <3>1 DEF V, ValueOf
  <2>7. U = T
    BY <1>4, <1>5, <1>16, <2>6
  <2> QED BY <1>2, <1>4, <1>6, <1>18, <2>2, <2>7
<1> QED BY <1>13, <1>15, <1>19, <1>20 DEF U, p, t, z

LEMMA RewardSound ==
  ASSUME StakingInv, NEW v \in Validators, NEW rate \in Nat, Reward(v, rate)
  PROVE  StakingInv' /\ TotalValue' >= DMul(dse_supply', ValuePerUnit)
<1> DEFINE x == validator[v]   g == (x.staked * rate) \div 1000
           y == [x EXCEPT !.staked = @ + g]
           d == dse_supply   p == ValuePerUnit   T == TotalValue   U == TotalValue'
<1>1. /\ IsFiniteSet(DOMAIN lsu_map) /\ DOMAIN lsu_map \subseteq Validators
      /\ \A k \in Validators : Known(validator[k]) /\ validator[k] \in Validator
      /\ \A k \in DOMAIN lsu_map : /\ lsu_map[k] \in Nat /\ lsu_map[k] <= validator[k].units
                                   /\ ValueOf(validator[k], lsu_map[k]) \in Nat
  BY KnownValues
<1>2. validator \in [Validators -> Validator] /\ ops \in Nat /\ d \in Nat
  BY DEF StakingInv
<1>3. g \in Nat /\ (x.units = 0 => g = 0)
  <2>1. x.staked * rate \in Nat /\ (x.units = 0 => x.staked * rate = 0)
    BY <1>1 DEF Known, Validator
  <2> QED BY <2>1
<1>4. lsu_map' = lsu_map /\ dse_supply' = d /\ ops' = ops + 1
  BY DEF Reward, Step
<1>5. validator' = [validator EXCEPT ![v] = y]
  BY <1>2 DEF Reward
<1> HIDE DEF g
<1>6. Known(y) /\ \A n \in Nat : ValueOf(x, n) <= ValueOf(y, n)
  BY <1>1, <1>3, RewardedWorth
<1>7. y \in Validator /\ y.units = x.units
  BY <1>1, <1>6 DEF Known, Validator
<1>8. T \in Nat /\ p \in Nat /\ d * p <= T * ONE
  BY Price
<1> HIDE DEF y
<1>9. \A k \in Validators : /\ validator'[k] \in Validator /\ Known(validator'[k])
                            /\ validator'[k].units = validator[k].units
                            /\ \A n \in Nat : ValueOf(validator[k], n) <= ValueOf(validator'[k], n)
  <2>1. validator'[v] = y
    BY <1>2, <1>5
  <2>2. ASSUME NEW k \in Validators \ {v}
        PROVE  /\ validator'[k] = validator[k] /\ validator[k] \in Validator
               /\ \A n \in Nat : ValueOf(validator[k], n) \in Nat
    BY <1>1, <1>2, <1>5, ValueBounds
  <2>3. ASSUME NEW k \in Validators \ {v}
        PROVE  \A n \in Nat : ValueOf(validator[k], n) <= ValueOf(validator'[k], n)
    BY <2>2
  <2> QED BY <1>1, <1>6, <1>7, <2>1, <2>2, <2>3
<1>10. StakingInv'
  <2>1. validator' \in [Validators -> Validator]
    BY <1>2, <1>5, <1>7
  <2>2. ops' \in Nat
    BY <1>2, <1>4
  <2>3. \A k \in DOMAIN lsu_map : lsu_map[k] <= validator'[k].units
    BY <1>1, <1>9
  <2> QED BY <1>1, <1>2, <1>4, <1>9, <2>1, <2>2, <2>3 DEF StakingInv, StakesKnown, Known
<1>11. T <= U /\ U \in Int
  <2> DEFINE S == DOMAIN lsu_map
             vals2 == validator'
             f == Worths(validator, lsu_map)   k == Worths(vals2, lsu_map)
  <2>1. \A w \in S : f[w] \in Int /\ k[w] \in Int /\ f[w] <= k[w]
    <3> TAKE w \in S
    <3>1. w \in Validators /\ lsu_map[w] \in Nat
      BY <1>1
    <3>2. f[w] = ValueOf(validator[w], lsu_map[w]) /\ k[w] = ValueOf(validator'[w], lsu_map[w])
      BY DEF Worths
    <3>3. ValueOf(validator[w], lsu_map[w]) \in Nat /\ ValueOf(validator'[w], lsu_map[w]) \in Nat
      BY <1>1, <1>9, <3>1, ValueBounds
    <3> QED BY <1>9, <3>1, <3>2, <3>3
  <2>2. T = SetSum(f, S)
    BY TotalIsSum DEF TotalValue
  <2>3. U = SumCurrentStaked(vals2, lsu_map)
    BY <1>4 DEF TotalValue
  <2> HIDE DEF vals2
  <2>4. U = SetSum(k, S)
    BY <2>3, TotalIsSum
  <2> HIDE DEF T, U, f, k
  <2>5. SetSum(f, S) <= SetSum(k, S) /\ SetSum(k, S) \in Int
    BY <1>1, <2>1, SetSumMonotone, SetSumType
  <2> QED BY <2>2, <2>4, <2>5
<1> HIDE DEF d, p
<1>12. DMul(d, p) <= T /\ DMul(d, p) \in Int
  <2> DEFINE e == DMul(d, p)
  <2>1. /\ d * p \in Nat /\ e \in Nat /\ e * ONE \in Nat
        /\ e * ONE <= d * p
    BY <1>2, <1>8, DMulBounds
  <2> HIDE DEF e
  <2>2. e * ONE <= T * ONE /\ T * ONE \in Int
    BY <1>8, <2>1, DecimalsAssumption
  <2>3. e <= T
    BY <1>8, <2>1, <2>2, CancelFactor, DecimalsAssumption
  <2> QED BY <2>1, <2>3 DEF e
<1> HIDE DEF T, U
<1>13. U >= DMul(dse_supply', p)
  BY <1>4, <1>8, <1>11, <1>12
<1> QED BY <1>10, <1>13 DEF U, p

-----------------------------------------------------------------------------
(* The theorems *)

LEMMA Amounts ==
  ASSUME StakingInv
  PROVE  /\ \A a \in Contributions : a \in Nat
         /\ \A a \in Rewards : a \in Nat
         /\ \A a \in Redemptions \cup {dse_supply} : a \in Nat
BY StakingAssumption DEF StakingInv

LEMMA StakingInit == Init => StakingInv
<1> SUFFICES ASSUME Init PROVE StakingInv
  OBVIOUS
<1>1. validator \in [Validators -> Validator]
      /\ \A v \in Validators : validator[v].units = 0 <=> validator[v].staked = 0
  BY StakingAssumption DEF Init
<1>2. DOMAIN lsu_map = {} /\ dse_supply \in Nat /\ ops \in Nat
  BY DEF Init
<1> QED BY <1>1, <1>2 DEF StakingInv, StakesKnown

LEMMA StakingStep ==
  ASSUME StakingInv, [Next]_vars
  PROVE  StakingInv'
<1>1. CASE UNCHANGED vars
  BY <1>1 DEF vars, StakingInv, StakesKnown
<1>2. ASSUME NEW v \in Validators, NEW a \in Contributions, Contribute(v, a) PROVE StakingInv'
  BY <1>2, Amounts, ContributeSound
<1>3. ASSUME NEW v \in Validators, NEW rate \in Rewards, Reward(v, rate) PROVE StakingInv'
  BY <1>3, Amounts, RewardSound
<1>4. ASSUME NEW v \in DOMAIN lsu_map, NEW a \in Redemptions \cup {dse_supply}, Redeem(v, a)
      PROVE  StakingInv'
  BY <1>4, Amounts, RedeemSound
<1> QED BY <1>1, <1>2, <1>3, <1>4 DEF Next

\* The pool's stake units of a validator are ones that the validator minted and
\* did not burn, whatever was staked, redeemed and earned; and no validator owes
\* stake for which it has no stake units, or has stake units of nothing.
THEOREM StakesKnownHolds == Spec => []StakingInv
BY StakingInit, StakingStep, PTL DEF Spec

\* join and redeem exchange for what is due at the value of a unit just before,
\* to the last digit, with any validator of any worth.
THEOREM FairExchangeHolds == Spec => FairExchange
<1> DEFINE Act == \A v \in Validators :
                    LET paid == validator'[v].staked - validator[v].staked
                        due  == DMul(dse_supply' - dse_supply, ValuePerUnit)
                    IN  /\ \A amount \in Contributions :
                             Contribute(v, amount) =>
                               paid - due \in 0 .. (StakePart(v) + DsePart)
                        /\ \A amount \in Redemptions \cup {dse_supply} :
                             v \in DOMAIN lsu_map /\ Redeem(v, amount) =>
                               paid - due \in -(Taken(v, amount) \div ONE + 1) .. StakePart(v)
<1>1. StakingInv /\ [Next]_vars => [Act]_vars
  <2> SUFFICES ASSUME StakingInv, NEW v \in Validators
               PROVE  /\ \A amount \in Contributions :
                           Contribute(v, amount) =>
                             Paid(v) - Due \in 0 .. (StakePart(v) + DsePart)
                      /\ \A amount \in Redemptions \cup {dse_supply} :
                           v \in DOMAIN lsu_map /\ Redeem(v, amount) =>
                             Paid(v) - Due \in -(Taken(v, amount) \div ONE + 1) .. StakePart(v)
    BY DEF Paid, Due
  <2>1. ASSUME NEW a \in Contributions, Contribute(v, a)
        PROVE  Paid(v) - Due \in 0 .. (StakePart(v) + DsePart)
    BY <2>1, Amounts, ContributeSound
  <2>2. ASSUME NEW a \in Redemptions \cup {dse_supply}, v \in DOMAIN lsu_map, Redeem(v, a)
        PROVE  Paid(v) - Due \in -(Taken(v, a) \div ONE + 1) .. StakePart(v)
    BY <2>2, Amounts, RedeemSound
  <2> QED BY <2>1, <2>2
<1> QED BY <1>1, StakesKnownHolds, PTL DEF Spec, FairExchange

\* No step leaves the units then outstanding with less than they were worth
\* before it, but for the last digit of the stake that a redemption takes.
THEOREM UnitValueKeptHolds == Spec => UnitValueKept
<1> DEFINE Act == /\ dse_supply' >= dse_supply => TotalValue' >= DMul(dse_supply', ValuePerUnit)
                  /\ \A v \in DOMAIN lsu_map, amount \in Redemptions \cup {dse_supply} :
                       Redeem(v, amount) =>
                         TotalValue' >= DMul(dse_supply', ValuePerUnit)
                                          - (Taken(v, amount) \div ONE + 2)
<1>1. StakingInv /\ [Next]_vars => [Act]_vars
  <2> SUFFICES ASSUME StakingInv, Next PROVE Act
    OBVIOUS
  <2>1. ASSUME NEW v \in DOMAIN lsu_map, NEW a \in Redemptions \cup {dse_supply}, Redeem(v, a)
        PROVE  TotalValue' >= DMul(dse_supply', ValuePerUnit) - (Taken(v, a) \div ONE + 2)
    BY <2>1, Amounts, RedeemSound
  <2>2. ASSUME dse_supply' >= dse_supply PROVE TotalValue' >= DMul(dse_supply', ValuePerUnit)
    <3>1. ASSUME NEW v \in Validators, NEW a \in Contributions, Contribute(v, a)
          PROVE  TotalValue' >= DMul(dse_supply', ValuePerUnit)
      BY <3>1, Amounts, ContributeSound
    <3>2. ASSUME NEW v \in Validators, NEW rate \in Rewards, Reward(v, rate)
          PROVE  TotalValue' >= DMul(dse_supply', ValuePerUnit)
      BY <3>2, Amounts, RewardSound
    <3>3. ASSUME NEW v \in DOMAIN lsu_map, NEW a \in Redemptions \cup {dse_supply}, Redeem(v, a)
          PROVE  TotalValue' >= DMul(dse_supply', ValuePerUnit)
      BY <2>2, <3>3, Amounts, RedeemSound
    <3> QED BY <3>1, <3>2, <3>3 DEF Next
  <2> QED BY <2>1, <2>2
<1> QED BY <1>1, StakesKnownHolds, PTL DEF Spec, UnitValueKept
=============================================================================
