------------------------------ MODULE Decimals ------------------------------
(***************************************************************************)
(* Scrypto's fixed-point Decimal and the arithmetic of src/utils.rs.       *)
(*                                                                         *)
(* A Decimal is the integer number of its smallest parts: the value 1 is   *)
(* the integer ONE (10^18 on the ledger, a small power of ten in a model). *)
(* Products and quotients drop what lies below the last digit, towards     *)
(* zero, as the library's checked_mul and checked_div do.  The range of    *)
(* the 192-bit representation is not modelled: leaving it would abort the  *)
(* transaction, and no amount of the models comes near it.                 *)
(*                                                                         *)
(* A resource holds multiples of its unit only: unit is 1 for a resource   *)
(* of 18 decimals and larger for one of fewer.                             *)
(***************************************************************************)
EXTENDS Integers

CONSTANTS
  ONE,            \* Decimal::ONE
  EPOCH_OF_YEAR   \* epochs in a year, an integer (105120 on the ledger)

ASSUME DecimalsAssumption == /\ ONE \in Nat \ {0}
                             /\ EPOCH_OF_YEAR \in Nat \ {0}

-----------------------------------------------------------------------------
\* a / b for b > 0, dropping the fraction towards zero.
Trunc(a, b) == IF a >= 0 THEN a \div b ELSE -((-a) \div b)

DMul(a, b) == Trunc(a * b, ONE)

\* checked_div; b = 0 panics, and the callers' guards exclude it.
DDiv(a, b) == IF b > 0 THEN Trunc(a * ONE, b) ELSE Trunc((-a) * ONE, -b)

\* checked_powi, by squaring: Powi(b, n) for n >= 0.  PowiStep(g, n) is one
\* level of it, g[k] being the k-th power; it is apart from PowiFcn so that
\* the proofs can speak of a step over any g.
PowiStep(g, n) ==
  [b \in Int |-> IF n = 0 THEN ONE
                 ELSE IF n = 1 THEN b
                 ELSE IF n % 2 = 0 THEN g[n \div 2][DMul(b, b)]
                 ELSE DMul(b, g[(n - 1) \div 2][DMul(b, b)])]

PowiFcn[n \in Nat] == PowiStep(PowiFcn, n)

Powi(b, n) == PowiFcn[n][b]

-----------------------------------------------------------------------------
\* Rounding to the unit of a resource: towards minus and plus infinity.
FloorUp(x, unit) == x + ((-x) % unit)   \* mutant of FloorTo: the other mode
FloorTo(x, unit) == x - (x % unit)
CeilTo(x, unit)  == -FloorTo(-x, unit)

\* Bucket::take and Vault::take: no negative amount, and none finer than
\* the unit, can be taken out.
Takeable(x, unit) == x >= 0 /\ x % unit = 0

AtMost(a, b) == IF a <= b THEN a ELSE b

PercentMul(a, percent) == Trunc(DMul(a, percent), 100)

\* amount * (1 + apy * delta / EPOCH_OF_YEAR)
LinearRate(apy, delta) == Trunc(apy * delta, EPOCH_OF_YEAR)
LinearInterest(amount, apy, delta) == DMul(amount, ONE + LinearRate(apy, delta))

\* amount * (1 + apy / EPOCH_OF_YEAR)^delta; the mutant discounts the amount.
CompoundRate(apy, delta) == Powi(ONE + Trunc(apy, EPOCH_OF_YEAR), delta)
DiscountedAmount(amount, apy, delta) == DDiv(amount, CompoundRate(apy, delta))
CompoundInterest(amount, apy, delta) == DMul(amount, CompoundRate(apy, delta))

\* What grows to amount in delta epochs.
CalcPrincipal(amount, apy, delta) == DDiv(amount, CompoundRate(apy, delta))

\* The mean of two rates weighted by their amounts, whose sum is not 0, and as
\* a mutant by nothing.
MeanRate(amount, rate, newAmount, newRate) == DDiv(rate + newRate, 2 * ONE)

WeightRate(amount, rate, newAmount, newRate) ==
  DDiv(DMul(amount, rate) + DMul(newAmount, newRate), amount + newAmount)
=============================================================================
