------------------------------ MODULE MCLending ------------------------------
(***************************************************************************)
(* Instances of the lending core for TLC.  ONE is 1000 and a year has four *)
(* epochs, so that the interest of an epoch shows in every amount.  XRD    *)
(* has the smallest unit, USDT one ten times as large.                     *)
(***************************************************************************)
EXTENDS LendingProperties

CONSTANTS xrd, usdt

MCTokens == {xrd, usdt}

\* As deployed, where every dx has the finest unit.
MCConfig ==
  [t \in MCTokens |->
     [unit |-> IF t = xrd THEN 1 ELSE 10, share_unit |-> 1,
      model |-> IF t = xrd THEN "Default" ELSE "StableCoin",
      insurance_ratio |-> 100, flashloan_fee_ratio |-> 50,
      ltv |-> 700, liquidation_threshold |-> 800, liquidation_bonus |-> 100]]

\* With a dx of XRD that is coarser than XRD.
CoarseDxConfig == [MCConfig EXCEPT ![xrd].share_unit = 10]

MCLiquidity == [t \in MCTokens |-> 20000]

NoInputs == [a \in Arguments |-> {}]

-----------------------------------------------------------------------------
\* Variable loans of USDT against XRD and against itself.  The price of USDT
\* rises until the larger loan owes more than its collateral is worth, and the
\* smaller one is unhealthy but covered.  Other calls run between the two ends
\* of flash loans.
VariableMarkets == {<<xrd, usdt>>, <<usdt, usdt>>}

VariablePrices ==
  [t \in MCTokens |-> IF t = xrd THEN {ONE} ELSE {ONE \div 2, (5 * ONE) \div 2}]

VariableInputs ==
  [NoInputs EXCEPT !["supply"] = {7000}, !["withdraw"] = {3010},
                   !["collateral"] = {9990}, !["addition_dx"] = {2000},
                   !["variable"] = {3333, 12000},
                   !["withdraw_collateral"] = {1005}, !["repay"] = {1000, 20000},
                   !["cover"] = {0, 1000}, !["close_factor"] = {100 * ONE},
                   !["flashloan"] = {5005}, !["epochs"] = {1}]

-----------------------------------------------------------------------------
\* Stable loans next to a variable one: repaid in less than the interest,
\* exactly it (60 is what 3000 owe after an epoch), in part and in full;
\* extended after interest has accrued; liquidated when the collateral is worth
\* less than the interest.  The claim of a staking loan covers what 5000 can
\* grow to in the epochs of the run.
StableMarkets == {<<xrd, usdt>>, <<usdt, xrd>>}

StablePrices == [t \in MCTokens |-> IF t = xrd THEN {ONE} ELSE {2 * ONE, ONE \div 200}]

StableInputs ==
  [NoInputs EXCEPT !["collateral"] = {10000}, !["stable"] = {3000},
                   !["variable"] = {3000}, !["extend"] = {200},
                   !["withdraw_collateral"] = {1005}, !["addition"] = {1000},
                   !["repay"] = {60, 1000, 20000}, !["cover"] = {0},
                   !["claim"] = {9000}, !["principal"] = {5000},
                   !["insurance"] = {20}, !["epochs"] = {1}]

-----------------------------------------------------------------------------
\* The interest of a variable loan, and the insurance it leaves.
InsuranceInputs ==
  [NoInputs EXCEPT !["collateral"] = {10000}, !["variable"] = {3333, 12000},
                   !["repay"] = {20000}, !["insurance"] = {50, 105},
                   !["epochs"] = {1}]
=============================================================================
