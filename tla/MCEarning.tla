------------------------------ MODULE MCEarning ------------------------------
(***************************************************************************)
(* Instances of staking earning for TLC: one pool, of XRD, with the        *)
(* settings of MCLending.                                                  *)
(***************************************************************************)
EXTENDS EarningProperties

CONSTANT xrd

MCTokens == {xrd}

MCConfig ==
  [t \in MCTokens |->
     [unit |-> 1, share_unit |-> 1, model |-> "Default",
      insurance_ratio |-> 100, flashloan_fee_ratio |-> 50,
      ltv |-> 700, liquidation_threshold |-> 800, liquidation_bonus |-> 100]]

MCLiquidity == [t \in MCTokens |-> 20000]
MCPrices == [t \in MCTokens |-> {ONE}]

NoInputs == [a \in Arguments |-> {}]

\* Withdrawals and payments by others move the rates of the pool
\* between a redemption and its settlement.
EarningInputs ==
  [NoInputs EXCEPT !["withdraw"] = {5000},
                   !["repay"] = {1000}, !["epochs"] = {1}]
=============================================================================
