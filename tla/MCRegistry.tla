------------------------------ MODULE MCRegistry ------------------------------
(***************************************************************************)
(* The tables of pools for TLC: two tokens with a pool each, of which the  *)
(* runs replace any.                                                       *)
(***************************************************************************)
EXTENDS RegistryProperties

CONSTANTS xrd, usdt

MCConfig ==
  [t \in Tokens |->
     [unit |-> 1, share_unit |-> 10,
      model |-> IF t = xrd THEN "Default" ELSE "StableCoin",
      insurance_ratio |-> 100, flashloan_fee_ratio |-> 50,
      ltv |-> 700, liquidation_threshold |-> 800, liquidation_bonus |-> 100]]

MCFirstPools == <<xrd, usdt>>
MCMarkets == {<<usdt, xrd>>}
=============================================================================
