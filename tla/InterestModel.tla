---------------------------- MODULE InterestModel ----------------------------
(***************************************************************************)
(* The interest model component (src/interest.rs): the variable rate as a  *)
(* function of how much of the supply is lent out, and the stable rate,    *)
(* which is the variable rate but never below what the validators pay.     *)
(***************************************************************************)
EXTENDS Decimals

CONSTANTS DefPrimary, DefQuadratic, StableCoinPrimary, StableCoinQuadratic

ASSUME InterestModelAssumption ==
  {DefPrimary, DefQuadratic, StableCoinPrimary, StableCoinQuadratic} \subseteq Nat

Models == {"Default", "StableCoin"}

-----------------------------------------------------------------------------
DefaultRate(ratio) ==
  IF ratio > ONE
  THEN DefPrimary + DefQuadratic
  ELSE DMul(ratio, DefPrimary) + DMul(Powi(ratio, 2), DefQuadratic)

StableCoinRate(ratio) ==
  LET r2 == IF ratio > ONE THEN ONE ELSE Powi(ratio, 2)
  IN  DMul(StableCoinPrimary, Powi(r2, 2)) + DMul(StableCoinQuadratic, Powi(r2, 4))

VariableRate(model, ratio) ==
  IF model = "Default" THEN DefaultRate(ratio) ELSE StableCoinRate(ratio)

StableRate(variableRate, validatorApy) ==
  IF variableRate > validatorApy THEN variableRate ELSE validatorApy
=============================================================================
