------------------------------ MODULE MCStaking ------------------------------
(***************************************************************************)
(* The staking pool for TLC: a validator whose stake units have gained     *)
(* value already, and a new one.                                           *)
(***************************************************************************)
EXTENDS StakingProperties

CONSTANTS v1, v2

MCValidators ==
  [v \in Validators |-> IF v = v1 THEN [units |-> 3000, staked |-> 4000]
                        ELSE [units |-> 0, staked |-> 0]]
=============================================================================
