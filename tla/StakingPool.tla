----------------------------- MODULE StakingPool -----------------------------
(***************************************************************************)
(* The staking pool (src/pools/staking.rs) behind join and redeem of the   *)
(* staking earning component: XRD is staked with a validator of the        *)
(* caller's choice, the validator's stake units stay in the pool, and the  *)
(* pool's own units (DSE) are a share of all of them.                      *)
(*                                                                         *)
(* A validator (outside src) mints and burns its stake units at what they  *)
(* are worth and adds its rewards to what is staked.  XRD and both units   *)
(* have 18 decimals: no amount is rounded to a coarser unit.               *)
(***************************************************************************)
EXTENDS Decimals, FiniteSetsExt

CONSTANTS
  Validators,
  FirstValidator,   \* what others have staked with each, and their stake units
  Contributions,    \* XRD that join may bring
  Redemptions,      \* DSE that redeem may bring
  Rewards,          \* what a validator may earn, per thousand of what is staked
  MaxOps            \* bound of a run

Validator == [units: Nat, staked: Nat]

ASSUME StakingAssumption ==
  /\ IsFiniteSet(Validators)
  /\ FirstValidator \in [Validators -> Validator]
  /\ \A v \in Validators : FirstValidator[v].units = 0 <=> FirstValidator[v].staked = 0
  /\ Contributions \cup Redemptions \cup Rewards \subseteq Nat \ {0}
  /\ MaxOps \in Nat

VARIABLES
  validator,    \* the validators
  lsu_map,      \* validator -> the pool's stake units of it, for those it has a vault of
  dse_supply,
  ops           \* calls made and rewards paid

vars == <<validator, lsu_map, dse_supply, ops>>

Init ==
  /\ validator = FirstValidator
  /\ lsu_map = [v \in {} |-> 0]
  /\ dse_supply = 0
  /\ ops = 0

Step == ops < MaxOps /\ ops' = ops + 1

-----------------------------------------------------------------------------
(* The validators *)

UnitsFor(x, amount) ==
  IF x.staked = 0 THEN amount ELSE (amount * x.units) \div x.staked

ValueOf(x, units) == IF x.units = 0 THEN 0 ELSE (units * x.staked) \div x.units

Staked(x, amount) ==
  [units |-> x.units + UnitsFor(x, amount), staked |-> x.staked + amount]

Unstaked(x, units) ==
  [units |-> x.units - units, staked |-> x.staked - ValueOf(x, units)]

-----------------------------------------------------------------------------
(* get_values *)

Amount(lsu, v) == IF v \in DOMAIN lsu THEN lsu[v] ELSE 0

SumCurrentStaked(vals, lsu) ==
  MapThenSumSet(LAMBDA v : ValueOf(vals[v], lsu[v]), DOMAIN lsu)

TotalValue == SumCurrentStaked(validator, lsu_map)

ValuePerUnit == IF dse_supply = 0 THEN ONE ELSE DDiv(TotalValue, dse_supply)

-----------------------------------------------------------------------------
\* contribute: units for what was staked is worth, at the value of a unit
\* before it was.
\* (mutant: the pool's total is read when the stake is in already)
MintedAfterwards(v, amount) ==
  LET after == [validator EXCEPT ![v] = Staked(@, amount)]
      lsu   == UnitsFor(validator[v], amount)
      held  == [w \in DOMAIN lsu_map \cup {v} |->
                  Amount(lsu_map, w) + (IF w = v THEN lsu ELSE 0)]
      value == IF dse_supply = 0 THEN ONE
               ELSE DDiv(SumCurrentStaked(after, held), dse_supply)
  IN  DDiv(ValueOf(after[v], lsu), value)

Minted(v, amount) ==
  DDiv(ValueOf(Staked(validator[v], amount), UnitsFor(validator[v], amount)), ValuePerUnit)

Contribute(v, amount) ==
  LET lsu == UnitsFor(validator[v], amount)
  IN  /\ Step
      /\ lsu # 0 /\ ValuePerUnit # 0
      /\ validator' = [validator EXCEPT ![v] = Staked(@, amount)]
      /\ lsu_map' = [w \in DOMAIN lsu_map \cup {v} |->
                       Amount(lsu_map, w) + (IF w = v THEN lsu ELSE 0)]
      /\ dse_supply' = dse_supply + Minted(v, amount)

\* redeem: stake units of one validator for what the units are worth, which
\* must be covered by the pool's stake units of that validator.
RedeemValue(amount) == DMul(amount, ValuePerUnit)

Covered(v, amount) == RedeemValue(amount) <= ValueOf(validator[v], lsu_map[v])

LsuIndex(v) == DDiv(ValueOf(validator[v], lsu_map[v]), lsu_map[v])

\* The mutant takes stake units one for one.
TakenOneForOne(v, amount) == amount
Taken(v, amount) == DDiv(RedeemValue(amount), LsuIndex(v))

Redeem(v, amount) ==
  /\ Step
  /\ amount <= dse_supply
  /\ Covered(v, amount)
  /\ lsu_map[v] # 0 /\ LsuIndex(v) # 0
  /\ Taken(v, amount) <= lsu_map[v]
  /\ validator' = [validator EXCEPT ![v] = Unstaked(@, Taken(v, amount))]
  /\ lsu_map' = [lsu_map EXCEPT ![v] = @ - Taken(v, amount)]
  /\ dse_supply' = dse_supply - amount

\* A validator adds what it earned in an epoch to what is staked with it.
Reward(v, rate) ==
  /\ Step
  /\ validator' = [validator EXCEPT ![v].staked = @ + (@ * rate) \div 1000]
  /\ UNCHANGED <<lsu_map, dse_supply>>

Next ==
  \/ \E v \in Validators :
        \/ \E amount \in Contributions : Contribute(v, amount)
        \/ \E rate \in Rewards : Reward(v, rate)
  \/ \E v \in DOMAIN lsu_map, amount \in Redemptions \cup {dse_supply} : Redeem(v, amount)

Spec == Init /\ [][Next]_vars
=============================================================================
