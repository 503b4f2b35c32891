-------------------------- MODULE StakingProperties --------------------------
(***************************************************************************)
(* What a unit of the staking pool promises, to the last digit.            *)
(***************************************************************************)
EXTENDS StakingPool

\* No less than what the smallest part of a stake unit of v, and of a unit of the
\* pool, is worth.
StakePart(v) == ValueOf(validator[v], 1) + 1
DsePart == ValuePerUnit \div ONE + 1

\* Who joins gets units, and who redeems gets a claim, for what they bring at
\* the value that a unit has just before, whichever validators' units the pool
\* holds by then, and whichever validator they name.  Who joins gains nothing
\* and loses no more than a smallest part of both units; who redeems loses no
\* more than one of stake units, and gains no more than the last digit of the
\* value that these are taken at.
FairExchange ==
  [][\A v \in Validators :
       LET paid == validator'[v].staked - validator[v].staked
           due  == DMul(dse_supply' - dse_supply, ValuePerUnit)
       IN  /\ \A amount \in Contributions :
                Contribute(v, amount) => paid - due \in 0 .. (StakePart(v) + DsePart)
           /\ \A amount \in Redemptions \cup {dse_supply} :
                v \in DOMAIN lsu_map /\ Redeem(v, amount) =>
                  paid - due \in -(Taken(v, amount) \div ONE + 1) .. StakePart(v)]_vars

\* The units of those who do nothing lose no value: what the pool holds after a
\* step is at least what the units then outstanding were worth before it, but
\* for what a redemption gains by that last digit.
UnitValueKept ==
  [][/\ dse_supply' >= dse_supply => TotalValue' >= DMul(dse_supply', ValuePerUnit)
     /\ \A v \in DOMAIN lsu_map, amount \in Redemptions \cup {dse_supply} :
          Redeem(v, amount) =>
            TotalValue' >= DMul(dse_supply', ValuePerUnit) - (Taken(v, amount) \div ONE + 2)]_vars
=============================================================================
