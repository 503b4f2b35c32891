------------------------- MODULE RegistryProperties -------------------------
(***************************************************************************)
(* What the manager's books must keep through the replacement of a pool.   *)
(***************************************************************************)
EXTENDS PoolRegistry, Sums

\* What the CDPs say is pledged of dx d, CDP by CDP.
PledgedOf(d) ==
  [i \in 1..Len(cdps) |-> IF cdps[i].collateral_token = d THEN cdps[i].collateral_amount ELSE 0]

\* Custody (put_collateral_vault, cdp.rs:734) holds, dx by dx, at least what
\* the CDPs say and no more than there is, also of the dx of a pool that has
\* been replaced, which is not mixed with the new pool's.
CustodyKept ==
  \A d \in DOMAIN component :
    /\ Sum(PledgedOf(d)) <= collateral_vaults[d]
    /\ collateral_vaults[d] <= component[d].dx_supply

\* The loan shares of token t, pool by pool and CDP by CDP.
SharesLent(t) ==
  [d \in 1..Len(component) |->
     IF deposit_asset_map[d] = t THEN component[d].variable_loan_share_quantity ELSE 0]
SharesOwed(t) ==
  [i \in 1..Len(cdps) |-> IF cdps[i].borrow_token = t THEN cdps[i].normalized_borrow ELSE 0]

\* A loan of a pool that has been replaced is repaid to the new pool (repay,
\* cdp.rs:477), which never lent it; still all pools of a token together have
\* the loan shares of its CDPs, so that no debt is lost between two pools.
LoansKept == \A t \in Tokens : Sum(SharesLent(t)) = Sum(SharesOwed(t))

=============================================================================
