---------------------------- MODULE PoolRegistry ----------------------------
(***************************************************************************)
(* The manager's tables of pools (src/cdp.rs) when new_pool may be called  *)
(* again for a token that has a pool: pools and states, keyed by the       *)
(* token, then name the new component, while deposit_asset_map and         *)
(* collateral_vaults, keyed by the new component's dx, keep the old one's. *)
(*                                                                         *)
(* Components are numbered as they are made, and a number stands for the   *)
(* component and its dx.  CollateralDebtManager has all of the manager's   *)
(* methods over a fixed set of pools; here are those that go through a     *)
(* table in each of the possible ways, for variable loans at even prices.  *)
(***************************************************************************)
EXTENDS LendResourcePool, SequencesExt

CONSTANTS
  Tokens,
  Config,            \* settings that every pool of a token is made with
  FirstPools,        \* the tokens of the pools made at first, in order
  InitialLiquidity,  \* what each of these has been supplied with
  ValidatorApy,
  Markets,           \* pairs <<collateral, borrowed>> that are used
  Supplies, Withdrawals, Collaterals, Loans, Repayments, Releases,  \* amounts passed
  MaxPools, MaxCdps, MaxEpoch, MaxOps   \* bounds of a run

ASSUME RegistryAssumption ==
  /\ Config \in [Tokens -> PoolConfig]
  /\ FirstPools \in Seq(Tokens)
  /\ \A j, k \in DOMAIN FirstPools : FirstPools[j] = FirstPools[k] => j = k
  /\ {InitialLiquidity, ValidatorApy, MaxPools, MaxCdps, MaxEpoch, MaxOps} \subseteq Nat
  /\ Markets \subseteq Tokens \X Tokens
  /\ Supplies \cup Withdrawals \cup Collaterals \cup Loans \cup Repayments \cup Releases
       \subseteq Nat

VARIABLES
  component,           \* the LendResourcePool components, as they were made
  pools,               \* token -> its present component
  deposit_asset_map,   \* dx -> its token
  collateral_vaults,   \* dx -> what is in custody
  cdps,
  epoch, ops

vars == <<component, pools, deposit_asset_map, collateral_vaults, cdps, epoch, ops>>
tables == <<pools, deposit_asset_map>>

Init ==
  /\ component = [p \in DOMAIN FirstPools |-> NewPool(InitialLiquidity)]
  /\ pools = [t \in Range(FirstPools) |-> CHOOSE p \in DOMAIN FirstPools : FirstPools[p] = t]
  /\ deposit_asset_map = FirstPools
  /\ collateral_vaults = [p \in DOMAIN FirstPools |-> 0]
  /\ cdps = <<>>
  /\ epoch = 0
  /\ ops = 0

-----------------------------------------------------------------------------
Call == ops < MaxOps /\ ops' = ops + 1

Env(t) == [cfg |-> Config[t], now |-> epoch, validator_apy |-> ValidatorApy]

\* The component that a dx is redeemed from: its token's present one.
PoolOf(d) == pools[deposit_asset_map[d]]

FreeDx(d) == component[d].dx_supply - collateral_vaults[d]

\* new_pool
RegisterPool(t) ==
  /\ Call
  /\ Len(component) < MaxPools
  /\ component' = Append(component, NewPool(0))
  /\ pools' = [u \in DOMAIN pools \cup {t} |-> IF u = t THEN Len(component) + 1 ELSE pools[u]]
  /\ deposit_asset_map' = Append(deposit_asset_map, t)
  /\ collateral_vaults' = Append(collateral_vaults, 0)
  /\ UNCHANGED <<cdps, epoch>>

Supply(t, amount) ==
  LET p == pools[t]
  IN  /\ Call
      /\ Takeable(amount, Config[t].unit)
      /\ CanAddLiquidity(component[p], Env(t), amount)
      /\ component' = [component EXCEPT ![p] = AddLiquidity(@, Env(t), amount)]
      /\ UNCHANGED <<tables, collateral_vaults, cdps, epoch>>

\* remove_liquity asserts that the dx is its own.
CanRedeem(d, dx) ==
  PoolOf(d) = d /\ CanRemoveLiquidity(component[d], Env(deposit_asset_map[d]), dx)

Redeemed(d, dx) ==
  [component EXCEPT ![d] = RemoveLiquidity(@, Env(deposit_asset_map[d]), dx)]

Withdraw(d, dx) ==
  /\ Call
  /\ Takeable(dx, Config[deposit_asset_map[d]].share_unit) /\ dx <= FreeDx(d)
  /\ CanRedeem(d, dx)
  /\ component' = Redeemed(d, dx)
  /\ UNCHANGED <<tables, collateral_vaults, cdps, epoch>>

\* Mutant: the vault is opened anew for every deposit.
VaultReopened(vaults, d, dx) == [vaults EXCEPT ![d] = dx]

\* put_collateral_vault
InCustody(vaults, d, dx) == [vaults EXCEPT ![d] = @ + dx]

\* get_max_loan_amount values the dx by the present component.
MaxLoan(d, dx, b, removed) ==
  LET c == deposit_asset_map[d]
  IN  FloorTo(DMul(RedemptionValue(component[PoolOf(d)], Env(c), dx) - removed, Config[c].ltv),
              Config[b].unit)

BorrowVariable(d, b, dx, amount) ==
  LET c == deposit_asset_map[d]
      P == component[pools[b]]
  IN  /\ Call
      /\ Len(cdps) < MaxCdps
      /\ Takeable(dx, Config[c].share_unit) /\ dx <= FreeDx(d)
      /\ Config[c].ltv > 0 /\ amount <= MaxLoan(d, dx, b, 0)
      /\ CanBorrowVariable(P, Env(b), amount)
      /\ component' = [component EXCEPT ![pools[b]] = PoolBorrowVariable(@, Env(b), amount)]
      /\ collateral_vaults' = InCustody(collateral_vaults, d, dx)
      /\ cdps' = Append(cdps, [borrow_token |-> b, collateral_token |-> d,
                               normalized_borrow |-> SharesFor(P, Env(b), amount),
                               collateral_amount |-> dx])
      /\ UNCHANGED <<tables, epoch>>

\* Mutant: the CDP is cleared of all its shares by any payment.
Cleared(cdp, shares) == [cdp EXCEPT !.normalized_borrow = 0]

Repaid(cdp, shares) == [cdp EXCEPT !.normalized_borrow = @ - shares]

\* repay: to the present component of the token that was borrowed.
Repay(i, bucket) ==
  LET b      == cdps[i].borrow_token
      P      == component[pools[b]]
      shares == cdps[i].normalized_borrow
      paid   == VariablePayment(P, Env(b), bucket, shares, bucket)
  IN  /\ Call
      /\ CanRepayVariable(P, Env(b), bucket, shares, bucket)
      /\ component' = [component EXCEPT
                         ![pools[b]] = PoolRepayVariable(@, Env(b), bucket, shares, bucket)]
      /\ cdps' = [cdps EXCEPT ![i] = Repaid(@, SharesRepaid(P, Env(b), paid, shares))]
      /\ UNCHANGED <<tables, collateral_vaults, epoch>>

\* withdraw_collateral
WithdrawCollateral(i, amount) ==
  LET d    == cdps[i].collateral_token
      b    == cdps[i].borrow_token
      unit == Config[deposit_asset_map[d]].share_unit
      idx  == SupplyIndex(component[PoolOf(d)], Env(deposit_asset_map[d]))
      took == FloorTo(DDiv(amount, idx), unit)
  IN  /\ Call
      /\ Config[deposit_asset_map[d]].ltv > 0 /\ idx # 0
      /\ MaxLoan(d, cdps[i].collateral_amount, b, amount)
           >= DMul(cdps[i].normalized_borrow, LoanIndex(component[pools[b]], Env(b)))
      /\ Takeable(took, unit) /\ took <= collateral_vaults[d]
      /\ CanRedeem(d, took)
      /\ component' = Redeemed(d, took)
      /\ collateral_vaults' = [collateral_vaults EXCEPT ![d] = @ - took]
      /\ cdps' = [cdps EXCEPT ![i].collateral_amount = @ - CeilTo(DDiv(amount, idx), unit)]
      /\ UNCHANGED <<tables, epoch>>

Tick ==
  /\ epoch < MaxEpoch /\ epoch' = epoch + 1
  /\ UNCHANGED <<component, tables, collateral_vaults, cdps, ops>>

Next ==
  \/ \E t \in Tokens : RegisterPool(t)
  \/ \E t \in DOMAIN pools, amount \in Supplies : Supply(t, amount)
  \/ \E d \in DOMAIN component, dx \in Withdrawals : Withdraw(d, dx)
  \/ \E d \in DOMAIN component, b \in DOMAIN pools, dx \in Collaterals, amount \in Loans :
        <<deposit_asset_map[d], b>> \in Markets /\ BorrowVariable(d, b, dx, amount)
  \/ \E i \in DOMAIN cdps, bucket \in Repayments : Repay(i, bucket)
  \/ \E i \in DOMAIN cdps, amount \in Releases : WithdrawCollateral(i, amount)
  \/ Tick

Spec == Init /\ [][Next]_vars
=============================================================================
