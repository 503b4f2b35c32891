----------------------- MODULE CollateralDebtManager -----------------------
(***************************************************************************)
(* The collateral debt manager (src/cdp.rs) with its lending pools, as the *)
(* protocol component (src/protocol.rs) drives it: supply and withdraw,    *)
(* variable and stable loans against deposited dx, repayment, liquidation, *)
(* flash loans and the admin's methods.                                    *)
(*                                                                         *)
(* One action is one method call that commits; what a failed assert or an  *)
(* aborting library call excludes is a guard.  Between the two calls of a  *)
(* flash loan (flashloans # {}) the other calls of the same transaction    *)
(* may run, but no time passes.  Wallets are outside: they hold as many    *)
(* tokens as a call needs, and the dx that is not in custody.              *)
(***************************************************************************)
EXTENDS LendResourcePool, Sequences

CONSTANTS
  Tokens,            \* tokens with a pool
  XRD,               \* the token that prices are quoted in
  NoDx,              \* what secures a staking CDP: a claim on XRD, no pool's dx
  Config,            \* settings of each pool
  InitialLiquidity,  \* deposits made before the first loan
  ValidatorApy,      \* the validator keeper's answer
  Prices,            \* the prices in XRD that the oracle's key may sign
  Markets,           \* pairs <<collateral, borrowed>> that are used
  Inputs,            \* the amounts that callers pass, by argument
  MaxEpoch, MaxCdps, MaxFlashloans, MaxOps   \* bounds of a run

Arguments == {"supply", "withdraw", "collateral", "variable", "stable", "extend",
              "withdraw_collateral", "addition_dx", "addition", "repay", "cover",
              "flashloan", "insurance", "close_factor", "claim", "principal", "epochs"}

ASSUME ManagerAssumption ==
  /\ XRD \in Tokens /\ NoDx \notin Tokens
  /\ Config \in [Tokens -> PoolConfig]
  /\ InitialLiquidity \in [Tokens -> Nat]
  /\ ValidatorApy \in Nat
  /\ Prices \in [Tokens -> SUBSET (Nat \ {0})]
  /\ Prices[XRD] = {ONE} /\ \A t \in Tokens : Prices[t] # {}
  /\ Markets \subseteq Tokens \X Tokens
  /\ <<XRD, XRD>> \notin Markets     \* the oracle has no quote of XRD in XRD
  /\ Inputs \in [Arguments -> SUBSET Nat]
  /\ {MaxEpoch, MaxCdps, MaxFlashloans, MaxOps} \subseteq Nat

VARIABLES
  pools,                 \* token -> its LendResourcePool
  cdps,                  \* CDP id -> CollateralDebtPosition; the id counter is Len(cdps)
  cdp_vault,             \* ids of the staking CDPs, which the manager itself holds
  collateral_vaults,     \* token -> its dx that is in custody
  close_factor_percent,
  flashloans,            \* outstanding flash loan NFTs
  transient_id_counter,
  epoch,                 \* Runtime::current_epoch
  price,                 \* token -> the signed price in XRD that calls show
  ops                    \* calls made, to bound a run

vars == <<pools, cdps, cdp_vault, collateral_vaults, close_factor_percent, flashloans,
          transient_id_counter, epoch, price, ops>>

\* collateral_token is the token behind the dx that was deposited.
CollateralDebtPosition ==
  [borrow_token: Tokens, collateral_token: Tokens \cup {NoDx}, is_stable: BOOLEAN,
   total_borrow: Int, total_repay: Int, normalized_borrow: Int,
   collateral_amount: Int, borrow_amount: Int,
   last_update_epoch: Nat, stable_rate: Int]

FlashLoanData == [id: Nat, res_addr: Tokens, amount: Nat, fee: Nat]

Init ==
  /\ pools = [t \in Tokens |-> NewPool(InitialLiquidity[t])]
  /\ cdps = <<>>
  /\ cdp_vault = {}
  /\ collateral_vaults = [t \in Tokens |-> 0]
  /\ close_factor_percent = 50 * ONE
  /\ flashloans = {}
  /\ transient_id_counter = 0
  /\ epoch = 0
  /\ price \in [Tokens -> UNION {Prices[t] : t \in Tokens}]
  /\ \A t \in Tokens : price[t] \in Prices[t]
  /\ ops = 0

-----------------------------------------------------------------------------
Ids == 1..Len(cdps)

\* CDPs secured by dx, held by their owners; the others are staking CDPs, and
\* those of them that are not in the manager's vault are burned.
Pledged == {i \in Ids : cdps[i].collateral_token # NoDx}

Live == Pledged \cup cdp_vault

Env(t) == [cfg |-> Config[t], now |-> epoch, validator_apy |-> ValidatorApy]

Unit(t) == Config[t].unit

\* dx of t in wallets.
FreeDx(t) == pools[t].dx_supply - collateral_vaults[t]

Call == ops < MaxOps /\ ops' = ops + 1

OnlyPools == UNCHANGED <<cdps, cdp_vault, collateral_vaults, close_factor_percent, flashloans,
                         transient_id_counter, epoch, price>>
PoolsAndCdps == UNCHANGED <<cdp_vault, close_factor_percent, flashloans, transient_id_counter,
                            epoch, price>>

\* The prices a call can show for t: one its key signed and the oracle accepts
\* (PriceOracle), the same for all until PriceMove, or none that verifies.
Quotes(t) == IF t = XRD THEN {ONE} ELSE {price[t], 0}

\* get_max_loan_amount: what dx of c, less an amount of c about to be
\* removed, can borrow of b, when both prices are positive.
CanLend(c) == Config[c].ltv > 0

\* Mutant: the collateral is valued before the removal.
MaxLoanBeforeRemoval(c, dx, b, removed) ==
  FloorTo(DDiv(DMul(DMul(price[c], RedemptionValue(pools[c], Env(c), dx)), Config[c].ltv),
               price[b]), Unit(b))

MaxLoan(c, dx, b, removed) ==
  LET amount == RedemptionValue(pools[c], Env(c), dx) - removed
  IN  FloorTo(DDiv(DMul(DMul(price[c], amount), Config[c].ltv), price[b]), Unit(b))

\* new_cdp
NewCdp(c, b, amount, dx, shares, rate, stable) ==
  [borrow_token |-> b, collateral_token |-> c, is_stable |-> stable,
   total_borrow |-> amount, total_repay |-> 0, normalized_borrow |-> shares,
   collateral_amount |-> dx, borrow_amount |-> amount,
   last_update_epoch |-> IF stable THEN epoch ELSE 0, stable_rate |-> rate]

\* Mutant: the amount paid is taken off the loan shares.
AmountOffShares(cdp, paid, shares) ==
  [cdp EXCEPT !.total_repay = @ + paid, !.normalized_borrow = @ - paid]

\* update_cdp_after_repay, of a variable and of a stable loan.
AfterVariableRepay(cdp, paid, shares) ==
  [cdp EXCEPT !.total_repay = @ + paid, !.normalized_borrow = @ - shares]

\* Mutant: the interest paid is taken off the principal too.
PaymentOffPrincipal(cdp, paid, borrow) ==
  [cdp EXCEPT !.total_repay = @ + paid, !.borrow_amount = @ - paid,
              !.last_update_epoch = epoch]

AfterStableRepay(cdp, paid, borrow) ==
  IF borrow = 0 THEN [cdp EXCEPT !.total_repay = @ + paid]
  ELSE [cdp EXCEPT !.total_repay = @ + paid,
                   !.borrow_amount = @ - borrow,
                   !.stable_rate = IF cdp.borrow_amount = borrow THEN 0 ELSE @,
                   !.last_update_epoch = epoch]

CollateralKept(cdp, dx) == cdp   \* mutant: the position is not updated
Release(cdp, dx) == [cdp EXCEPT !.collateral_amount = @ - dx]

-----------------------------------------------------------------------------
(* Deposits *)

Supply(t, amount) ==
  /\ Call
  /\ Takeable(amount, Unit(t))
  /\ CanAddLiquidity(pools[t], Env(t), amount)
  /\ pools' = [pools EXCEPT ![t] = AddLiquidity(@, Env(t), amount)]
  /\ OnlyPools

Withdraw(t, dx) ==
  /\ Call
  /\ Takeable(dx, Config[t].share_unit)
  /\ dx <= FreeDx(t)
  /\ CanRemoveLiquidity(pools[t], Env(t), dx)
  /\ pools' = [pools EXCEPT ![t] = RemoveLiquidity(@, Env(t), dx)]
  /\ OnlyPools

-----------------------------------------------------------------------------
(* Loans *)

\* borrow_variable: dx of c is taken into custody for a new CDP.
BorrowVariable(c, b, dx, amount) ==
  /\ Call
  /\ Len(cdps) < MaxCdps
  /\ Takeable(dx, Config[c].share_unit) /\ dx <= FreeDx(c)
  /\ CanLend(c) /\ amount <= MaxLoan(c, dx, b, 0)
  /\ CanBorrowVariable(pools[b], Env(b), amount)
  /\ pools' = [pools EXCEPT ![b] = PoolBorrowVariable(@, Env(b), amount)]
  /\ collateral_vaults' = [collateral_vaults EXCEPT ![c] = @ + dx]
  /\ cdps' = Append(cdps, NewCdp(c, b, amount, dx,
                                 SharesFor(pools[b], Env(b), amount), 0, FALSE))
  /\ PoolsAndCdps

\* borrow_stable: at the stable rate that holds with the loan counted in.
BorrowStable(c, b, dx, amount) ==
  LET rate == InterestRate(pools[b], Env(b), amount).stable
  IN  /\ Call
      /\ Len(cdps) < MaxCdps
      /\ Takeable(dx, Config[c].share_unit) /\ dx <= FreeDx(c)
      /\ CanLend(c) /\ amount <= MaxLoan(c, dx, b, 0)
      /\ CanBorrowStable(pools[b], amount)
      /\ pools' = [pools EXCEPT ![b] = PoolBorrowStable(@, Env(b), amount, rate)]
      /\ collateral_vaults' = [collateral_vaults EXCEPT ![c] = @ + dx]
      /\ cdps' = Append(cdps, NewCdp(c, b, amount, dx, 0, rate, TRUE))
      /\ PoolsAndCdps

\* extend_borrow of a variable CDP.
ExtendVariable(i, amount) ==
  LET cdp == cdps[i]
      b   == cdp.borrow_token
      c   == cdp.collateral_token
  IN  /\ Call
      /\ ~cdp.is_stable
      /\ CanLend(c)
      /\ DMul(cdp.normalized_borrow, LoanIndex(pools[b], Env(b))) + amount
           < MaxLoan(c, cdp.collateral_amount, b, 0)
      /\ CanBorrowVariable(pools[b], Env(b), amount)
      /\ pools' = [pools EXCEPT ![b] = PoolBorrowVariable(@, Env(b), amount)]
      /\ cdps' = [cdps EXCEPT ![i].total_borrow = @ + amount,
                              ![i].borrow_amount = @ + amount,
                              ![i].normalized_borrow =
                                   @ + SharesFor(pools[b], Env(b), amount)]
      /\ UNCHANGED collateral_vaults /\ PoolsAndCdps

\* extend_borrow of a stable CDP: its interest so far becomes principal.
ExtendStable(i, amount) ==
  LET cdp      == cdps[i]
      b        == cdp.borrow_token
      c        == cdp.collateral_token
      interest == StableInterest(Env(b), cdp.borrow_amount, cdp.stable_rate,
                                 cdp.last_update_epoch)
      rate     == InterestRate(pools[b], Env(b), amount).stable
  IN  /\ Call
      /\ cdp.is_stable
      /\ CanLend(c)
      /\ cdp.borrow_amount + interest + amount
           < MaxLoan(c, cdp.collateral_amount, b, 0)
      /\ CanBorrowStable(pools[b], amount)
      /\ cdp.borrow_amount + interest + amount # 0
      /\ pools' = [pools EXCEPT ![b] = PoolBorrowStable(@, Env(b), amount, rate)]
      /\ cdps' = [cdps EXCEPT ![i].total_borrow = @ + amount,
                              ![i].borrow_amount = @ + amount + interest,
                              ![i].stable_rate =
                                   WeightRate(cdp.borrow_amount + interest, @, amount, rate),
                              ![i].last_update_epoch = epoch]
      /\ UNCHANGED collateral_vaults /\ PoolsAndCdps

-----------------------------------------------------------------------------
(* Collateral *)

\* withdraw_collateral: an amount of the underlying token leaves through the
\* pool; what is borrowed is counted from the loan shares alone.
WithdrawCollateral(i, amount) ==
  LET cdp   == cdps[i]
      b     == cdp.borrow_token
      c     == cdp.collateral_token
      index == SupplyIndex(pools[c], Env(c))
      taken == FloorTo(DDiv(amount, index), Config[c].share_unit)
      dx    == CeilTo(DDiv(amount, index), Config[c].share_unit)
  IN  /\ Call
      /\ CanLend(c)
      /\ MaxLoan(c, cdp.collateral_amount, b, amount)
           >= DMul(cdp.normalized_borrow, LoanIndex(pools[b], Env(b)))
      /\ index # 0
      /\ Takeable(taken, Config[c].share_unit) /\ taken <= collateral_vaults[c]
      /\ CanRemoveLiquidity(pools[c], Env(c), taken)
      /\ pools' = [pools EXCEPT ![c] = RemoveLiquidity(@, Env(c), taken)]
      /\ collateral_vaults' = [collateral_vaults EXCEPT ![c] = @ - taken]
      /\ cdps' = [cdps EXCEPT ![i] = Release(@, dx)]
      /\ PoolsAndCdps

\* update_cdp_data after more collateral: the rate of a stable CDP is set to
\* the rate passed for variable ones.
WithCollateral(cdp, dx) ==
  IF cdp.is_stable
  THEN [cdp EXCEPT !.collateral_amount = @ + dx, !.stable_rate = 0,
                   !.last_update_epoch = epoch]
  ELSE [cdp EXCEPT !.collateral_amount = @ + dx]

\* addition_collateral by anyone, in dx ...
AddCollateralDx(i, dx) ==
  LET c == cdps[i].collateral_token
  IN  /\ Call
      /\ Takeable(dx, Config[c].share_unit) /\ dx <= FreeDx(c)
      /\ collateral_vaults' = [collateral_vaults EXCEPT ![c] = @ + dx]
      /\ cdps' = [cdps EXCEPT ![i] = WithCollateral(@, dx)]
      /\ UNCHANGED pools /\ PoolsAndCdps

\* ... or in the underlying token, which is supplied to the pool first.
AddCollateral(i, amount) ==
  LET c  == cdps[i].collateral_token
      dx == MintedDx(pools[c], Env(c), amount)
  IN  /\ Call
      /\ Takeable(amount, Unit(c))
      /\ CanAddLiquidity(pools[c], Env(c), amount)
      /\ pools' = [pools EXCEPT ![c] = AddLiquidity(@, Env(c), amount)]
      /\ collateral_vaults' = [collateral_vaults EXCEPT ![c] = @ + dx]
      /\ cdps' = [cdps EXCEPT ![i] = WithCollateral(@, dx)]
      /\ PoolsAndCdps

-----------------------------------------------------------------------------
(* Repayment and liquidation *)

\* The pool's side and the CDP's side of repaying CDP i from a bucket, at
\* most limit (repay_variable_to_pool, repay_stable_to_pool).
Payment(i, bucket, limit) ==
  LET cdp == cdps[i]
      b   == cdp.borrow_token
  IN  IF cdp.is_stable
      THEN StablePayment(Env(b), bucket, cdp.borrow_amount, cdp.stable_rate,
                         cdp.last_update_epoch, limit)
      ELSE VariablePayment(pools[b], Env(b), bucket, cdp.normalized_borrow, limit)

CanRepay(i, bucket, limit) ==
  LET cdp == cdps[i]
      b   == cdp.borrow_token
  IN  IF cdp.is_stable
      THEN CanRepayStable(Env(b), bucket, cdp.borrow_amount, cdp.stable_rate,
                          cdp.last_update_epoch, limit)
      ELSE CanRepayVariable(pools[b], Env(b), bucket, cdp.normalized_borrow, limit)

PoolRepaid(i, bucket, limit) ==
  LET cdp == cdps[i]
      b   == cdp.borrow_token
  IN  IF cdp.is_stable
      THEN PoolRepayStable(pools[b], Env(b), bucket, cdp.borrow_amount,
                           cdp.stable_rate, cdp.last_update_epoch, limit)
      ELSE PoolRepayVariable(pools[b], Env(b), bucket, cdp.normalized_borrow, limit)

CdpRepaid(i, bucket, limit) ==
  LET cdp  == cdps[i]
      b    == cdp.borrow_token
      paid == Payment(i, bucket, limit)
  IN  IF cdp.is_stable
      THEN AfterStableRepay(cdp, paid,
             RepayInBorrow(Env(b), bucket, cdp.borrow_amount, cdp.stable_rate,
                           cdp.last_update_epoch, limit))
      ELSE AfterVariableRepay(cdp, paid,
             SharesRepaid(pools[b], Env(b), paid, cdp.normalized_borrow))

\* repay, by anyone.
Repay(i, bucket) ==
  LET b == cdps[i].borrow_token
  IN  /\ Call
      /\ Takeable(bucket, Unit(b))
      /\ CanRepay(i, bucket, bucket)
      /\ pools' = [pools EXCEPT ![b] = PoolRepaid(i, bucket, bucket)]
      /\ cdps' = [cdps EXCEPT ![i] = CdpRepaid(i, bucket, bucket)]
      /\ UNCHANGED collateral_vaults /\ PoolsAndCdps

\* get_liquidate_debt_and_collateral: the debt a liquidation sees, of a
\* stable CDP its interest only,
LiquidatedDebt(i) ==
  LET cdp == cdps[i]
      b   == cdp.borrow_token
  IN  IF cdp.is_stable
      THEN StableInterest(Env(b), cdp.borrow_amount, cdp.stable_rate, cdp.last_update_epoch)
      ELSE DMul(cdp.normalized_borrow, LoanIndex(pools[b], Env(b)))

\* Mutant: dx is taken for the underlying token.
CollateralDx(i) == cdps[i].collateral_amount

CollateralUnderlying(i) ==
  LET c == cdps[i].collateral_token
  IN  RedemptionValue(pools[c], Env(c), cdps[i].collateral_amount)

\* ... the health factor at the prices bp of the debt and cp of the collateral,
\* (the mutants take the loan-to-value ratio for the threshold, and neither)
HealthFactorAtLtv(i, bp, cp) ==
  DDiv(DMul(DMul(CollateralUnderlying(i), cp), Config[cdps[i].collateral_token].ltv),
       DMul(LiquidatedDebt(i), bp))
HealthFactorOfAll(i, bp, cp) ==
  DDiv(DMul(CollateralUnderlying(i), cp), DMul(LiquidatedDebt(i), bp))

HealthFactor(i, bp, cp) ==
  DDiv(DMul(DMul(CollateralUnderlying(i), cp),
            Config[cdps[i].collateral_token].liquidation_threshold),
       DMul(LiquidatedDebt(i), bp))

\* ... whether it may go ahead: nothing is divided by 0, and the health factor
\* is at most ONE,
CanLiquidate(i, bp, cp) ==
  /\ bp > 0 \/ cp > 0
  /\ DMul(LiquidatedDebt(i), bp) # 0
  /\ HealthFactor(i, bp, cp) <= ONE
  /\ cp # 0 /\ cdps[i].collateral_amount # 0
  /\ DDiv(CollateralUnderlying(i), cdps[i].collateral_amount) # 0

\* ... what of the debt is asked for: the close factor's share of it, or less if
\* the caller says so (the mutant swaps the comparison),
MoreCovered(i, cover) ==
  LET most == PercentMul(LiquidatedDebt(i), close_factor_percent)
  IN  IF cover > 0 /\ most < cover THEN cover ELSE most

Covered(i, cover) ==
  LET most == PercentMul(LiquidatedDebt(i), close_factor_percent)
  IN  IF cover > 0 /\ most > cover THEN cover ELSE most

\* ... and, as [debt, dx], what is repaid and how much dx is released for it:
\* never more than what all of the collateral pays for.
\* (the mutant forgets the latter)
UnboundedTerms(i, cover, bp, cp) ==
  LET seized == DDiv(DMul(DMul(Covered(i, cover), bp),
                          ONE + Config[cdps[i].collateral_token].liquidation_bonus), cp)
  IN  [debt |-> Covered(i, cover),
       dx |-> DDiv(seized, DDiv(CollateralUnderlying(i), cdps[i].collateral_amount))]

LiquidationTerms(i, cover, bp, cp) ==
  LET underlying == CollateralUnderlying(i)
      bonus      == ONE + Config[cdps[i].collateral_token].liquidation_bonus
      seized     == DDiv(DMul(DMul(Covered(i, cover), bp), bonus), cp)
      index      == DDiv(underlying, cdps[i].collateral_amount)
  IN  IF seized > underlying
      THEN [debt |-> DDiv(DMul(underlying, cp), DMul(bp, bonus)),
            dx   |-> DDiv(underlying, index)]
      ELSE [debt |-> Covered(i, cover), dx |-> DDiv(seized, index)]

\* What liquidation asserts, with what its calls of the pools assert; an amount
\* finer than the token's unit cannot be taken.
CanSell(i, bucket, cover, bp, cp) ==
  LET b     == cdps[i].borrow_token
      c     == cdps[i].collateral_token
      terms == LiquidationTerms(i, cover, bp, cp)
  IN  /\ Takeable(bucket, Unit(b))
      /\ CanLiquidate(i, bp, cp)
      /\ bucket >= terms.debt
      /\ CanRepay(i, bucket, terms.debt)
      /\ Payment(i, bucket, terms.debt) = terms.debt
      /\ Takeable(terms.dx, Config[c].share_unit) /\ terms.dx <= collateral_vaults[c]
      /\ CanRemoveLiquidity([pools EXCEPT ![b] = PoolRepaid(i, bucket, terms.debt)][c],
                            Env(c), terms.dx)

Liquidation(i, bucket, cover, bp, cp) ==
  LET b      == cdps[i].borrow_token
      c      == cdps[i].collateral_token
      terms  == LiquidationTerms(i, cover, bp, cp)
      repaid == [pools EXCEPT ![b] = PoolRepaid(i, bucket, terms.debt)]
  IN  /\ Call
      /\ CanSell(i, bucket, cover, bp, cp)
      /\ pools' = [repaid EXCEPT ![c] = RemoveLiquidity(@, Env(c), terms.dx)]
      /\ collateral_vaults' = [collateral_vaults EXCEPT ![c] = @ - terms.dx]
      /\ cdps' = [cdps EXCEPT ![i] = Release(CdpRepaid(i, bucket, terms.debt), terms.dx)]
      /\ PoolsAndCdps

-----------------------------------------------------------------------------
(* Staking loans, which the staking earning component takes for a redeemer *)

\* staking_borrow: a stable loan of XRD at the rate the caller names, without
\* any dx; its CDP stays in the manager's vault.
StakingBorrow(amount, rate, claim) ==
  /\ Call
  /\ Len(cdps) < MaxCdps
  /\ amount >= 0
  /\ CanBorrowStable(pools[XRD], amount)
  /\ pools' = [pools EXCEPT ![XRD] = PoolBorrowStable(@, Env(XRD), amount, rate)]
  /\ cdps' = Append(cdps, NewCdp(NoDx, XRD, amount, claim, 0, rate, TRUE))
  /\ cdp_vault' = cdp_vault \cup {Len(cdps) + 1}
  /\ UNCHANGED <<collateral_vaults, close_factor_percent, flashloans,
                 transient_id_counter, epoch, price>>

\* staking_repay: the bucket pays what it can and the CDP is burned.
CanStakingRepay(i, bucket) ==
  /\ Takeable(bucket, Unit(XRD))
  /\ CanRepayStable(Env(XRD), bucket, cdps[i].borrow_amount, cdps[i].stable_rate,
                    cdps[i].last_update_epoch, bucket)

\* Mutant: the CDP stays in the vault.
CdpKept(i, bucket) == cdp_vault
Burned(i, bucket) == cdp_vault \ {i}

StakingRepay(i, bucket) ==
  LET cdp == cdps[i]
  IN  /\ Call
      /\ CanStakingRepay(i, bucket)
      /\ pools' = [pools EXCEPT ![XRD] =
                      PoolRepayStable(@, Env(XRD), bucket, cdp.borrow_amount,
                                      cdp.stable_rate, cdp.last_update_epoch, bucket)]
      /\ cdp_vault' = Burned(i, bucket)
      /\ UNCHANGED <<cdps, collateral_vaults, close_factor_percent, flashloans,
                     transient_id_counter, epoch, price>>

-----------------------------------------------------------------------------
(* Flash loans and the admin *)

\* borrow_flashloan: the NFT that comes with the tokens cannot be deposited,
\* so the transaction has to give it back to repay_flashloan.
BorrowFlashloan(t, amount) ==
  LET lent == FloorTo(amount, Unit(t))
      fee  == DMul(lent, Config[t].flashloan_fee_ratio)
  IN  /\ Call
      /\ transient_id_counter < MaxFlashloans
      /\ CanBorrowFlashloan(pools[t], amount)
      /\ pools' = [pools EXCEPT ![t] = PoolBorrowFlashloan(@, Env(t), amount)]
      /\ transient_id_counter' = transient_id_counter + 1
      /\ flashloans' = flashloans \cup
           {[id |-> transient_id_counter + 1, res_addr |-> t, amount |-> lent, fee |-> fee]}
      /\ UNCHANGED <<cdps, cdp_vault, collateral_vaults, close_factor_percent, epoch, price>>

\* repay_flashloan, from a bucket that holds enough.
RepayFlashloan(f) ==
  LET t == f.res_addr
  IN  /\ Call
      /\ CanRepayFlashloan(pools[t], Env(t), f.fee)
      /\ pools' = [pools EXCEPT ![t] = PoolRepayFlashloan(@, Env(t), f.amount, f.fee)]
      /\ flashloans' = flashloans \ {f}
      /\ UNCHANGED <<cdps, cdp_vault, collateral_vaults, close_factor_percent,
                     transient_id_counter, epoch, price>>

WithdrawInsurance(t, amount) ==
  /\ Call
  /\ CanWithdrawInsurance(pools[t], Env(t), amount)
  /\ pools' = [pools EXCEPT ![t] = PoolWithdrawInsurance(@, Env(t), amount)]
  /\ OnlyPools

SetCloseFactor(percent) ==
  /\ Call
  /\ close_factor_percent' = percent
  /\ UNCHANGED <<pools, cdps, cdp_vault, collateral_vaults, flashloans, transient_id_counter,
                 epoch, price>>

-----------------------------------------------------------------------------
(* The world between transactions *)

Tick(n) ==
  /\ flashloans = {}
  /\ epoch + n <= MaxEpoch
  /\ epoch' = epoch + n
  /\ UNCHANGED <<pools, cdps, cdp_vault, collateral_vaults, close_factor_percent, flashloans,
                 transient_id_counter, price, ops>>

PriceMove(t, p) ==
  /\ flashloans = {}
  /\ p # price[t]
  /\ price' = [price EXCEPT ![t] = p]
  /\ UNCHANGED <<pools, cdps, cdp_vault, collateral_vaults, close_factor_percent, flashloans,
                 transient_id_counter, epoch, ops>>

-----------------------------------------------------------------------------

DepositStep ==
  \E t \in Tokens :
     \/ \E amount \in Inputs["supply"] : Supply(t, amount)
     \/ \E dx \in Inputs["withdraw"] : Withdraw(t, dx)

LoanStep ==
  \/ \E m \in Markets, dx \in Inputs["collateral"] :
        \/ \E amount \in Inputs["variable"] : BorrowVariable(m[1], m[2], dx, amount)
        \/ \E amount \in Inputs["stable"] : BorrowStable(m[1], m[2], dx, amount)
  \/ \E i \in Pledged, amount \in Inputs["extend"] :
        ExtendVariable(i, amount) \/ ExtendStable(i, amount)

CollateralStep ==
  \E i \in Pledged :
     \/ \E amount \in Inputs["withdraw_collateral"] : WithdrawCollateral(i, amount)
     \/ \E dx \in Inputs["addition_dx"] : AddCollateralDx(i, dx)
     \/ \E amount \in Inputs["addition"] : AddCollateral(i, amount)

RepayStep ==
  \/ \E i \in Live, bucket \in Inputs["repay"] : Repay(i, bucket)
  \/ \E i \in Pledged, bucket \in Inputs["repay"], cover \in Inputs["cover"] :
     \E bp \in Quotes(cdps[i].borrow_token), cp \in Quotes(cdps[i].collateral_token) :
        Liquidation(i, bucket, cover, bp, cp)

StakingStep ==
  \/ \E claim \in Inputs["claim"], amount \in Inputs["principal"] :
        StakingBorrow(amount, InterestRate(pools[XRD], Env(XRD), claim).stable, claim)
  \/ \E i \in cdp_vault, bucket \in Inputs["claim"] : StakingRepay(i, bucket)

PoolStep ==
  \/ \E t \in Tokens :
        \/ \E amount \in Inputs["flashloan"] : BorrowFlashloan(t, amount)
        \/ \E amount \in Inputs["insurance"] : WithdrawInsurance(t, amount)
  \/ \E f \in flashloans : RepayFlashloan(f)
  \/ \E percent \in Inputs["close_factor"] : SetCloseFactor(percent)

WorldStep ==
  \/ \E n \in Inputs["epochs"] : Tick(n)
  \/ \E t \in Tokens : \E p \in Prices[t] : PriceMove(t, p)

Next == \/ DepositStep \/ LoanStep \/ CollateralStep \/ RepayStep
        \/ StakingStep \/ PoolStep \/ WorldStep

Spec == Init /\ [][Next]_vars
=============================================================================
