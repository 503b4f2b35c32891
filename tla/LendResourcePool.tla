-------------------------- MODULE LendResourcePool --------------------------
(***************************************************************************)
(* One lending pool (src/pools/lending.rs): the vault of a token, the      *)
(* receipt token dx minted to its depositors, the two growing indices that *)
(* turn dx and loan shares into tokens, the variable and the stable book,  *)
(* and the insurance balance.                                              *)
(*                                                                         *)
(* A pool is a record and a method of the blueprint is an operator from a  *)
(* pool and an environment e to the pool it leaves and what it hands back. *)
(* e is what the method reads from outside: e.cfg (the pool's settings and *)
(* the units of its two resources), e.now (the current epoch) and          *)
(* e.validator_apy (the validator keeper's answer, read through the        *)
(* interest model).  An assert of the code is an operator Can..., which    *)
(* the calling action has among its guards: a transaction that fails one   *)
(* leaves no trace.                                                        *)
(***************************************************************************)
EXTENDS InterestModel

PoolConfig ==
  [unit: Nat \ {0}, share_unit: Nat \ {0}, model: Models,
   insurance_ratio: Nat, flashloan_fee_ratio: Nat,
   ltv: Nat, liquidation_threshold: Nat, liquidation_bonus: Nat]

\* dx_supply is the total supply of the pool's receipt token.
Pool ==
  [vault: Nat, dx_supply: Nat, insurance_balance: Int,
   deposit_index: Int, loan_index: Int, last_update: Nat,
   deposit_interest_rate: Int, variable_loan_interest_rate: Int,
   variable_loan_share_quantity: Int,
   stable_loan_interest_rate: Int, stable_loan_amount: Int]

\* A new pool, with what its first depositors put in before any loan.
NewPool(liquidity) ==
  [vault |-> liquidity, dx_supply |-> liquidity, insurance_balance |-> 0,
   deposit_index |-> ONE, loan_index |-> ONE, last_update |-> 0,
   deposit_interest_rate |-> 0, variable_loan_interest_rate |-> 0,
   variable_loan_share_quantity |-> 0,
   stable_loan_interest_rate |-> 0, stable_loan_amount |-> 0]

\* stable_loan_last_update is set to 0 when the pool is made and never again.
StableLoanLastUpdate == 0

-----------------------------------------------------------------------------
(* Indices and rates *)

\* Mutant: depositors earn the borrowers' rate.
SupplyIndexAtLoanRate(P, e) ==
  LinearInterest(P.deposit_index, P.variable_loan_interest_rate, e.now - P.last_update)

SupplyIndex(P, e) ==
  IF e.now = P.last_update THEN P.deposit_index
  ELSE LinearInterest(P.deposit_index, P.deposit_interest_rate, e.now - P.last_update)

\* Mutant: the index starts from 1 at every update.
LoanIndexFromOne(P, e) ==
  CompoundInterest(ONE, P.variable_loan_interest_rate, e.now - P.last_update)

LoanIndex(P, e) ==
  IF e.now = P.last_update THEN P.loan_index
  ELSE CompoundInterest(P.loan_index, P.variable_loan_interest_rate, e.now - P.last_update)

RedemptionValue(P, e, dx) == DMul(dx, SupplyIndex(P, e))

StableLoanValue(P, e) ==
  IF e.now = StableLoanLastUpdate THEN P.stable_loan_amount
  ELSE CompoundInterest(P.stable_loan_amount, P.stable_loan_interest_rate,
                        e.now - StableLoanLastUpdate)

\* The rates at a level of deposits and debts, as [variable, stable, supply].
CalcInterestRate(e, supply, variableBorrow, stableBorrow) ==
  LET debt     == variableBorrow + stableBorrow
      ratio    == IF supply = 0 THEN 0 ELSE DDiv(debt, supply)
      variable == VariableRate(e.cfg.model, ratio)
      stable   == StableRate(variable, e.validator_apy)
      overall  == IF debt = 0 THEN 0
                  ELSE DDiv(DMul(variableBorrow, variable) + DMul(stableBorrow, stable), debt)
      interest == DMul(DMul(debt, overall), ONE - e.cfg.insurance_ratio)
  IN  [variable |-> variable, stable |-> stable,
       supply |-> IF supply = 0 THEN 0 ELSE DDiv(interest, supply)]

\* extra is a stable loan about to be made (get_interest_rate), or 0.
InterestRate(P, e, extra) ==
  CalcInterestRate(e, DMul(P.dx_supply, SupplyIndex(P, e)),
                   DMul(P.variable_loan_share_quantity, LoanIndex(P, e)),
                   StableLoanValue(P, e) + extra)

\* Mutant: the epoch of the update is not recorded.
UpdateIndexKeepsEpoch(P, e) ==
  [P EXCEPT !.deposit_index = SupplyIndex(P, e), !.loan_index = LoanIndex(P, e)]

\* Bring the indices to the current epoch; what borrowers owe beyond what
\* depositors earn goes to the insurance balance.
UpdateIndex(P, e) ==
  IF e.now = P.last_update THEN P
  ELSE LET variableInterest == DMul(P.variable_loan_share_quantity,
                                    LoanIndex(P, e) - P.loan_index)
           stableInterest   == CompoundInterest(P.stable_loan_amount,
                                                P.stable_loan_interest_rate,
                                                e.now - P.last_update)
                               - P.stable_loan_amount
           supplyInterest   == DMul(P.dx_supply, SupplyIndex(P, e) - P.deposit_index)
       IN  [P EXCEPT !.insurance_balance =
                          @ + (variableInterest + stableInterest - supplyInterest),
                     !.deposit_index = SupplyIndex(P, e),
                     !.loan_index = LoanIndex(P, e),
                     !.last_update = e.now]

UpdateInterestRate(P, e) ==
  [P EXCEPT !.deposit_interest_rate = InterestRate(P, e, 0).supply,
            !.variable_loan_interest_rate = InterestRate(P, e, 0).variable]

-----------------------------------------------------------------------------
(* Deposits *)

\* assert_vault_amount
VaultNotEmpty(P, amount) == P.vault > 0   \* mutant: the comparison is dropped
VaultCovers(P, amount) == P.vault > 0 /\ P.vault >= amount

\* add_liquity.  An index of 0 cannot be divided by and a negative amount
\* cannot be minted.
MintedDx(P, e, amount) ==
  FloorTo(DDiv(amount, SupplyIndex(P, e)), e.cfg.share_unit)

CanAddLiquidity(P, e, amount) ==
  SupplyIndex(P, e) # 0 /\ MintedDx(P, e, amount) >= 0

AddLiquidity(P, e, amount) ==
  LET Q == UpdateIndex(P, e)
  IN  UpdateInterestRate([Q EXCEPT !.vault = @ + amount,
                                   !.dx_supply = @ + MintedDx(P, e, amount)], e)

\* remove_liquity (the mutant rounds in the depositor's favour)
RemovedUp(P, e, dx) == CeilTo(RedemptionValue(P, e, dx), e.cfg.unit)

RemovedAmount(P, e, dx) == FloorTo(RedemptionValue(P, e, dx), e.cfg.unit)

CanRemoveLiquidity(P, e, dx) == VaultCovers(P, RemovedAmount(P, e, dx))

RemoveLiquidity(P, e, dx) ==
  LET Q == UpdateIndex(P, e)
      R == UpdateInterestRate([Q EXCEPT !.dx_supply = @ - dx], e)
  IN  [R EXCEPT !.vault = @ - RemovedAmount(P, e, dx)]

-----------------------------------------------------------------------------
(* Variable loans: a debt is a number of loan shares *)

SharesFor(P, e, amount) ==
  CeilTo(DDiv(amount, LoanIndex(P, e)), e.cfg.share_unit)

CanBorrowVariable(P, e, amount) ==
  VaultCovers(P, amount) /\ LoanIndex(P, e) # 0

\* borrow_variable; the vault hands out whole units of the token.
PoolBorrowVariable(P, e, amount) ==
  LET Q == UpdateIndex(P, e)
      R == UpdateInterestRate([Q EXCEPT !.variable_loan_share_quantity =
                                             @ + SharesFor(P, e, amount)], e)
  IN  [R EXCEPT !.vault = @ - FloorTo(amount, e.cfg.unit)]

\* repay_variable of a debt of so many shares, from a bucket holding
\* `bucket`, paying at most `limit` (limit = bucket when repay_opt is None).
VariableDebt(P, e, shares) == CeilTo(DMul(shares, LoanIndex(P, e)), e.cfg.unit)

VariablePayment(P, e, bucket, shares, limit) ==
  AtMost(limit, AtMost(bucket, VariableDebt(P, e, shares)))

AllSharesRepaid(P, e, paid, shares) == shares   \* mutant: any payment clears the debt

\* Mutant: what was paid is divided by the index twice.
SharesTwiceDivided(P, e, paid, shares) ==
  FloorTo(DDiv(DDiv(paid, LoanIndex(P, e)), LoanIndex(P, e)), e.cfg.share_unit)

SharesRepaid(P, e, paid, shares) ==
  IF paid = VariableDebt(P, e, shares) THEN shares
  ELSE FloorTo(DDiv(paid, LoanIndex(P, e)), e.cfg.share_unit)

CanRepayVariable(P, e, bucket, shares, limit) ==
  /\ LoanIndex(P, e) # 0
  /\ Takeable(VariablePayment(P, e, bucket, shares, limit), e.cfg.unit)

PoolRepayVariable(P, e, bucket, shares, limit) ==
  LET Q    == UpdateIndex(P, e)
      paid == VariablePayment(P, e, bucket, shares, limit)
  IN  UpdateInterestRate([Q EXCEPT !.variable_loan_share_quantity =
                                        @ - SharesRepaid(P, e, paid, shares),
                                   !.vault = @ + paid], e)

-----------------------------------------------------------------------------
(* Stable loans: a debt is an amount, its rate and the epoch it is from *)

CanBorrowStable(P, amount) ==
  VaultCovers(P, amount) /\ P.stable_loan_amount + amount # 0

\* borrow_stable
PoolBorrowStable(P, e, amount, rate) ==
  LET Q == UpdateIndex(P, e)
      R == UpdateInterestRate(
             [Q EXCEPT !.stable_loan_interest_rate =
                            WeightRate(Q.stable_loan_amount, @, amount, rate),
                       !.stable_loan_amount = @ + amount], e)
  IN  [R EXCEPT !.vault = @ - FloorTo(amount, e.cfg.unit)]

\* get_stable_interest
StableInterest(e, loan, rate, since) ==
  CompoundInterest(loan, rate, e.now - since) - loan

\* The interest that repay_stable asks for.
StableInterestDue(e, loan, rate, since) ==
  IF e.now = since THEN 0 ELSE CeilTo(StableInterest(e, loan, rate, since), e.cfg.unit)

\* Mutant: nothing is handed back.
StableBucketTaken(e, bucket, loan, rate, since, limit) == AtMost(limit, bucket)

StablePayment(e, bucket, loan, rate, since, limit) ==
  AtMost(AtMost(limit, bucket), loan + StableInterestDue(e, loan, rate, since))

\* repay_in_borrow: by how much the payment lowers the principal.  What is
\* paid short of the interest raises it.
RepayInBorrow(e, bucket, loan, rate, since, limit) ==
  AtMost(loan, AtMost(limit, bucket) - StableInterestDue(e, loan, rate, since))

CanRepayStable(e, bucket, loan, rate, since, limit) ==
  Takeable(StablePayment(e, bucket, loan, rate, since, limit), e.cfg.unit)

\* repay_stable, which leaves the indices at their last update and takes the
\* loan out of the weighted mean rate of the book.
PoolRepayStable(P, e, bucket, loan, rate, since, limit) ==
  LET borrow   == RepayInBorrow(e, bucket, loan, rate, since, limit)
      left     == P.stable_loan_amount - borrow
      weighted == DMul(P.stable_loan_amount, P.stable_loan_interest_rate)
      paid     == StablePayment(e, bucket, loan, rate, since, limit)
  IN  UpdateInterestRate(
        [P EXCEPT !.stable_loan_amount = IF left > 0 THEN left ELSE 0,
                  !.stable_loan_interest_rate =
                       IF left > 0 THEN DDiv(weighted - DMul(borrow, rate), left) ELSE 0,
                  !.vault = @ + paid], e)

-----------------------------------------------------------------------------
(* Flash loans and insurance *)

CanBorrowFlashloan(P, amount) == P.vault >= amount

PoolBorrowFlashloan(P, e, amount) ==
  [P EXCEPT !.vault = @ - FloorTo(amount, e.cfg.unit)]

FlashloanPrincipal(e, amount, fee) == amount   \* mutant: the fee is not collected
FlashloanDue(e, amount, fee) == CeilTo(amount + fee, e.cfg.unit)

CanRepayFlashloan(P, e, fee) ==
  fee > 0 => DMul(P.dx_supply, SupplyIndex(P, e)) # 0

\* repay_flashloan: the fee goes to the insurance and to the depositors.
PoolRepayFlashloan(P, e, amount, fee) ==
  LET Q         == UpdateIndex([P EXCEPT !.vault = @ + FlashloanDue(e, amount, fee)], e)
      supply    == DMul(Q.dx_supply, Q.deposit_index)
      insurance == DMul(fee, e.cfg.insurance_ratio)
  IN  IF fee > 0
      THEN UpdateInterestRate(
             [Q EXCEPT !.insurance_balance = @ + insurance,
                       !.deposit_index = @ + DDiv(fee - insurance, supply)], e)
      ELSE [P EXCEPT !.vault = @ + FlashloanDue(e, amount, fee)]

\* withdraw_insurance; the insurance balance stays as it was.
CanWithdrawInsurance(P, e, amount) ==
  amount < P.insurance_balance /\ P.vault >= FloorTo(amount, e.cfg.unit)

PoolWithdrawInsurance(P, e, amount) ==
  [P EXCEPT !.vault = @ - FloorTo(amount, e.cfg.unit)]
=============================================================================
