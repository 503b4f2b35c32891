-------------------------- MODULE LendingProperties --------------------------
(***************************************************************************)
(* What the collateral debt manager and its pools promise.                 *)
(***************************************************************************)
EXTENDS CollateralDebtManager, Sums

-----------------------------------------------------------------------------
\* What the CDPs hold of t: loan shares, dx in custody, stable principal.
ShareClaims(t) ==
  [i \in Ids |-> IF cdps[i].borrow_token = t THEN cdps[i].normalized_borrow ELSE 0]

CollateralClaims(t) ==
  [i \in Ids |-> IF cdps[i].collateral_token = t THEN cdps[i].collateral_amount ELSE 0]

StableClaims(t) ==
  [i \in Ids |-> IF i \in Live /\ cdps[i].borrow_token = t /\ cdps[i].is_stable
                 THEN cdps[i].borrow_amount ELSE 0]

-----------------------------------------------------------------------------
\* Every pool and position is well formed and no vault is overdrawn.
TypeOK ==
  /\ pools \in [Tokens -> Pool]
  /\ cdps \in Seq(CollateralDebtPosition)
  /\ cdp_vault \subseteq Ids
  /\ collateral_vaults \in [Tokens -> Nat]
  /\ close_factor_percent \in Nat
  /\ flashloans \in SUBSET FlashLoanData
  /\ transient_id_counter \in Nat
  /\ epoch \in Nat
  /\ price \in [Tokens -> Nat \ {0}]
  /\ ops \in Nat

\* A pool's variable_loan_share_quantity, from which its interest is charged,
\* is the sum of the loan shares recorded in the CDPs, whatever was borrowed,
\* extended, repaid in part, in full or by a liquidator.
ShareBook == \A t \in Tokens : pools[t].variable_loan_share_quantity = Sum(ShareClaims(t))

\* The custody vault of a dx holds all that the CDPs count as their
\* collateral, and never more dx than there is.
CollateralBook ==
  \A t \in Tokens : /\ Sum(CollateralClaims(t)) <= collateral_vaults[t]
                    /\ collateral_vaults[t] <= pools[t].dx_supply

\* The stable book of a pool never exceeds the principal the stable CDPs owe
\* (it may be lower: extending a loan adds its interest to the CDP alone).
StableBook ==
  \A t \in Tokens : /\ 0 <= pools[t].stable_loan_amount
                    /\ pools[t].stable_loan_amount <= Sum(StableClaims(t))

\* What flash loan k took out of the vault of t and has not brought back.
Lent(t) ==
  [k \in 1..transient_id_counter |->
     IF \E f \in flashloans : f.id = k /\ f.res_addr = t
     THEN (CHOOSE f \in flashloans : f.id = k).amount ELSE 0]

Assets(t) ==
  LET P == pools[t]
  IN  P.vault + Sum(Lent(t)) + DMul(P.variable_loan_share_quantity, P.loan_index)

Liabilities(t) ==
  LET P == pools[t]
  IN  DMul(P.dx_supply, P.deposit_index) + P.insurance_balance

Surplus(t) == Assets(t) - Liabilities(t)

\* What the roundings of a call may leave to the pool of t, in parts of ONE: twice
\* less than a unit of the token and two last digits, for a liquidation repays to
\* a pool and redeems from it, and less than a dx and a loan share.
Rounding(t) ==
  2 * (Unit(t) + 2) * ONE
    + Config[t].share_unit * (SupplyIndex(pools[t], Env(t)) + LoanIndex(pools[t], Env(t)))

\* What the pool keeps of the fee of a flash loan of t that is given back: the
\* index is raised by the fee over the worth of the dx, not over their number, so
\* that depositors get less of it the higher their index is; and the raise is a
\* quotient, short of a last digit for each dx.
FeeKept(t) ==
  LET returned == {f \in flashloans \ flashloans' : f.res_addr = t}
      kept(f)  == f.fee - DDiv(f.fee, SupplyIndex(pools[t], Env(t)))
  IN  IF \E f \in returned : f.fee > 0
      THEN kept(CHOOSE f \in returned : TRUE) * ONE + pools[t].dx_supply
      ELSE 0

\* Every call books what it moves once and in full: what a pool owns, its vault,
\* its flash loans and its variable loans, changes as what it owes to its
\* depositors and its insurance does, but for less than a loan share's worth and
\* two last digits to its disadvantage, and the roundings and the part of a flash
\* loan's fee that are its advantage (pools without stable loans).
BooksBalance ==
  [][\A t \in Tokens :
       LET change == (Surplus(t)' - Surplus(t)) * ONE
       IN  /\ change >= -(pools'[t].loan_index + 2 * ONE)
           /\ change <= Rounding(t) + FeeKept(t)]_vars

\* A pool always owns what it owes, but for less than a loan share's worth and
\* two last digits a call: no rounding, of any amount, at any rate and over
\* any time, is at the depositors' expense (pools without stable loans).
Solvent ==
  \A t \in Tokens :
    (Liabilities(t) - Assets(t)) * ONE <= ops * (pools[t].loan_index + 2 * ONE)

\* What is withdrawn as insurance is no more than there is of it, as the code
\* asserts (`assert_amount(amount, self.insurance_balance)`), so that it is never
\* paid out of deposits: what a pool owns covers them, but for less than a loan
\* share's worth and two last digits a call (pools without stable loans).
DepositsCovered ==
  \A t \in Tokens :
    (DMul(pools[t].dx_supply, pools[t].deposit_index) - Assets(t)) * ONE
      <= ops * (pools[t].loan_index + 2 * ONE)

\* What truncation may cost the insurance of P since its last update, in parts of
\* ONE: a last digit of the loan index for each loan share, one of the rate of an
\* epoch for each part borrowed, for every epoch, and one of each product.
LastDigits(P) ==
  P.variable_loan_share_quantity + ONE
    + (epoch - P.last_update)
        * (DMul(P.variable_loan_share_quantity, P.loan_index) + P.deposit_interest_rate)

\* The insurance balance takes the spread between what borrowers pay and
\* depositors earn, and it is never negative: no call makes a pool pay its
\* depositors more interest than its borrowers owe, but for what the interest
\* of the borrowers, compounded from truncated rates, loses in its last digits
\* (pools without stable loans).
InsuranceCovered ==
  [][\A t \in Tokens :
       (pools[t].insurance_balance - pools'[t].insurance_balance) * ONE
         <= LastDigits(pools[t])]_vars

\* A variable CDP without loan shares has paid back what it borrowed, short of
\* less than a loan share's worth for each call made.
ClosedMeansPaid ==
  \A i \in Ids : ~cdps[i].is_stable /\ cdps[i].normalized_borrow = 0
                   => (cdps[i].total_borrow - cdps[i].total_repay) * ONE
                        <= ops * pools[cdps[i].borrow_token].loan_index

\* A condition, no property: the mean rate of a pool's stable book, out of which
\* repay_stable takes the loan's own rate, is not negative.  The code lets it be:
\* extending loans adds interest to CDPs that the book does not have, and what
\* is left of a small book is what the truncation of the mean is divided by.  What
\* the properties say of indices and debts is proved as long as it is not.
StableRatesNotNegative == \A t \in Tokens : pools[t].stable_loan_interest_rate >= 0

\* Nobody has taken a stable loan.
NoStableLoans == \A i \in Ids : ~cdps[i].is_stable

-----------------------------------------------------------------------------
(* What a CDP owes and what secures it, counted independently of the guards *)

Debt(i) ==
  LET cdp == cdps[i]
      b   == cdp.borrow_token
  IN  IF cdp.is_stable
      THEN cdp.borrow_amount + StableInterest(Env(b), cdp.borrow_amount, cdp.stable_rate,
                                              cdp.last_update_epoch)
      ELSE DMul(cdp.normalized_borrow, LoanIndex(pools[b], Env(b)))

\* What was borrowed and has not been paid is owed, in every CDP and at any time:
\* no rounding, no power compounded from truncated squares, no interest that is
\* capitalised or forgotten takes a debt below it, but for the last digit of a
\* variable debt and less than a loan share's worth of it for each call made.
UnpaidIsOwed ==
  \A i \in Ids :
    LET unpaid == cdps[i].total_borrow - cdps[i].total_repay
    IN  IF cdps[i].is_stable THEN unpaid <= Debt(i)
        ELSE (unpaid - Debt(i) - 1) * ONE <= ops * pools[cdps[i].borrow_token].loan_index

DebtValue(i) == DMul(Debt(i), price[cdps[i].borrow_token])

CollateralValue(i) == DMul(CollateralUnderlying(i), price[cdps[i].collateral_token])

\* The debt is within the loan-to-value ratio of what the collateral is worth, but
\* for the last unit of loan shares and of dx where these are coarser than a
\* token can be.
WithinLtv(i) ==
  LET cdp     == cdps[i]
      b       == cdp.borrow_token
      c       == cdp.collateral_token
      owed    == IF cdp.is_stable THEN Debt(i)
                 ELSE DMul(cdp.normalized_borrow - (Config[b].share_unit - 1),
                           LoanIndex(pools[b], Env(b)))
      pledged == RedemptionValue(pools[c], Env(c),
                                 cdp.collateral_amount + (Config[c].share_unit - 1))
  IN  owed > 0 => DMul(owed, price[b]) <= DMul(DMul(pledged, price[c]), Config[c].ltv)

\* The owner of CDP i borrows more or takes out collateral.
MoreAtRisk(i) ==
  \/ i \notin Ids
  \/ cdps'[i].total_borrow > cdps[i].total_borrow
  \/ /\ cdps'[i].collateral_amount < cdps[i].collateral_amount
     /\ \E amount \in Inputs["withdraw_collateral"] : WithdrawCollateral(i, amount)

\* The loan-to-value ratio holds after every step by which an owner borrows
\* more or takes out collateral: all of the debt, interest included, is within
\* the ratio of what the remaining collateral is then worth.
LtvRespected == [][\A i \in Pledged' : MoreAtRisk(i) => WithinLtv(i)']_vars

\* A stable loan of t is repaid: repay_stable is the one method that sets the
\* rates of a pool without bringing its indices to the current epoch first.
StableRepayment(t) ==
  \E i \in Live :
    /\ cdps[i].is_stable /\ cdps[i].borrow_token = t
    /\ \/ \E bucket \in Inputs["repay"] : Repay(i, bucket)
       \/ \E bucket \in Inputs["claim"] : i \in cdp_vault /\ StakingRepay(i, bucket)
       \/ i \in Pledged /\ \E bucket \in Inputs["repay"], cover \in Inputs["cover"] :
            \E bp \in Quotes(cdps[i].borrow_token), cp \in Quotes(cdps[i].collateral_token) :
               Liquidation(i, bucket, cover, bp, cp)

\* The current indices of t are as they were, but that a flash loan fee may have
\* raised the deposit index.
IndicesKept(t) ==
  \/ /\ LoanIndex(pools[t], Env(t))' = LoanIndex(pools[t], Env(t))
     /\ \/ SupplyIndex(pools[t], Env(t))' = SupplyIndex(pools[t], Env(t))
        \/ /\ flashloans' # flashloans
           /\ SupplyIndex(pools[t], Env(t))' > SupplyIndex(pools[t], Env(t))
  \/ StableRepayment(t)

\* What borrowers and depositors have earned or owe is settled by the time
\* that passed, not by the calls: no call but the repayment of a stable loan
\* moves the current indices of a pool.
NoRetroactiveInterest == [][epoch' = epoch => \A t \in Tokens : IndicesKept(t)]_vars

\* Neither index of a pool ever falls: interest only accrues.
IndexMonotone ==
  [][\A t \in Tokens : /\ pools'[t].deposit_index >= pools[t].deposit_index
                       /\ pools'[t].loan_index >= pools[t].loan_index]_vars

\* What was paid for CDP i in the step, and by how much its debt fell.
Paid(i) == cdps'[i].total_repay - cdps[i].total_repay
Fall(i) == Debt(i) - Debt(i)'

\* addition_collateral sets the rate of a stable CDP to 0, and the interest so
\* far is forgotten.
InterestForgotten(i) == cdps[i].is_stable /\ cdps'[i].stable_rate = 0 /\ Paid(i) = 0

\* The debt of i fell by no more than what was paid for it.
FallPaid(i) == \/ Fall(i) <= Paid(i)
               \/ InterestForgotten(i)
               \/ ~cdps[i].is_stable /\ StableRepayment(cdps[i].borrow_token)

\* By a call a debt falls by no more than what was paid for it, but where the
\* interest is forgotten or the loan index is moved by a stable repayment.
DebtFallsByPayment == [][epoch' = epoch => \A i \in Live : FallPaid(i)]_vars

\* A payment of exactly the interest due of a stable CDP: the code moves the
\* epoch the interest counts from only when the principal changes
\* (update_cdp_after_repay), so that the same interest stays due.
InterestOnly(i) ==
  LET cdp == cdps[i]
  IN  /\ cdp.is_stable
      /\ Paid(i) = StableInterestDue(Env(cdp.borrow_token), cdp.borrow_amount, cdp.stable_rate,
                                     cdp.last_update_epoch)

\* The debt fell by what was paid, to less than a unit of the token, or of loan
\* shares and the last digit.
Credited(i) ==
  LET b == cdps[i].borrow_token
  IN  \/ Paid(i) - Fall(i) < Unit(b)
      \/ (Paid(i) - Fall(i) - 1) * ONE < Config[b].share_unit * LoanIndex(pools[b], Env(b))
      \/ InterestOnly(i)

\* Every payment but one of exactly the interest is credited in full, whether
\* it covers all of the debt, part of it or less than the interest.
PaymentCredited == [][\A i \in Ids : Paid(i) > 0 => Credited(i)]_vars

\* By how much the stable CDPs of t owe more principal than its pool's book has,
\* and, in parts of ONE, more interest in a year than the book earns at its mean.
BookGap(t) == Sum(StableClaims(t)) - pools[t].stable_loan_amount

ChargeGap(t) ==
  Sum([i \in Ids |-> StableClaims(t)[i] * cdps[i].stable_rate])
    - pools[t].stable_loan_amount * pools[t].stable_loan_interest_rate

\* The interest that becomes principal when a stable loan is extended, and what of
\* a staking loan's principal is unpaid when its CDP is burned.
Capitalised(i) ==
  IF cdps'[i].total_borrow > cdps[i].total_borrow THEN Debt(i) - cdps[i].borrow_amount ELSE 0

WrittenOff(i) ==
  IF i \in cdp_vault \ cdp_vault'
  THEN cdps[i].borrow_amount
         + StableInterestDue(Env(XRD), cdps[i].borrow_amount, cdps[i].stable_rate,
                             cdps[i].last_update_epoch)
         - (pools'[XRD].vault - pools[XRD].vault)
  ELSE 0

\* A pool counts its stable loans twice, one by one in the CDPs and as an amount at
\* a mean rate in its book, from which its interest is charged.  A call changes
\* the two alike, but for capitalised interest and unpaid rests, which the book
\* does not have, and the rate of a loan whose interest is forgotten, which the
\* mean keeps; or it empties the book.  The means are quotients of truncated
\* products.
StableBookFollows ==
  [][\A t \in Tokens :
       LET stable  == {i \in Live : cdps[i].is_stable /\ cdps[i].borrow_token = t}
           gap(i)  == Capitalised(i) - WrittenOff(i)
           rate(i) == gap(i) * cdps[i].stable_rate
                        - (IF InterestForgotten(i) THEN cdps[i].borrow_amount * cdps[i].stable_rate
                           ELSE 0)
           ofLoans(f(_)) == Sum([i \in Ids |-> IF i \in stable THEN f(i) ELSE 0])
           digits  == 2 * ONE + Sum(StableClaims(t))' + pools'[t].stable_loan_amount
       IN  \/ /\ BookGap(t)' - BookGap(t) = ofLoans(gap)
              /\ (ChargeGap(t)' - ChargeGap(t)) - ofLoans(rate) \in -digits..digits
           \/ pools'[t].stable_loan_amount = 0 /\ BookGap(t)' <= BookGap(t)]_vars

-----------------------------------------------------------------------------
(* Liquidation *)

Liquidated(i) == Paid(i) > 0 /\ cdps'[i].collateral_amount < cdps[i].collateral_amount

\* The debt has outgrown the liquidation threshold of the collateral, to the last
\* digit of the health factor.
Outgrown(i) ==
  DebtValue(i) * (ONE + 1) >
    DMul(CollateralValue(i), Config[cdps[i].collateral_token].liquidation_threshold) * ONE

\* Collateral is sold only of a CDP whose debt has outgrown the liquidation
\* threshold of the token its collateral is in.
OnlyUnhealthyLiquidated == [][\A i \in Pledged : Liquidated(i) => Outgrown(i)]_vars

\* What the liquidation takes a dx of i's collateral to be worth is a quotient:
\* less than the index by its last digit, or more where there is hardly a dx.
LeastIndex(i) ==
  LET c == cdps[i].collateral_token
  IN  SupplyIndex(pools[c], Env(c)) - 1 - (ONE \div cdps[i].collateral_amount)

\* The liquidator gets collateral for what was repaid plus the bonus, and no
\* more, whether the close factor, the caller or the collateral set the amount:
\* it is worth no more even if one last digit more had been paid.
LiquidationFair ==
  [][\A i \in Pledged : Liquidated(i) =>
       LET c    == cdps[i].collateral_token
           sold == cdps[i].collateral_amount - cdps'[i].collateral_amount
       IN  DMul(DMul(sold, LeastIndex(i)), price[c])
             <= DMul(DMul(Paid(i) + 1, price[cdps[i].borrow_token]) + 1,
                     ONE + Config[c].liquidation_bonus)]_vars

\* What an amount of CDP i's collateral lends of its borrowed token, to the
\* last digit.
Lends(i, amount) ==
  LET c == cdps[i].collateral_token
  IN  DDiv(DMul(DMul(price[c], amount), Config[c].ltv), price[cdps[i].borrow_token])

\* No call leaves a CDP with less than no collateral, whatever is withdrawn or
\* sold of it, but for two roundings.  A liquidation computes the index of the dx
\* back from their worth, and what is short at that index is less than the last
\* digit of what it was computed from.  A withdrawal compares what is left
\* with the debt, not with 0, and an amount too small to lend anything
\* passes; of the dx taken for it up to a unit is rounding.
CollateralNotNegative ==
  [][\A i \in Pledged :
       LET c     == cdps[i].collateral_token
           all   == cdps[i].collateral_amount
           left  == cdps'[i].collateral_amount
           worth == RedemptionValue(pools[c], Env(c), -left - (Config[c].share_unit - 1))
       IN  left < 0 /\ left < all =>
             \/ all > 0 /\ (-left) * DDiv(CollateralUnderlying(i), all) < all
             \/ Lends(i, worth) <= 0]_vars

\* A CDP with collateral that is not healthy can be liquidated: the code refuses
\* one with the words "Health factor is not below the threshold".
UnhealthyLiquidatable ==
  \A i \in Pledged :
    /\ CollateralUnderlying(i) > 0
    /\ DebtValue(i) > DMul(CollateralValue(i),
                             Config[cdps[i].collateral_token].liquidation_threshold)
    => CanLiquidate(i, price[cdps[i].borrow_token], price[cdps[i].collateral_token])

\* What can be liquidated can be sold: the close factor's share of a debt is
\* hardly ever an amount of a token of few decimals, and then aborts the call,
\* but any smaller amount of the token that the caller names goes through, if
\* the collateral is worth it and its bonus, but for the last unit and what the
\* quotient that stands for the index may be off, and its pool is not lent out.
\* (The dx is as fine as it can be, as deployed, and no CDP is short of any.)
AnyCoverSells ==
  \A i \in Pledged :
    LET b      == cdps[i].borrow_token
        c      == cdps[i].collateral_token
        bp     == price[b]
        cp     == price[c]
        secure == CollateralUnderlying(i) - (cdps[i].collateral_amount \div ONE) - 1
    IN  \A cover \in {Unit(b), 100 * Unit(b)} :
          /\ ~cdps[i].is_stable
          /\ CanLiquidate(i, bp, cp)
          /\ cover <= LiquidatedDebt(i)
          /\ cover < PercentMul(LiquidatedDebt(i), close_factor_percent)
          /\ DMul(DMul(cover, bp), ONE + Config[c].liquidation_bonus) <= DMul(secure, cp)
          /\ CollateralUnderlying(i) <= pools[c].vault
          /\ Config[c].share_unit = 1
          /\ \A j \in Pledged : cdps[j].collateral_amount >= 0
          => CanSell(i, 100 * cover, cover, bp, cp)
=============================================================================
