---------------------------- MODULE EarningProofs ----------------------------
(***************************************************************************)
(* Proofs that staking earning implements Redemption, for any settings,    *)
(* amounts and bounds and whatever else happens to the manager: no other   *)
(* call turns a CDP into a staking CDP or back, or moves one in or out of  *)
(* the manager's vault.                                                    *)
(*                                                                         *)
(* And that the amounts fit: the claims in escrow cover the loans that     *)
(* were given for them and the settler's gas, a settlement in time pays in *)
(* full, and only a short one leaves principal without a CDP.              *)
(***************************************************************************)
EXTENDS EarningProperties, LendingStepProofs, FiniteSetTheorems

EarningFrame ==
  /\ claims \in Seq(UnstakeData) /\ Len(claims) <= MaxClaims
  /\ Len(cdps) <= MaxCdps
  /\ claim_nft_map \subseteq 1..Len(claims)
  /\ claim_nft_map \cap claimed = {} /\ claimed \subseteq MaturedClaims
  /\ cdp_vault \subseteq StakingCdps

\* The two vaults, whose sizes are compared as single claims and CDPs come and go.
Vaults == /\ IsFiniteSet(claim_nft_map) /\ IsFiniteSet(cdp_vault)
          /\ EscrowMatched

EInv == IInv /\ EarningFrame /\ Vaults

\* What the steps of others leave of the CDPs, and new ones are not staking CDPs.
CdpsKept ==
  /\ Len(cdps') \in Nat /\ Len(cdps) <= Len(cdps') /\ Len(cdps') <= MaxCdps
  /\ \A i \in 1..Len(cdps) : cdps'[i].collateral_token = cdps[i].collateral_token
  /\ \A i \in 1..Len(cdps') : i > Len(cdps) => cdps'[i].collateral_token # NoDx
  /\ epoch' \in Nat /\ epoch <= epoch'

-----------------------------------------------------------------------------
(* The CDPs under the manager's own steps *)

LEMMA KeptSame ==
  ASSUME Books, Len(cdps) <= MaxCdps, cdps' = cdps, epoch' \in Nat, epoch <= epoch'
  PROVE  CdpsKept
  BY DEF Books, CdpsKept

LEMMA KeptOneMore ==
  ASSUME Books, Len(cdps) < MaxCdps, NEW x, x.collateral_token \in Tokens,
         cdps' = Append(cdps, x), epoch' = epoch
  PROVE  CdpsKept
<1>1. Len(cdps) \in Nat /\ MaxCdps \in Nat /\ NoDx \notin Tokens
  BY ManagerAssumption DEF Books
<1>2. /\ Len(cdps') = Len(cdps) + 1
      /\ \A i \in 1..Len(cdps) : cdps'[i] = cdps[i]
      /\ cdps'[Len(cdps) + 1] = x
  BY DEF Books
<1> QED BY <1>1, <1>2 DEF Books, CdpsKept

LEMMA KeptOneChanged ==
  ASSUME Books, Len(cdps) <= MaxCdps, NEW i \in Ids, NEW x,
         x.collateral_token = cdps[i].collateral_token,
         cdps' = [cdps EXCEPT ![i] = x], epoch' = epoch
  PROVE  CdpsKept
<1>1. Len(cdps) \in Nat /\ MaxCdps \in Nat
  BY ManagerAssumption DEF Books
<1>2. /\ Len(cdps') = Len(cdps)
      /\ \A j \in 1..Len(cdps) : cdps'[j] = IF j = i THEN x ELSE cdps[j]
  BY DEF Books, Ids
<1> QED BY <1>1, <1>2 DEF Books, CdpsKept

LEMMA RecordKeepsToken ==
  ASSUME NEW cdp \in CollateralDebtPosition, NEW a
  PROVE  /\ Release(cdp, a).collateral_token = cdp.collateral_token
         /\ WithCollateral(cdp, a).collateral_token = cdp.collateral_token
  BY DEF Release, WithCollateral, CollateralDebtPosition

LEMMA ExtendKeepsCdps ==
  ASSUME IInv, Len(cdps) <= MaxCdps, NEW i \in Pledged, NEW amount,
         ExtendVariable(i, amount) \/ ExtendStable(i, amount)
  PROVE  CdpsKept
<1>1. i \in Ids /\ cdps[i] \in CollateralDebtPosition /\ epoch' = epoch
  BY PledgedToken, CdpKnown DEF IInv, ExtendVariable, ExtendStable, PoolsAndCdps
<1>2. Len(cdps) \in Nat /\ MaxCdps \in Nat /\ cdps \in Seq(CollateralDebtPosition)
  BY ManagerAssumption DEF IInv, Books
<1>3. \E x : /\ x.collateral_token = cdps[i].collateral_token
             /\ cdps' = [cdps EXCEPT ![i] = x]
  <2> DEFINE cdp      == cdps[i]
             b        == cdp.borrow_token
             shares   == SharesFor(pools[b], Env(b), amount)
             interest == StableInterest(Env(b), cdp.borrow_amount, cdp.stable_rate,
                                        cdp.last_update_epoch)
             rate     == InterestRate(pools[b], Env(b), amount).stable
             mean     == WeightRate(cdp.borrow_amount + interest, cdp.stable_rate, amount, rate)
             x        == [cdp EXCEPT !.total_borrow = @ + amount, !.borrow_amount = @ + amount,
                                     !.normalized_borrow = @ + shares]
             y        == [cdp EXCEPT !.total_borrow = @ + amount,
                                     !.borrow_amount = @ + amount + interest,
                                     !.stable_rate = mean, !.last_update_epoch = epoch]
  <2>1. /\ x.collateral_token = cdps[i].collateral_token
        /\ y.collateral_token = cdps[i].collateral_token
    <3> HIDE DEF shares, interest, mean
    <3> QED BY <1>1 DEF CollateralDebtPosition
  <2>2. ASSUME ExtendVariable(i, amount) PROVE cdps' = [cdps EXCEPT ![i] = x]
    <3>1. cdps' = [cdps EXCEPT ![i].total_borrow = @ + amount,
                               ![i].borrow_amount = @ + amount,
                               ![i].normalized_borrow = @ + shares]
      BY <2>2 DEF ExtendVariable
    <3> QED BY <1>1, <1>2, <3>1 DEF Ids
  <2>3. ASSUME ExtendStable(i, amount) PROVE cdps' = [cdps EXCEPT ![i] = y]
    <3>1. cdps' = [cdps EXCEPT ![i].total_borrow = @ + amount,
                               ![i].borrow_amount = @ + amount + interest,
                               ![i].stable_rate =
                                    WeightRate(cdp.borrow_amount + interest, @, amount, rate),
                               ![i].last_update_epoch = epoch]
      BY <2>3, Zenon DEF ExtendStable
    <3> HIDE DEF interest, rate
    <3> QED BY <1>1, <1>2, <3>1 DEF Ids
  <2> HIDE DEF x, y
  <2> QED BY <2>1, <2>2, <2>3
<1> QED BY <1>1, <1>3, KeptOneChanged DEF IInv

LEMMA CollateralKeepsCdps ==
  ASSUME IInv, Len(cdps) <= MaxCdps, NEW i \in Pledged, NEW n,
         \/ WithdrawCollateral(i, n) \/ AddCollateralDx(i, n) \/ AddCollateral(i, n)
  PROVE  CdpsKept
<1>1. i \in Ids /\ cdps[i] \in CollateralDebtPosition
  BY PledgedToken, CdpKnown DEF IInv
<1>2. /\ epoch' = epoch
      /\ \E dx : \/ cdps' = [cdps EXCEPT ![i] = Release(cdps[i], dx)]
                 \/ cdps' = [cdps EXCEPT ![i] = WithCollateral(cdps[i], dx)]
  BY DEF WithdrawCollateral, AddCollateralDx, AddCollateral, PoolsAndCdps
<1>3. \E x : /\ x.collateral_token = cdps[i].collateral_token
             /\ cdps' = [cdps EXCEPT ![i] = x]
  BY <1>1, <1>2, RecordKeepsToken, Zenon
<1> QED BY <1>1, <1>2, <1>3, KeptOneChanged DEF IInv

LEMMA RepayKeepsCdps ==
  ASSUME IInv, Len(cdps) <= MaxCdps, NEW i \in Ids, NEW bucket \in Nat, Repay(i, bucket)
  PROVE  CdpsKept
<1> DEFINE x == CdpRepaid(i, bucket, bucket)
<1>1. /\ CanRepay(i, bucket, bucket)
      /\ cdps' = [cdps EXCEPT ![i] = x]
      /\ epoch' = epoch
  BY Zenon DEF Repay, PoolsAndCdps
<1>2. x.collateral_token = cdps[i].collateral_token
  BY <1>1, RepaidSound DEF IInv
<1> HIDE DEF x
<1> QED BY <1>1, <1>2, KeptOneChanged DEF IInv

LEMMA LiquidationKeepsCdps ==
  ASSUME IInv, Len(cdps) <= MaxCdps, NEW i \in Pledged, NEW bucket \in Nat,
         NEW cover \in Nat, NEW bp \in Nat, NEW cp \in Nat,
         Liquidation(i, bucket, cover, bp, cp)
  PROVE  CdpsKept
<1> DEFINE debt == LiquidationTerms(i, cover, bp, cp).debt
           dx   == LiquidationTerms(i, cover, bp, cp).dx
           y    == CdpRepaid(i, bucket, debt)
           x    == Release(y, dx)
<1>1. i \in Ids
  BY PledgedToken DEF IInv
<1>2. /\ CanLiquidate(i, bp, cp)
      /\ CanRepay(i, bucket, debt)
      /\ cdps' = [cdps EXCEPT ![i] = x]
      /\ epoch' = epoch
  <2> HIDE DEF x
  <2> QED BY DEF Liquidation, CanSell, PoolsAndCdps, x
<1>3. debt \in Int /\ bucket \in Int
  BY <1>2, LiquidationTermsType DEF IInv, Frame
<1> HIDE DEF debt, dx
<1>4. y \in CollateralDebtPosition /\ y.collateral_token = cdps[i].collateral_token
  BY <1>1, <1>2, <1>3, RepaidSound DEF IInv
<1> HIDE DEF y
<1>5. x.collateral_token = cdps[i].collateral_token
  BY <1>4, RecordKeepsToken
<1> HIDE DEF x
<1> QED BY <1>1, <1>2, <1>5, KeptOneChanged DEF IInv

\* Staking steps move CDPs in or out of the manager's vault.
LEMMA StakingStepShows ==
  ASSUME Frame, Len(cdps) \in Nat, StakingStep
  PROVE  cdp_vault' # cdp_vault
<1>1. ASSUME cdp_vault' = cdp_vault \cup {Len(cdps) + 1} PROVE cdp_vault' # cdp_vault
  BY <1>1 DEF Frame, Ids
<1>2. ASSUME NEW i \in cdp_vault, cdp_vault' = cdp_vault \ {i} PROVE cdp_vault' # cdp_vault
  BY <1>2
<1>3. \/ cdp_vault' = cdp_vault \cup {Len(cdps) + 1}
      \/ \E i \in cdp_vault : cdp_vault' = cdp_vault \ {i}
  BY Zenon DEF StakingStep, StakingBorrow, StakingRepay, Burned
<1> QED BY <1>1, <1>2, <1>3

LEMMA NextKeepsCdps ==
  ASSUME IInv, Len(cdps) <= MaxCdps, Next, cdp_vault' = cdp_vault
  PROVE  CdpsKept
<1>1. Books /\ Frame /\ Len(cdps) \in Nat /\ epoch \in Nat /\ MaxCdps \in Nat
  BY ManagerAssumption DEF IInv, Books
<1>2. ASSUME NEW a \in Arguments, NEW n \in Inputs[a] PROVE n \in Nat
  BY ManagerAssumption
<1>3. ASSUME UNCHANGED <<cdps, epoch>> PROVE CdpsKept
  BY <1>1, <1>3, KeptSame
<1>4. CASE DepositStep
  <2>1. UNCHANGED <<cdps, epoch>>
    BY <1>4 DEF DepositStep, Supply, Withdraw, OnlyPools
  <2> QED BY <1>3, <2>1
<1>5. CASE LoanStep
  <2>1. ASSUME NEW m \in Markets, NEW dx, NEW amount,
               BorrowVariable(m[1], m[2], dx, amount) \/ BorrowStable(m[1], m[2], dx, amount)
        PROVE  CdpsKept
    <3>1. m[1] \in Tokens
      BY ManagerAssumption
    <3>2. /\ epoch' = epoch /\ Len(cdps) < MaxCdps
          /\ \/ cdps' = Append(cdps, NewCdp(m[1], m[2], amount, dx,
                                 SharesFor(pools[m[2]], Env(m[2]), amount), 0, FALSE))
             \/ cdps' = Append(cdps, NewCdp(m[1], m[2], amount, dx, 0,
                                 InterestRate(pools[m[2]], Env(m[2]), amount).stable, TRUE))
      BY <2>1, Zenon DEF BorrowVariable, BorrowStable, PoolsAndCdps
    <3>3. \A b, shares, rate, stable :
            NewCdp(m[1], b, amount, dx, shares, rate, stable).collateral_token = m[1]
      BY DEF NewCdp
    <3>4. \E x : x.collateral_token \in Tokens /\ cdps' = Append(cdps, x)
      BY <3>1, <3>2, <3>3, Zenon
    <3> QED BY <1>1, <3>2, <3>4, KeptOneMore
  <2>2. ASSUME NEW i \in Pledged, NEW amount, ExtendVariable(i, amount) \/ ExtendStable(i, amount)
        PROVE  CdpsKept
    BY <2>2, ExtendKeepsCdps
  <2> QED BY <1>5, <2>1, <2>2 DEF LoanStep
<1>6. CASE CollateralStep
  BY <1>6, CollateralKeepsCdps DEF CollateralStep
<1>7. CASE RepayStep
  <2>1. ASSUME NEW i \in Live, NEW n \in Inputs["repay"], Repay(i, n)
        PROVE  CdpsKept
    <3>1. i \in Ids /\ n \in Nat
      BY <1>1, <1>2 DEF Live, Pledged, Frame, Arguments
    <3> QED BY <2>1, <3>1, RepayKeepsCdps
  <2>2. ASSUME NEW i \in Pledged, NEW n \in Inputs["repay"], NEW cover \in Inputs["cover"],
               NEW bp \in Quotes(cdps[i].borrow_token),
               NEW cp \in Quotes(cdps[i].collateral_token),
               Liquidation(i, n, cover, bp, cp)
        PROVE  CdpsKept
    <3>1. cdps[i].borrow_token \in Tokens /\ cdps[i].collateral_token \in Tokens
      BY PledgedToken, CdpKnown, CdpType DEF IInv
    <3>2. bp \in Nat /\ cp \in Nat
      BY <1>1, <3>1, QuotesType
    <3>3. n \in Nat /\ cover \in Nat
      BY <1>2 DEF Arguments
    <3> QED BY <2>2, <3>2, <3>3, LiquidationKeepsCdps
  <2> QED BY <1>7, <2>1, <2>2 DEF RepayStep
<1>8. CASE StakingStep
  BY <1>1, <1>8, StakingStepShows
<1>9. CASE PoolStep
  <2>1. UNCHANGED <<cdps, epoch>>
    BY <1>9 DEF PoolStep, BorrowFlashloan, RepayFlashloan, WithdrawInsurance, SetCloseFactor,
                OnlyPools
  <2> QED BY <1>3, <2>1
<1>10. CASE WorldStep
  <2>1. ASSUME NEW n \in Inputs["epochs"], Tick(n) PROVE CdpsKept
    <3>1. n \in Nat /\ cdps' = cdps /\ epoch' = epoch + n
      BY <1>2, <2>1 DEF Tick, Arguments
    <3> QED BY <1>1, <3>1, KeptSame
  <2>2. ASSUME NEW t \in Tokens, NEW p \in Prices[t], PriceMove(t, p) PROVE CdpsKept
    BY <1>3, <2>2 DEF PriceMove
  <2> QED BY <1>10, <2>1, <2>2 DEF WorldStep
<1> QED BY <1>4, <1>5, <1>6, <1>7, <1>8, <1>9, <1>10 DEF Next

-----------------------------------------------------------------------------
(* The component's steps, each with the step of Redemption it implements *)

LEMMA ConstantsType ==
  /\ UnstakeEpochs \in Nat /\ UnstakeEpochs > 0 /\ MaxClaims \in Nat /\ MaxCdps \in Nat
  /\ Redeemed \subseteq Nat /\ Subsidies \subseteq Nat
  /\ XRD \in Tokens /\ NoDx \notin Tokens /\ SettleGas \in Nat
  BY EarningAssumption, ManagerAssumption

LEMMA ClaimType ==
  ASSUME EInv, NEW n \in 1..Len(claims)
  PROVE  /\ claims[n] \in UnstakeData
         /\ claims[n].claim_amount \in Nat /\ claims[n].claim_epoch \in Nat
<1>1. claims[n] \in UnstakeData
  BY DEF EInv, EarningFrame
<1> QED BY <1>1 DEF UnstakeData

\* Nothing of the manager changes: so do neither the loans nor the time.
LEMMA ManagerKept ==
  ASSUME EInv, UNCHANGED vars
  PROVE  IInv' /\ UNCHANGED <<cdps, cdp_vault, epoch, StakingCdps, Closed>>
<1>1. IInv'
  BY NextInv DEF EInv
<1> QED BY <1>1 DEF vars, StakingCdps, Closed, Ids

LEMMA VaultsKept ==
  ASSUME Vaults, UNCHANGED <<claim_nft_map, cdp_vault>>
  PROVE  Vaults'
  BY DEF Vaults, EscrowMatched

LEMMA VaultsGrow ==
  ASSUME Vaults, NEW n, n \notin claim_nft_map, NEW i, i \notin cdp_vault,
         claim_nft_map' = claim_nft_map \cup {n}, cdp_vault' = cdp_vault \cup {i}
  PROVE  Vaults'
<1>1. /\ IsFiniteSet(claim_nft_map) /\ IsFiniteSet(cdp_vault)
      /\ Cardinality(claim_nft_map) = Cardinality(cdp_vault)
  BY DEF Vaults, EscrowMatched
<1>2. /\ IsFiniteSet(claim_nft_map \cup {n})
      /\ Cardinality(claim_nft_map \cup {n}) = Cardinality(claim_nft_map) + 1
  BY <1>1, FS_AddElement
<1>3. /\ IsFiniteSet(cdp_vault \cup {i})
      /\ Cardinality(cdp_vault \cup {i}) = Cardinality(cdp_vault) + 1
  BY <1>1, FS_AddElement
<1> QED BY <1>1, <1>2, <1>3 DEF Vaults, EscrowMatched

LEMMA VaultsShrink ==
  ASSUME Vaults, NEW n \in claim_nft_map, NEW i \in cdp_vault,
         claim_nft_map' = claim_nft_map \ {n}, cdp_vault' = cdp_vault \ {i}
  PROVE  Vaults'
<1>1. /\ IsFiniteSet(claim_nft_map) /\ IsFiniteSet(cdp_vault)
      /\ Cardinality(claim_nft_map) = Cardinality(cdp_vault)
  BY DEF Vaults, EscrowMatched
<1>2. /\ IsFiniteSet(claim_nft_map \ {n})
      /\ Cardinality(claim_nft_map \ {n}) = Cardinality(claim_nft_map) - 1
  BY <1>1, FS_RemoveElement
<1>3. /\ IsFiniteSet(cdp_vault \ {i})
      /\ Cardinality(cdp_vault \ {i}) = Cardinality(cdp_vault) - 1
  BY <1>1, FS_RemoveElement
<1> QED BY <1>1, <1>2, <1>3 DEF Vaults, EscrowMatched

LEMMA RedeemStep ==
  ASSUME EInv, NEW amount \in Redeemed, Redeem(amount)
  PROVE  EInv' /\ Lifecycle!Next
<1> DEFINE n == Len(claims) + 1
<1>1. /\ n \in 1..MaxClaims /\ Len(claims) \in Nat /\ epoch \in Nat
      /\ claims \in Seq(UnstakeData)
  BY ConstantsType DEF EInv, EarningFrame, IInv, Books, Redeem, CanUnstake
<1>2. /\ IInv' /\ UNCHANGED <<cdps, cdp_vault, epoch, StakingCdps, Closed>>
      /\ UNCHANGED <<claim_nft_map, claimed>>
  BY ManagerKept DEF Redeem
<1>3. /\ Unstaked(amount) \in UnstakeData
      /\ Unstaked(amount).claim_epoch > epoch
  BY <1>1, ConstantsType DEF Unstaked, UnstakeData
<1>4. /\ claims' \in Seq(UnstakeData) /\ Len(claims') = n
      /\ claims'[n] = Unstaked(amount)
      /\ \A m \in 1..Len(claims) : claims'[m] = claims[m]
  BY <1>1, <1>3 DEF Redeem
<1>5. n \notin claim_nft_map \cup claimed
  BY <1>1 DEF EInv, EarningFrame, MaturedClaims
<1>6. Held' = Held \cup {n} /\ n \notin Held
  BY <1>1, <1>2, <1>4, <1>5 DEF Held
<1>7. MaturedClaims' = MaturedClaims /\ n \notin MaturedClaims
  <2>1. /\ MaturedClaims' = {m \in 1..Len(claims') : claims'[m].claim_epoch <= epoch'}
        /\ MaturedClaims = {m \in 1..Len(claims) : claims[m].claim_epoch <= epoch}
    BY DEF MaturedClaims, Matured
  <2>2. ~(claims'[n].claim_epoch <= epoch)
    BY <1>1, <1>3, <1>4 DEF UnstakeData
  <2>3. 1..Len(claims') = (1..Len(claims)) \cup {n} /\ n \notin 1..Len(claims)
    BY <1>1, <1>4
  <2> QED BY <1>2, <1>4, <2>1, <2>2, <2>3
<1>8. EarningFrame'
  BY <1>1, <1>2, <1>4, <1>7 DEF EInv, EarningFrame
<1>9. Lifecycle!Issue(n)
  BY <1>2, <1>5, <1>6, <1>7 DEF Lifecycle!Issue
<1>10. Vaults'
  BY <1>2, VaultsKept DEF EInv
<1> QED BY <1>1, <1>2, <1>8, <1>9, <1>10 DEF EInv, Lifecycle!Next

\* The loan given for a claim that has not matured.
LEMMA LoanGiven ==
  ASSUME EInv, NEW c \in UnstakeData, LendOn(c)
  PROVE  /\ IInv'
         /\ NextCdp \in 1..MaxCdps /\ NextCdp \notin cdp_vault \cup Closed
         /\ cdp_vault' = cdp_vault \cup {NextCdp}
         /\ StakingCdps' = StakingCdps \cup {NextCdp}
         /\ Closed' = Closed
         /\ Len(cdps') <= MaxCdps /\ epoch' = epoch
         /\ c.claim_epoch > epoch
<1> DEFINE rate == InterestRate(pools[XRD], Env(XRD), c.claim_amount).stable
           delta == c.claim_epoch - epoch
           x == NewCdp(NoDx, XRD, Principal(c, rate), c.claim_amount, 0, rate, TRUE)
<1>1. /\ c.claim_amount \in Nat /\ c.claim_epoch \in Nat /\ epoch \in Nat
      /\ Len(cdps) \in Nat /\ cdps \in Seq(CollateralDebtPosition) /\ cdp_vault \subseteq Ids
  BY DEF UnstakeData, EInv, IInv, Books, Frame
<1>2. c.claim_epoch > epoch /\ delta \in Nat
  BY <1>1 DEF LendOn, Matured
<1>3. /\ CompoundRate(rate, delta) # 0
      /\ StakingBorrow(Principal(c, rate), rate, c.claim_amount)
  BY Zenon DEF LendOn
<1>4. rate \in Int
  <2>1. Sound(pools[XRD], Env(XRD)) /\ Env(XRD) \in Environment
    BY ConstantsType, PoolSound DEF EInv, IInv
  <2>2. c.claim_amount \in Int
    BY <1>1
  <2>3. InterestRate(pools[XRD], Env(XRD), c.claim_amount) \in Rates
    BY <2>1, <2>2, InterestRateType
  <2> QED BY <2>3 DEF Rates
<1> HIDE DEF rate
<1>5. Principal(c, rate) \in Nat
  <2>1. CompoundRate(rate, delta) \in Int
    BY <1>2, <1>4, CompoundRateType
  <2>2. DDiv(c.claim_amount, CompoundRate(rate, delta)) \in Int
    <3>1. c.claim_amount \in Int
      BY <1>1
    <3> QED BY <1>3, <2>1, <3>1, DDivType
  <2>3. Principal(c, rate) \in Int
    BY <2>2, ConstantsType DEF Principal, CalcPrincipal
  <2>4. Principal(c, rate) >= 0
    BY <1>3 DEF StakingBorrow
  <2> QED BY <2>3, <2>4
<1>6. IInv'
  BY <1>1, <1>3, <1>4, <1>5, StakingBorrowStep DEF EInv
<1>7. /\ Len(cdps) < MaxCdps /\ cdps' = Append(cdps, x) /\ epoch' = epoch
      /\ cdp_vault' = cdp_vault \cup {NextCdp}
  BY <1>3, Zenon DEF StakingBorrow, NextCdp
<1>8. x.collateral_token = NoDx
  BY DEF NewCdp
<1> HIDE DEF x
<1>9. /\ Len(cdps') = NextCdp /\ cdps'[NextCdp] = x
      /\ \A i \in Ids : cdps'[i] = cdps[i]
  BY <1>1, <1>7 DEF NextCdp, Ids
<1>10. NextCdp \in 1..MaxCdps /\ NextCdp \notin Ids /\ Ids' = Ids \cup {NextCdp}
  BY <1>1, <1>7, <1>9, ConstantsType DEF NextCdp, Ids
<1>11. StakingCdps' = StakingCdps \cup {NextCdp} /\ StakingCdps \subseteq Ids
  BY <1>8, <1>9, <1>10 DEF StakingCdps
<1>12. Closed' = Closed /\ NextCdp \notin cdp_vault \cup Closed
  BY <1>1, <1>7, <1>10, <1>11 DEF Closed
<1> QED BY <1>2, <1>6, <1>7, <1>9, <1>10, <1>11, <1>12

\* The claims and their maturity after a loan: a claim that is new or held, and
\* has not matured, goes into escrow.
LEMMA EscrowStep ==
  ASSUME EInv, NEW n \in Nat, n > 0, n <= MaxClaims,
         n \notin claim_nft_map \cup claimed \cup MaturedClaims,
         NEW c \in UnstakeData, LendOn(c),
         claims' \in Seq(UnstakeData), Len(claims) <= Len(claims'), Len(claims') <= MaxClaims,
         1..Len(claims') = (1..Len(claims)) \cup {n},
         claims'[n].claim_epoch = c.claim_epoch,
         \A m \in 1..Len(claims) : claims'[m].claim_epoch = claims[m].claim_epoch,
         claim_nft_map' = Stored(n), claimed' = claimed
  PROVE  EInv' /\ Lifecycle!Next
<1>1. /\ IInv'
      /\ NextCdp \in 1..MaxCdps /\ NextCdp \notin cdp_vault \cup Closed
      /\ cdp_vault' = cdp_vault \cup {NextCdp}
      /\ StakingCdps' = StakingCdps \cup {NextCdp}
      /\ Closed' = Closed
      /\ Len(cdps') <= MaxCdps /\ epoch' = epoch
      /\ c.claim_epoch > epoch
  BY LoanGiven
<1>2. /\ epoch \in Nat /\ c.claim_epoch \in Nat /\ MaxClaims \in Nat
  BY ConstantsType DEF EInv, IInv, Books, UnstakeData
<1>3. claim_nft_map' = claim_nft_map \cup {n}
  BY DEF Stored
<1>4. Held' = Held \ {n}
  <2>1. Held' = (1..Len(claims')) \ (claim_nft_map' \cup claimed')
    BY DEF Held
  <2> QED BY <1>3, <2>1 DEF Held
<1>5. MaturedClaims' = MaturedClaims
  <2>1. /\ MaturedClaims' = {m \in 1..Len(claims') : claims'[m].claim_epoch <= epoch'}
        /\ MaturedClaims = {m \in 1..Len(claims) : claims[m].claim_epoch <= epoch}
    BY DEF MaturedClaims, Matured
  <2>2. ~(claims'[n].claim_epoch <= epoch)
    BY <1>1, <1>2
  <2> QED BY <1>1, <2>1, <2>2
<1>6. EarningFrame'
  BY <1>1, <1>3, <1>5 DEF EInv, EarningFrame
<1>7. n \in 1..MaxClaims
  BY <1>2
<1>8. Lifecycle!Escrow(n, NextCdp)
  BY <1>1, <1>3, <1>4, <1>5 DEF Lifecycle!Escrow
<1>9. Vaults'
  BY <1>1, <1>3, VaultsGrow DEF EInv
<1> QED BY <1>1, <1>6, <1>7, <1>8, <1>9 DEF EInv, Lifecycle!Next

LEMMA RedeemFasterStep ==
  ASSUME EInv, NEW amount \in Redeemed, RedeemFaster(amount)
  PROVE  EInv' /\ Lifecycle!Next
<1> DEFINE n == Len(claims) + 1
           c == Unstaked(amount)
           d == [c EXCEPT !.cdp = NextCdp]
<1>1. /\ n \in Nat /\ n > 0 /\ n <= MaxClaims /\ Len(claims) \in Nat /\ epoch \in Nat
      /\ claims \in Seq(UnstakeData) /\ MaxClaims \in Nat
  BY ConstantsType DEF EInv, EarningFrame, IInv, Books, RedeemFaster, CanUnstake
<1>2. c \in UnstakeData
  BY <1>1, ConstantsType DEF Unstaked, UnstakeData
<1>3. /\ LendOn(c) /\ claims' = Append(claims, d)
      /\ claim_nft_map' = Stored(n) /\ claimed' = claimed
  BY DEF RedeemFaster
<1>4. NextCdp \in Nat
  BY DEF NextCdp, EInv, IInv, Books
<1> HIDE DEF c
<1>5. d \in UnstakeData /\ d.claim_epoch = c.claim_epoch
  BY <1>2, <1>4 DEF UnstakeData
<1> HIDE DEF d
<1>6. /\ claims' \in Seq(UnstakeData) /\ Len(claims') = n /\ claims'[n] = d
      /\ \A m \in 1..Len(claims) : claims'[m] = claims[m]
  BY <1>1, <1>3, <1>5
<1>7. 1..Len(claims') = (1..Len(claims)) \cup {n}
  BY <1>1, <1>6
<1>8. n \notin claim_nft_map \cup claimed \cup MaturedClaims
  BY <1>1 DEF EInv, EarningFrame, MaturedClaims
<1>9. Len(claims) <= Len(claims') /\ Len(claims') <= MaxClaims
  BY <1>1, <1>6
<1> HIDE DEF n
<1> QED BY <1>1, <1>2, <1>3, <1>5, <1>6, <1>7, <1>8, <1>9, EscrowStep

LEMMA ClaimByLoanStep ==
  ASSUME EInv, NEW n \in Held, ClaimByLoan(n)
  PROVE  EInv' /\ Lifecycle!Next
<1> DEFINE c == claims[n]
           d == [c EXCEPT !.cdp = NextCdp]
<1>1. /\ Len(claims) \in Nat /\ Len(claims) <= MaxClaims /\ MaxClaims \in Nat
      /\ claims \in Seq(UnstakeData)
      /\ n \in 1..Len(claims) /\ n \notin claim_nft_map \cup claimed
  BY ConstantsType DEF EInv, EarningFrame, Held
<1>2. c \in UnstakeData
  BY <1>1, ClaimType
<1>3. /\ LendOn(c) /\ claims' = [claims EXCEPT ![n].cdp = NextCdp]
      /\ claim_nft_map' = Stored(n) /\ claimed' = claimed
  BY DEF ClaimByLoan
<1>4. NextCdp \in Nat
  BY DEF NextCdp, EInv, IInv, Books
<1>5. claims' = [claims EXCEPT ![n] = d]
  BY <1>1, <1>3
<1>6. n \notin MaturedClaims
  BY <1>3 DEF LendOn, MaturedClaims
<1> HIDE DEF c
<1>7. d \in UnstakeData /\ d.claim_epoch = c.claim_epoch
  BY <1>2, <1>4 DEF UnstakeData
<1> HIDE DEF d
<1>8. /\ claims' \in Seq(UnstakeData) /\ Len(claims') = Len(claims)
      /\ claims'[n] = d
      /\ \A m \in 1..Len(claims) : m # n => claims'[m] = claims[m]
  BY <1>1, <1>5, <1>7
<1>9. /\ 1..Len(claims') = (1..Len(claims)) \cup {n}
      /\ \A m \in 1..Len(claims) : claims'[m].claim_epoch = claims[m].claim_epoch
  BY <1>1, <1>7, <1>8 DEF c
<1>10. n \in Nat /\ n > 0 /\ n <= MaxClaims
  BY <1>1
<1>11. /\ n \notin claim_nft_map \cup claimed \cup MaturedClaims
       /\ Len(claims) <= Len(claims') /\ Len(claims') <= MaxClaims
       /\ claims'[n].claim_epoch = c.claim_epoch
  BY <1>1, <1>6, <1>7, <1>8
<1> QED BY <1>2, <1>3, <1>8, <1>9, <1>10, <1>11, EscrowStep

LEMMA ClaimMaturedStep ==
  ASSUME EInv, NEW n \in Held, ClaimMatured(n)
  PROVE  EInv' /\ Lifecycle!Next
<1>1. /\ n \in 1..Len(claims) /\ n \in 1..MaxClaims /\ n \notin claim_nft_map
      /\ n \in MaturedClaims
  BY ConstantsType DEF EInv, EarningFrame, Held, ClaimMatured, MaturedClaims
<1>2. /\ IInv' /\ UNCHANGED <<cdps, cdp_vault, epoch, StakingCdps, Closed>>
      /\ claimed' = claimed \cup {n} /\ UNCHANGED <<claims, claim_nft_map>>
  BY ManagerKept DEF ClaimMatured
<1>3. Held' = Held \ {n} /\ MaturedClaims' = MaturedClaims
  BY <1>2 DEF Held, MaturedClaims, Matured
<1>4. EarningFrame'
  BY <1>1, <1>2, <1>3 DEF EInv, EarningFrame
<1>5. Lifecycle!Cash(n)
  BY <1>1, <1>2, <1>3 DEF Lifecycle!Cash
<1>6. Vaults'
  BY <1>2, VaultsKept DEF EInv
<1> QED BY <1>1, <1>2, <1>4, <1>5, <1>6 DEF EInv, Lifecycle!Next

LEMMA SettleStep ==
  ASSUME EInv, NEW n \in claim_nft_map, NEW i \in cdp_vault, NEW subsidy \in Subsidies,
         Settle(n, i, subsidy)
  PROVE  EInv' /\ Lifecycle!Next
<1> DEFINE bucket == claims[n].claim_amount + subsidy
<1>1. /\ n \in 1..Len(claims) /\ n \in 1..MaxClaims /\ n \notin claimed
      /\ n \in MaturedClaims
  BY ConstantsType DEF EInv, EarningFrame, Settle, SettleReady, CanSettle, MaturedClaims
<1>2. /\ StakingRepay(i, bucket)
      /\ claim_nft_map' = claim_nft_map \ {n} /\ claimed' = claimed \cup {n}
      /\ claims' = claims
  BY Zenon DEF Settle
<1>3. bucket \in Nat
  BY <1>1, ClaimType, ConstantsType
<1> HIDE DEF bucket
<1>4. /\ IInv'
      /\ cdp_vault' = cdp_vault \ {i} /\ UNCHANGED <<cdps, epoch>>
  BY <1>2, <1>3, StakingRepayStep DEF EInv, StakingRepay, Burned
<1>5. StakingCdps' = StakingCdps /\ i \in StakingCdps /\ i \in 1..MaxCdps
  BY <1>4, ConstantsType DEF StakingCdps, Ids, EInv, EarningFrame, IInv, Books
<1>6. Closed' = Closed \cup {i}
  BY <1>4, <1>5 DEF Closed
<1>7. Held' = Held /\ MaturedClaims' = MaturedClaims
  BY <1>2, <1>4 DEF Held, MaturedClaims, Matured
<1>8. EarningFrame'
  BY <1>1, <1>2, <1>4, <1>5, <1>7 DEF EInv, EarningFrame
<1>9. Lifecycle!Settle(n, i)
  BY <1>1, <1>2, <1>4, <1>6, <1>7 DEF Lifecycle!Settle
<1>10. Vaults'
  BY <1>2, <1>4, VaultsShrink DEF EInv
<1> QED BY <1>1, <1>4, <1>5, <1>8, <1>9, <1>10 DEF EInv, Lifecycle!Next

\* What the step of anyone else lets happen is that claims mature.
LEMMA OthersStepRipens ==
  ASSUME EInv, OthersStep
  PROVE  EInv' /\ Lifecycle!Next
<1>1. /\ Next /\ UNCHANGED <<cdp_vault, claims, claim_nft_map, claimed>>
  BY DEF OthersStep, earning
<1>2. IInv' /\ CdpsKept
  BY <1>1, NextInv, NextKeepsCdps DEF EInv, EarningFrame
<1>3. /\ Len(cdps) \in Nat /\ epoch \in Nat /\ cdp_vault \subseteq Ids
      /\ Len(claims) \in Nat /\ MaxClaims \in Nat
      /\ \A n \in 1..Len(claims) : claims[n].claim_epoch \in Nat
  BY ClaimType, ConstantsType DEF EInv, EarningFrame, IInv, Books, Frame
<1>4. StakingCdps' = StakingCdps
  BY <1>2, <1>3 DEF StakingCdps, CdpsKept, Ids
<1>5. Closed' = Closed /\ Held' = Held
  BY <1>1, <1>4 DEF Closed, Held
<1> DEFINE T == MaturedClaims' \ MaturedClaims
<1>6. MaturedClaims \subseteq MaturedClaims' /\ MaturedClaims' \subseteq 1..Len(claims)
  BY <1>1, <1>2, <1>3 DEF MaturedClaims, Matured, CdpsKept
<1>7. claimed \subseteq MaturedClaims
  BY DEF EInv, EarningFrame
<1>8. EarningFrame'
  BY <1>1, <1>2, <1>4, <1>6 DEF EInv, EarningFrame, CdpsKept
<1>9. T \subseteq Held \cup claim_nft_map
  BY <1>6, <1>7 DEF Held
<1>10. T \in SUBSET (1..MaxClaims) /\ MaturedClaims' = MaturedClaims \cup T
  <2>1. Len(claims) <= MaxClaims
    BY DEF EInv, EarningFrame
  <2>2. 1..Len(claims) \subseteq 1..MaxClaims
    BY <1>3, <2>1
  <2> QED BY <1>6, <2>2
<1>11. Lifecycle!Ripen(T)
  BY <1>1, <1>5, <1>9, <1>10 DEF Lifecycle!Ripen
<1>12. Vaults'
  BY <1>1, VaultsKept DEF EInv
<1> QED BY <1>2, <1>8, <1>10, <1>11, <1>12 DEF EInv, Lifecycle!Next

-----------------------------------------------------------------------------
(* The theorems *)

LEMMA InitEarning == EarningInit => EInv /\ Lifecycle!Init
<1> SUFFICES ASSUME EarningInit PROVE EInv /\ Lifecycle!Init
  OBVIOUS
<1>1. /\ IInv /\ cdps = <<>> /\ cdp_vault = {}
      /\ claims = <<>> /\ claim_nft_map = {} /\ claimed = {}
  BY InitInv DEF EarningInit, Init
<1>2. Held = {} /\ StakingCdps = {} /\ Closed = {} /\ MaturedClaims = {}
  BY <1>1 DEF Held, StakingCdps, Closed, MaturedClaims, Ids
<1>3. EarningFrame
  BY <1>1, <1>2, ConstantsType DEF EarningFrame
<1>4. Vaults
  BY <1>1, FS_EmptySet DEF Vaults, EscrowMatched
<1> QED BY <1>1, <1>2, <1>3, <1>4 DEF EInv, Lifecycle!Init

LEMMA NextEarning ==
  EInv /\ [EarningNext]_earningVars => EInv' /\ [Lifecycle!Next]_(Lifecycle!redemption)
<1> SUFFICES ASSUME EInv, [EarningNext]_earningVars
             PROVE  EInv' /\ [Lifecycle!Next]_(Lifecycle!redemption)
  OBVIOUS
<1>1. ASSUME NEW amount \in Redeemed, Redeem(amount) \/ RedeemFaster(amount)
      PROVE  EInv' /\ Lifecycle!Next
  BY <1>1, RedeemStep, RedeemFasterStep
<1>2. ASSUME NEW n \in Held, ClaimMatured(n) \/ ClaimByLoan(n)
      PROVE  EInv' /\ Lifecycle!Next
  BY <1>2, ClaimMaturedStep, ClaimByLoanStep
<1>3. ASSUME NEW n \in claim_nft_map, NEW i \in cdp_vault, NEW subsidy \in Subsidies,
             Settle(n, i, subsidy)
      PROVE  EInv' /\ Lifecycle!Next
  BY <1>3, SettleStep
<1>4. CASE OthersStep
  BY <1>4, OthersStepRipens
<1>5. ASSUME UNCHANGED <<vars, claims, claim_nft_map, claimed>>
      PROVE  EInv' /\ UNCHANGED Lifecycle!redemption
  <2>1. IInv' /\ UNCHANGED <<cdps, cdp_vault, epoch, StakingCdps, Closed>>
    BY <1>5, ManagerKept
  <2>2. Held' = Held /\ MaturedClaims' = MaturedClaims
    BY <1>5, <2>1 DEF Held, MaturedClaims, Matured
  <2>3. Vaults'
    BY <1>5, <2>1, VaultsKept DEF EInv
  <2> QED BY <1>5, <2>1, <2>2, <2>3 DEF EInv, EarningFrame, Lifecycle!redemption
<1>6. ASSUME \/ \E amount \in RelayerFees : WithdrawRelayerFee(amount)
             \/ \E n \in UnstakeSettings : SetUnstakeEpochNum(n)
             \/ UNCHANGED earningVars
      PROVE  UNCHANGED <<vars, claims, claim_nft_map, claimed>>
  BY <1>6 DEF WithdrawRelayerFee, SetUnstakeEpochNum, earningVars, earning
<1> QED BY <1>1, <1>2, <1>3, <1>4, <1>5, <1>6 DEF EarningNext

\* Redeeming, lending and settling in whichever order, with whatever amounts,
\* subsidies and calls of others in between, is what Redemption says.
THEOREM Implementation == EarningSpec => ImplementsRedemption
  BY InitEarning, NextEarning, PTL
     DEF EarningSpec, ImplementsRedemption, Lifecycle!Spec

\* There is a CDP in the manager's vault for every claim in the component's: no
\* order of redemptions and settlements leaves one without the other.
THEOREM EscrowMatchedHolds == EarningSpec => []EscrowMatched
<1>1. EarningSpec => []EInv
  BY InitEarning, NextEarning, PTL DEF EarningSpec
<1>2. EInv => EscrowMatched
  BY DEF EInv, Vaults
<1> QED BY <1>1, <1>2, PTL

-----------------------------------------------------------------------------
(* What a claim's life, as Redemption has it, comes to *)

RedemptionInv ==
  /\ Lifecycle!Type /\ Lifecycle!Apart /\ Lifecycle!OnlyMaturePaid
  /\ MaturedClaims \subseteq Held \cup claim_nft_map \cup claimed
  /\ Vaults

LEMMA InitRedemption == Lifecycle!Init => RedemptionInv
<1> SUFFICES ASSUME Lifecycle!Init PROVE RedemptionInv
  OBVIOUS
<1>1. Vaults
  BY FS_EmptySet DEF Lifecycle!Init, Vaults, EscrowMatched
<1> QED BY <1>1
       DEF Lifecycle!Init, RedemptionInv, Lifecycle!Type, Lifecycle!Apart, Lifecycle!OnlyMaturePaid

LEMMA NextRedemption ==
  RedemptionInv /\ [Lifecycle!Next]_(Lifecycle!redemption) => RedemptionInv'
<1> SUFFICES ASSUME RedemptionInv, [Lifecycle!Next]_(Lifecycle!redemption)
             PROVE  RedemptionInv'
  OBVIOUS
<1> USE DEF Lifecycle!Type, Lifecycle!Apart, Lifecycle!OnlyMaturePaid
<1>1. ASSUME NEW c \in 1..MaxClaims, Lifecycle!Issue(c) PROVE RedemptionInv'
  BY <1>1, VaultsKept DEF RedemptionInv, Lifecycle!Issue
<1>2. ASSUME NEW c \in 1..MaxClaims, Lifecycle!Cash(c) PROVE RedemptionInv'
  BY <1>2, VaultsKept DEF RedemptionInv, Lifecycle!Cash
<1>3. ASSUME NEW S \in SUBSET (1..MaxClaims), Lifecycle!Ripen(S) PROVE RedemptionInv'
  BY <1>3, VaultsKept DEF RedemptionInv, Lifecycle!Ripen
<1>4. ASSUME NEW c \in 1..MaxClaims, NEW l \in 1..MaxCdps, Lifecycle!Escrow(c, l)
      PROVE  RedemptionInv'
  <2>1. Vaults'
    BY <1>4, VaultsGrow DEF RedemptionInv, Lifecycle!Escrow
  <2> QED BY <1>4, <2>1 DEF RedemptionInv, Lifecycle!Escrow
<1>5. ASSUME NEW c \in 1..MaxClaims, NEW l \in 1..MaxCdps, Lifecycle!Settle(c, l)
      PROVE  RedemptionInv'
  <2>1. Vaults'
    BY <1>5, VaultsShrink DEF RedemptionInv, Lifecycle!Settle
  <2> QED BY <1>5, <2>1 DEF RedemptionInv, Lifecycle!Settle
<1>6. CASE UNCHANGED Lifecycle!redemption
  BY <1>6, VaultsKept DEF Lifecycle!redemption, RedemptionInv
<1> QED BY <1>1, <1>2, <1>3, <1>4, <1>5, <1>6 DEF Lifecycle!Next

\* What implements Redemption pays a claim once and when it is mature, and has a
\* loan open for every claim in escrow.
THEOREM RedemptionSafe ==
  Lifecycle!Spec => [](Lifecycle!Apart /\ Lifecycle!OnlyMaturePaid /\ Lifecycle!Matched)
<1>1. Lifecycle!Spec => []RedemptionInv
  BY InitRedemption, NextRedemption, PTL DEF Lifecycle!Spec
<1>2. RedemptionInv => Lifecycle!Apart /\ Lifecycle!OnlyMaturePaid /\ Lifecycle!Matched
  <2>1. \A S : Lifecycle!Cardinality(S) = Cardinality(S)
    BY DEF Lifecycle!Cardinality, Cardinality
  <2> QED BY <2>1 DEF RedemptionInv, Vaults, EscrowMatched, Lifecycle!Matched
<1> QED BY <1>1, <1>2, PTL

\* So does the component: no claim is paid twice, to two parties or before its
\* epoch, whatever is redeemed, lent, settled and done to the manager.
THEOREM ClaimsPaidOnce ==
  EarningSpec => [](Lifecycle!Apart /\ Lifecycle!OnlyMaturePaid /\ Lifecycle!Matched)
BY Implementation, RedemptionSafe, PTL DEF ImplementsRedemption

-----------------------------------------------------------------------------
(* Principal that a settlement leaves without a CDP *)

\* The rate and the principal that claim_xrd lends at are not negative.
LEMMA LoanTerms ==
  ASSUME EInv, NEW c \in UnstakeData, LendOn(c)
  PROVE  \E amount \in Nat, rate \in Nat : StakingBorrow(amount, rate, c.claim_amount)
<1> DEFINE rate == InterestRate(pools[XRD], Env(XRD), c.claim_amount).stable
           delta == c.claim_epoch - epoch
<1>1. /\ c.claim_amount \in Nat /\ c.claim_epoch \in Nat /\ epoch \in Nat /\ IInv
  BY DEF UnstakeData, EInv, IInv, Books
<1>2. delta \in Nat
  BY <1>1 DEF LendOn, Matured
<1>3. /\ CompoundRate(rate, delta) # 0
      /\ StakingBorrow(Principal(c, rate), rate, c.claim_amount)
  BY Zenon DEF LendOn
<1>4. rate \in Nat
  <2>1. Sound(pools[XRD], Env(XRD)) /\ Env(XRD) \in Environment /\ c.claim_amount \in Int
    BY <1>1, ConstantsType, PoolSound DEF IInv
  <2> QED BY <2>1, StableRateNat
<1> HIDE DEF rate, delta
<1>5. Principal(c, rate) \in Nat
  <2>1. rate \in Int /\ c.claim_amount \in Int
    BY <1>1, <1>4
  <2>2. CompoundRate(rate, delta) \in Int
    BY <1>2, <2>1, CompoundRateType
  <2>3. DDiv(c.claim_amount, CompoundRate(rate, delta)) \in Int
    BY <1>3, <2>1, <2>2, DDivType
  <2>4. Principal(c, rate) \in Int
    BY <2>3, ConstantsType DEF Principal, CalcPrincipal, delta
  <2>5. Principal(c, rate) >= 0
    BY <1>3 DEF StakingBorrow
  <2> QED BY <2>4, <2>5
<1> QED BY <1>3, <1>4, <1>5

\* What a step of the manager's books does where it is not a settlement.
BooksFollow == Debtors' /\ NoneOrphaned(XRD)

LEMMA LendingFollows ==
  ASSUME EInv, EInv', Debtors, NEW c \in UnstakeData, LendOn(c)
  PROVE  BooksFollow
<1>1. IInv /\ IInv' /\ XRD \in Tokens
  BY ConstantsType DEF EInv
<1>2. PICK amount \in Nat, rate \in Nat : StakingBorrow(amount, rate, c.claim_amount)
  BY LoanTerms
<1>3. LoansFollow
  BY <1>1, <1>2, StakingBorrowOrphansNone
<1> QED BY <1>1, <1>3 DEF LoansFollow, BooksFollow

LEMMA OthersFollow ==
  ASSUME EInv, EInv', Debtors, [Next]_vars, cdp_vault' = cdp_vault
  PROVE  BooksFollow
<1>1. IInv /\ IInv' /\ XRD \in Tokens
  BY ConstantsType DEF EInv
<1>2. ~\E i \in cdp_vault, bucket \in Inputs["claim"] : StakingRepay(i, bucket)
  BY DEF StakingRepay, Burned
<1>3. LoansFollow
  BY <1>1, <1>2, NextOrphans
<1> QED BY <1>1, <1>3 DEF LoansFollow, BooksFollow

\* The settlement of claim n on CDP i leaves no more than it was short.
LEMMA SettlementFollows ==
  ASSUME EInv, EInv', Debtors,
         NEW n \in claim_nft_map, NEW i \in cdp_vault, NEW subsidy \in Subsidies,
         Settle(n, i, subsidy)
  PROVE  /\ Debtors'
         /\ \/ NoneOrphaned(XRD)
            \/ /\ Settles(n, i)
               /\ Orphan(XRD)' <= Orphan(XRD) + (Owed(i) - claims[n].claim_amount)
<1> DEFINE bucket == claims[n].claim_amount + subsidy
<1>1. IInv /\ IInv' /\ XRD \in Tokens
  BY ConstantsType DEF EInv
<1>2. /\ StakingRepay(i, bucket)
      /\ claim_nft_map' = claim_nft_map \ {n} /\ cdp_vault' = cdp_vault \ {i}
  BY Zenon DEF Settle, StakingRepay, Burned
<1>3. claims[n].claim_amount \in Nat /\ subsidy \in Nat
  <2>1. n \in 1..Len(claims)
    BY DEF EInv, EarningFrame
  <2> QED BY <2>1, ClaimType, ConstantsType
<1>4. bucket \in Int /\ bucket >= claims[n].claim_amount
  BY <1>3
<1> HIDE DEF bucket
<1>5. Debtors'
  BY <1>1, <1>2, <1>4, StakingRepayOrphans
<1>6. \/ NoneOrphaned(XRD)
      \/ Orphan(XRD)' <= Orphan(XRD) + (Owed(i) - bucket)
  BY <1>1, <1>2, <1>4, StakingRepayOrphans
<1>7. Orphan(XRD) \in Int /\ Orphan(XRD)' \in Int /\ Owed(i) \in Int
  <2>1. Orphan(XRD) \in Int
    BY <1>1, StableClaimsNow
  <2>2. Orphan(XRD)' \in Int
    BY <1>1, StableClaimsNext
  <2> QED BY <1>1, <2>1, <2>2, OwedBounds
<1>8. Settles(n, i)
  BY <1>2 DEF Settles
<1> QED BY <1>3, <1>4, <1>5, <1>6, <1>7, <1>8

LEMMA EarningFollows ==
  ASSUME EInv, EInv', Debtors, [EarningNext]_earningVars
  PROVE  /\ Debtors'
         /\ \/ NoneOrphaned(XRD)
            \/ \E n \in claim_nft_map, i \in cdp_vault :
                 /\ Settles(n, i)
                 /\ Orphan(XRD)' <= Orphan(XRD) + (Owed(i) - claims[n].claim_amount)
<1>1. ASSUME NEW c \in UnstakeData, LendOn(c) PROVE BooksFollow
  BY <1>1, LendingFollows
<1>2. ASSUME UNCHANGED vars PROVE BooksFollow
  BY <1>2, OthersFollow DEF vars
<1>3. ASSUME NEW amount \in Redeemed, RedeemFaster(amount) PROVE BooksFollow
  <2>1. Unstaked(amount) \in UnstakeData
    BY ConstantsType DEF Unstaked, UnstakeData, EInv, IInv, Books
  <2> QED BY <1>1, <1>3, <2>1 DEF RedeemFaster
<1>4. ASSUME NEW n \in Held, ClaimByLoan(n) PROVE BooksFollow
  <2>1. claims[n] \in UnstakeData
    BY ClaimType DEF Held
  <2> QED BY <1>1, <1>4, <2>1 DEF ClaimByLoan
<1>5. CASE OthersStep
  <2>1. [Next]_vars /\ cdp_vault' = cdp_vault
    BY <1>5 DEF OthersStep
  <2> QED BY <2>1, OthersFollow DEF BooksFollow
<1>6. ASSUME NEW n \in claim_nft_map, NEW i \in cdp_vault, NEW subsidy \in Subsidies,
             Settle(n, i, subsidy)
      PROVE  /\ Debtors'
             /\ \/ NoneOrphaned(XRD)
                \/ /\ Settles(n, i)
                   /\ Orphan(XRD)' <= Orphan(XRD) + (Owed(i) - claims[n].claim_amount)
  BY <1>6, SettlementFollows
<1>7. ASSUME \/ \E amount \in Redeemed : Redeem(amount)
             \/ \E n \in Held : ClaimMatured(n)
             \/ \E amount \in RelayerFees : WithdrawRelayerFee(amount)
             \/ \E n \in UnstakeSettings : SetUnstakeEpochNum(n)
             \/ UNCHANGED earningVars
      PROVE  UNCHANGED vars
  BY <1>7 DEF Redeem, ClaimMatured, WithdrawRelayerFee, SetUnstakeEpochNum, earningVars
<1> QED BY <1>2, <1>3, <1>4, <1>5, <1>6, <1>7 DEF EarningNext, BooksFollow

LEMMA InitEarningDebtors == EarningInit => Debtors
  BY InitDebtors DEF EarningInit

LEMMA EarningDebtors == EarningSpec => []Debtors
<1>1. EInv /\ EInv' /\ Debtors /\ [EarningNext]_earningVars => Debtors'
  BY EarningFollows
<1> QED BY <1>1, InitEarning, NextEarning, InitEarningDebtors, PTL DEF EarningSpec

\* settle burns the CDP that it is given whatever the claim pays: only so is
\* principal left in the pool's book that no CDP owes, and never more of it than
\* the claim was short of the debt, whichever claim is settled on whichever CDP
\* and whatever others borrow, repay and withdraw in between.
THEOREM OrphanedByShortSettlementHolds == EarningSpec => OrphanedByShortSettlement
<1> DEFINE ShortSettlement ==
             Orphaned' > Orphaned /\ Orphaned' > 0 =>
               \E n \in claim_nft_map : \E i \in cdp_vault :
                 /\ Settles(n, i)
                 /\ Orphaned' - (IF Orphaned > 0 THEN Orphaned ELSE 0)
                      <= Debt(i) - claims[n].claim_amount + (Unit(XRD) - 1)
<1>1. EInv /\ EInv' /\ Debtors /\ [EarningNext]_earningVars => ShortSettlement
  <2> SUFFICES ASSUME EInv, EInv', Debtors,
                      [EarningNext]_earningVars, Orphaned' > Orphaned, Orphaned' > 0
               PROVE  \E n \in claim_nft_map : \E i \in cdp_vault :
                        /\ Settles(n, i)
                        /\ Orphaned' - (IF Orphaned > 0 THEN Orphaned ELSE 0)
                             <= Debt(i) - claims[n].claim_amount + (Unit(XRD) - 1)
    OBVIOUS
  <2>1. /\ IInv /\ IInv' /\ XRD \in Tokens
        /\ Orphan(XRD) = Orphaned /\ Orphan(XRD)' = Orphaned'
    BY ConstantsType DEF EInv, Orphan, Orphaned
  <2>2. Orphaned \in Int /\ Orphaned' \in Int
    <3>1. Orphan(XRD) \in Int
      BY <2>1, StableClaimsNow
    <3>2. Orphan(XRD)' \in Int
      BY <2>1, StableClaimsNext
    <3> QED BY <2>1, <3>1, <3>2
  <2>3. ~NoneOrphaned(XRD)
    BY <2>1, <2>2 DEF NoneOrphaned
  <2>4. PICK n \in claim_nft_map, i \in cdp_vault :
          /\ Settles(n, i)
          /\ Orphan(XRD)' <= Orphan(XRD) + (Owed(i) - claims[n].claim_amount)
    BY <2>3, EarningFollows
  <2>5. /\ Owed(i) \in Int /\ Debt(i) \in Int /\ Unit(XRD) \in Int
        /\ Owed(i) <= Debt(i) + (Unit(XRD) - 1)
    BY <2>1, OwedBounds
  <2>6. claims[n].claim_amount \in Int
    <3>1. n \in 1..Len(claims)
      BY DEF EInv, EarningFrame
    <3> QED BY <3>1, ClaimType
  <2>7. Orphaned' - (IF Orphaned > 0 THEN Orphaned ELSE 0)
          <= Debt(i) - claims[n].claim_amount + (Unit(XRD) - 1)
    BY <2>1, <2>2, <2>4, <2>5, <2>6
  <2> QED BY <2>4, <2>7
<1>2. [](EInv /\ Debtors) /\ [][EarningNext]_earningVars
        => [][ShortSettlement]_earningVars
  <2> HIDE DEF ShortSettlement
  <2> QED BY <1>1, PTL
<1>3. OrphanedByShortSettlement <=> [][ShortSettlement]_earningVars
  BY PTL DEF OrphanedByShortSettlement
<1> HIDE DEF ShortSettlement
<1> QED BY <1>2, <1>3, EarningDebtors, InitEarning, NextEarning, PTL DEF EarningSpec

-----------------------------------------------------------------------------
(* What a claim in escrow covers *)

\* The debt of a CDP in epoch `at` if nothing is paid.
GrownDebt(cdp, at) ==
  CompoundInterest(cdp.borrow_amount, cdp.stable_rate, at - cdp.last_update_epoch)

\* A principal that is the discounted claim less the gas grows to no more than
\* the claim less the gas, however the divisions are truncated.
LEMMA DiscountCovers ==
  ASSUME NEW a \in Nat, NEW r \in Nat, r >= ONE, NEW gas \in Nat, DDiv(a, r) - gas \in Nat
  PROVE  DMul(DDiv(a, r) - gas, r) + gas <= a
<1> DEFINE d == DDiv(a, r)
           p == d - gas
           m == DMul(p, r)
<1>1. ONE \in Nat /\ ONE > 0 /\ r \in Nat \ {0} /\ r \in Int /\ p \in Nat
  BY DecimalsAssumption
<1>2. /\ a * ONE \in Nat /\ d \in Nat /\ d * r \in Nat /\ d * r <= a * ONE
  BY <1>1, DDivBounds
<1>3. p * r \in Nat /\ m \in Nat /\ m * ONE \in Nat /\ m * ONE <= p * r
  BY <1>1, DMulBounds
<1>4. gas * r \in Int /\ gas * ONE \in Int /\ ONE * gas <= r * gas
  BY <1>1, TimesMonotone
<1>5. ONE * gas = gas * ONE /\ r * gas = gas * r
  BY <1>1
<1>6. p * r = d * r - gas * r
  <2> HIDE DEF d
  <2> QED BY <1>1, <1>2 DEF p
<1> HIDE DEF p, m, d
<1>7. m * ONE + gas * ONE <= a * ONE
  BY <1>2, <1>3, <1>4, <1>5, <1>6
<1>8. (m + gas) * ONE = m * ONE + gas * ONE
  BY <1>1, <1>3
<1>9. ~(m + gas >= a + 1)
  <2> SUFFICES ASSUME m + gas >= a + 1 PROVE FALSE
    OBVIOUS
  <2>1. (a + 1) * ONE <= (m + gas) * ONE
    BY <1>1, <1>3, TimesMonotone
  <2>2. (a + 1) * ONE = a * ONE + ONE
    BY <1>1
  <2> QED BY <1>1, <1>2, <1>3, <1>4, <1>7, <1>8, <2>1, <2>2
<1> QED BY <1>3, <1>9 DEF p, d, m

\* The loan that a claim is taken for.
LEMMA LoanCovered ==
  ASSUME EInv, NEW c \in UnstakeData, LendOn(c)
  PROVE  \E x : /\ cdps' = Append(cdps, x)
                /\ cdp_vault' = cdp_vault \cup {NextCdp}
                /\ GrownDebt(x, c.claim_epoch) + SettleGas <= c.claim_amount
<1> DEFINE rate == InterestRate(pools[XRD], Env(XRD), c.claim_amount).stable
           delta == c.claim_epoch - epoch
           x == NewCdp(NoDx, XRD, Principal(c, rate), c.claim_amount, 0, rate, TRUE)
<1>1. /\ c.claim_amount \in Nat /\ c.claim_epoch \in Nat /\ epoch \in Nat /\ IInv
  BY DEF UnstakeData, EInv, IInv, Books
<1>2. delta \in Nat
  BY <1>1 DEF LendOn, Matured
<1>3. /\ CompoundRate(rate, delta) # 0
      /\ StakingBorrow(Principal(c, rate), rate, c.claim_amount)
  BY Zenon DEF LendOn
<1>4. rate \in Nat
  <2>1. Sound(pools[XRD], Env(XRD)) /\ Env(XRD) \in Environment /\ c.claim_amount \in Int
    BY <1>1, ConstantsType, PoolSound DEF IInv
  <2> QED BY <2>1, StableRateNat
<1>5. cdps' = Append(cdps, x) /\ cdp_vault' = cdp_vault \cup {NextCdp}
  BY <1>3, Zenon DEF StakingBorrow, NextCdp
<1>6. /\ x.borrow_amount = Principal(c, rate) /\ x.stable_rate = rate
      /\ x.last_update_epoch = epoch
  <2> HIDE DEF rate
  <2> QED BY DEF NewCdp
<1> HIDE DEF rate, delta, x
<1> DEFINE r == CompoundRate(rate, delta)
<1>7. r \in Nat /\ r >= ONE
  BY <1>2, <1>4, CompoundRateGrows
<1>8. Principal(c, rate) = DDiv(c.claim_amount, r) - SettleGas
  BY DEF Principal, CalcPrincipal, delta
<1>9. Principal(c, rate) \in Nat
  <2>1. r # 0 /\ r \in Int /\ c.claim_amount \in Int
    BY <1>1, <1>3, <1>7
  <2> HIDE DEF r
  <2>2. DDiv(c.claim_amount, r) \in Int
    BY <2>1, DDivType
  <2>3. Principal(c, rate) >= 0
    BY <1>3 DEF StakingBorrow
  <2> QED BY <1>8, <2>2, <2>3, ConstantsType
<1>10. GrownDebt(x, c.claim_epoch) = DMul(Principal(c, rate), r)
  BY <1>6 DEF GrownDebt, CompoundInterest, delta
<1> HIDE DEF r
<1>11. DMul(Principal(c, rate), r) + SettleGas <= c.claim_amount
  BY <1>1, <1>7, <1>8, <1>9, ConstantsType, DiscountCovers
<1> QED BY <1>5, <1>10, <1>11

\* Each claim in escrow covers the loan it was taken for.
ClaimCovers(n) ==
  LET i == claims[n].cdp
  IN  /\ i \in Ids
      /\ i \in cdp_vault =>
           GrownDebt(cdps[i], claims[n].claim_epoch) + SettleGas <= claims[n].claim_amount

EscrowSound == \A n \in claim_nft_map : ClaimCovers(n)

\* Where claims, and the CDPs of the vault, stay what they are.
LEMMA EscrowLeft ==
  ASSUME EInv, EscrowSound, Len(cdps') \in Nat, Len(cdps) <= Len(cdps'),
         cdp_vault' \cap Ids \subseteq cdp_vault,
         \A i \in cdp_vault \cap cdp_vault' : cdps'[i] = cdps[i],
         NEW n \in claim_nft_map, claims'[n] = claims[n]
  PROVE  ClaimCovers(n)'
<1> DEFINE i == claims[n].cdp
           at == claims[n].claim_epoch
           a == claims[n].claim_amount
<1>1. /\ i \in Ids /\ Len(cdps) \in Nat
      /\ i \in cdp_vault => GrownDebt(cdps[i], at) + SettleGas <= a
  BY DEF EscrowSound, ClaimCovers, EInv, IInv, Books
<1>2. i \in Ids'
  BY <1>1 DEF Ids
<1>3. ASSUME i \in cdp_vault' PROVE GrownDebt(cdps'[i], at) + SettleGas <= a
  BY <1>1, <1>3
<1>4. claims'[n].cdp = i /\ claims'[n].claim_epoch = at /\ claims'[n].claim_amount = a
  OBVIOUS
<1> HIDE DEF i, at, a
<1> QED BY <1>2, <1>3, <1>4 DEF ClaimCovers, GrownDebt

LEMMA EscrowGrows ==
  ASSUME EInv, EscrowSound,
         NEW n \in Nat, n \notin claim_nft_map,
         NEW c \in UnstakeData, LendOn(c),
         claims'[n].cdp = NextCdp, claims'[n].claim_epoch = c.claim_epoch,
         claims'[n].claim_amount = c.claim_amount,
         \A m \in claim_nft_map : claims'[m] = claims[m],
         claim_nft_map' = Stored(n)
  PROVE  EscrowSound'
<1>1. PICK x : /\ cdps' = Append(cdps, x)
               /\ cdp_vault' = cdp_vault \cup {NextCdp}
               /\ GrownDebt(x, c.claim_epoch) + SettleGas <= c.claim_amount
  BY LoanCovered
<1>2. /\ Len(cdps) \in Nat /\ cdps \in Seq(CollateralDebtPosition) /\ cdp_vault \subseteq Ids
  BY DEF EInv, IInv, Books, Frame
<1>3. /\ Len(cdps') = Len(cdps) + 1 /\ cdps'[NextCdp] = x
      /\ \A i \in Ids : cdps'[i] = cdps[i]
      /\ NextCdp \notin Ids /\ NextCdp \in Ids'
  BY <1>1, <1>2 DEF NextCdp, Ids
<1>4. ASSUME NEW m \in claim_nft_map PROVE ClaimCovers(m)'
  <2>1. Len(cdps') \in Nat /\ Len(cdps) <= Len(cdps')
    BY <1>2, <1>3
  <2>2. cdp_vault' \cap Ids \subseteq cdp_vault
    BY <1>1, <1>3
  <2>3. \A i \in cdp_vault \cap cdp_vault' : cdps'[i] = cdps[i]
    BY <1>2, <1>3
  <2>4. claims'[m] = claims[m]
    OBVIOUS
  <2> QED BY <2>1, <2>2, <2>3, <2>4, EscrowLeft, Zenon
<1>5. ClaimCovers(n)'
  <2>1. claims'[n].cdp \in Ids'
    BY <1>3
  <2>2. GrownDebt(cdps'[claims'[n].cdp], claims'[n].claim_epoch) + SettleGas
          <= claims'[n].claim_amount
    BY <1>1, <1>3
  <2> QED BY <2>1, <2>2 DEF ClaimCovers, GrownDebt
<1> QED BY <1>4, <1>5 DEF EscrowSound, Stored

\* A step that leaves the claims' vault, and the CDPs of the manager's, alone or
\* takes some of them out.
LEMMA EscrowKept ==
  ASSUME EInv, EscrowSound, Len(cdps') \in Nat, Len(cdps) <= Len(cdps'),
         cdp_vault' \subseteq cdp_vault, \A i \in cdp_vault : cdps'[i] = cdps[i],
         claim_nft_map' \subseteq claim_nft_map,
         \A n \in claim_nft_map : claims'[n] = claims[n]
  PROVE  EscrowSound'
<1>1. ASSUME NEW n \in claim_nft_map' PROVE ClaimCovers(n)'
  <2>1. /\ n \in claim_nft_map /\ claims'[n] = claims[n]
        /\ cdp_vault' \cap Ids \subseteq cdp_vault
        /\ \A i \in cdp_vault \cap cdp_vault' : cdps'[i] = cdps[i]
    OBVIOUS
  <2> QED BY <2>1, EscrowLeft, Zenon
<1> QED BY <1>1 DEF EscrowSound

\* Nobody pays a staking loan off in part.
NoneRepaid == \A i \in cdp_vault, bucket \in Inputs["repay"] : ~Repay(i, bucket)

\* The other calls leave the staking CDPs alone.
LEMMA StakedLeft ==
  ASSUME EInv, Next, cdp_vault' = cdp_vault, NoneRepaid, NEW j \in cdp_vault
  PROVE  cdps'[j] = cdps[j]
<1>1. /\ IInv /\ Len(cdps) \in Nat /\ cdps \in Seq(CollateralDebtPosition)
      /\ j \in 1..Len(cdps) /\ j \notin Pledged
  BY DEF EInv, EarningFrame, IInv, Books, StakingCdps, Pledged, Ids
<1>2. ASSUME NEW i \in Pledged, NEW x, cdps' = [cdps EXCEPT ![i] = x]
      PROVE  cdps'[j] = cdps[j]
  BY <1>1, <1>2
<1>3. CASE DepositStep
  BY <1>3 DEF DepositStep, Supply, Withdraw, OnlyPools
<1>4. CASE LoanStep
  <2>1. ASSUME NEW x, cdps' = Append(cdps, x) PROVE cdps'[j] = cdps[j]
    BY <1>1, <2>1
  <2>2. ASSUME NEW m \in Markets, NEW dx, NEW amount,
               BorrowVariable(m[1], m[2], dx, amount) \/ BorrowStable(m[1], m[2], dx, amount)
        PROVE  \E x : cdps' = Append(cdps, x)
    BY <2>2, Zenon DEF BorrowVariable, BorrowStable, PoolsAndCdps
  <2>3. ASSUME NEW i \in Pledged, NEW amount, ExtendVariable(i, amount) \/ ExtendStable(i, amount)
        PROVE  cdps'[j] = cdps[j]
    <3>1. i # j
      BY <1>1
    <3>2. CASE ExtendVariable(i, amount)
      BY <1>1, <3>1, <3>2 DEF ExtendVariable
    <3>3. CASE ExtendStable(i, amount)
      BY <1>1, <3>1, <3>3 DEF ExtendStable
    <3> QED BY <2>3, <3>2, <3>3
  <2> QED BY <1>4, <2>1, <2>2, <2>3 DEF LoanStep
<1>5. CASE CollateralStep
  <2>1. ASSUME NEW i \in Pledged, NEW n,
               WithdrawCollateral(i, n) \/ AddCollateralDx(i, n) \/ AddCollateral(i, n)
        PROVE  \E x : cdps' = [cdps EXCEPT ![i] = x]
    BY <2>1, Zenon DEF WithdrawCollateral, AddCollateralDx, AddCollateral, PoolsAndCdps
  <2> QED BY <1>2, <1>5, <2>1 DEF CollateralStep
<1>6. CASE RepayStep
  <2>1. ASSUME NEW i \in Live, NEW n \in Inputs["repay"], Repay(i, n)
        PROVE  i \in Pledged /\ cdps' = [cdps EXCEPT ![i] = CdpRepaid(i, n, n)]
    <3>1. cdps' = [cdps EXCEPT ![i] = CdpRepaid(i, n, n)]
      BY <2>1, Zenon DEF Repay, PoolsAndCdps
    <3>2. i \in Pledged
      BY <2>1 DEF Live, NoneRepaid
    <3> QED BY <3>1, <3>2
  <2>2. ASSUME NEW i \in Pledged, NEW n, NEW cover, NEW bp, NEW cp,
               Liquidation(i, n, cover, bp, cp)
        PROVE  \E x : cdps' = [cdps EXCEPT ![i] = x]
    BY <2>2, Zenon DEF Liquidation, PoolsAndCdps
  <2> QED BY <1>2, <1>6, <2>1, <2>2 DEF RepayStep
<1>7. CASE StakingStep
  BY <1>1, <1>7, StakingStepShows DEF IInv
<1>8. CASE PoolStep
  BY <1>8 DEF PoolStep, BorrowFlashloan, RepayFlashloan, WithdrawInsurance, SetCloseFactor,
              OnlyPools
<1>9. CASE WorldStep
  BY <1>9 DEF WorldStep, Tick, PriceMove
<1> QED BY <1>3, <1>4, <1>5, <1>6, <1>7, <1>8, <1>9 DEF Next

LEMMA EscrowStays ==
  ASSUME EInv, EscrowSound, NoneRepaid, [EarningNext]_earningVars
  PROVE  EscrowSound'
<1>1. /\ IInv /\ Len(cdps) \in Nat /\ epoch \in Nat /\ claims \in Seq(UnstakeData)
      /\ claim_nft_map \subseteq 1..Len(claims) /\ Len(claims) \in Nat
  BY DEF EInv, EarningFrame, IInv, Books
<1>2. ASSUME UNCHANGED <<vars, claims>>, claim_nft_map' \subseteq claim_nft_map
      PROVE  EscrowSound'
  <2>1. cdps' = cdps /\ cdp_vault' = cdp_vault
    BY <1>2 DEF vars
  <2> QED BY <1>1, <1>2, <2>1, EscrowKept
<1>3. ASSUME NEW amount \in Redeemed, Redeem(amount) PROVE EscrowSound'
  <2>1. claims' = Append(claims, Unstaked(amount)) /\ claim_nft_map' = claim_nft_map
        /\ cdps' = cdps /\ cdp_vault' = cdp_vault
    BY <1>3 DEF Redeem, vars
  <2>2. \A n \in claim_nft_map : claims'[n] = claims[n]
    BY <1>1, <2>1
  <2> QED BY <1>1, <2>1, <2>2, EscrowKept
<1>4. ASSUME NEW amount \in Redeemed, RedeemFaster(amount) PROVE EscrowSound'
  <2> DEFINE n == Len(claims) + 1
             c == Unstaked(amount)
             d == [c EXCEPT !.cdp = NextCdp]
  <2>1. c \in UnstakeData
    BY <1>1, ConstantsType DEF Unstaked, UnstakeData
  <2>2. /\ LendOn(c) /\ claims' = Append(claims, d) /\ claim_nft_map' = Stored(n)
    BY <1>4 DEF RedeemFaster
  <2> HIDE DEF c
  <2>3. d.cdp = NextCdp /\ d.claim_epoch = c.claim_epoch /\ d.claim_amount = c.claim_amount
    BY <2>1 DEF UnstakeData
  <2> HIDE DEF d
  <2>4. /\ n \in Nat /\ n \notin claim_nft_map /\ claims'[n] = d
        /\ \A m \in claim_nft_map : claims'[m] = claims[m]
    BY <1>1, <2>2
  <2> HIDE DEF n
  <2>5. /\ claims'[n].cdp = NextCdp /\ claims'[n].claim_epoch = c.claim_epoch
        /\ claims'[n].claim_amount = c.claim_amount
    BY <2>3, <2>4
  <2> QED BY <2>1, <2>2, <2>4, <2>5, EscrowGrows, Zenon
<1>5. ASSUME NEW n \in Held, ClaimByLoan(n) PROVE EscrowSound'
  <2> DEFINE c == claims[n]
             d == [c EXCEPT !.cdp = NextCdp]
  <2>1. n \in 1..Len(claims) /\ n \in Nat /\ n \notin claim_nft_map /\ c \in UnstakeData
    BY <1>1, ClaimType DEF Held
  <2>2. LendOn(c) /\ claims' = [claims EXCEPT ![n] = d] /\ claim_nft_map' = Stored(n)
    BY <1>1, <1>5, <2>1 DEF ClaimByLoan
  <2>3. d.cdp = NextCdp /\ d.claim_epoch = c.claim_epoch /\ d.claim_amount = c.claim_amount
    BY <2>1 DEF UnstakeData
  <2> HIDE DEF d
  <2>4. claims'[n] = d /\ \A m \in claim_nft_map : claims'[m] = claims[m]
    BY <1>1, <2>1, <2>2
  <2> HIDE DEF c
  <2>5. /\ claims'[n].cdp = NextCdp /\ claims'[n].claim_epoch = c.claim_epoch
        /\ claims'[n].claim_amount = c.claim_amount
    BY <2>3, <2>4
  <2> QED BY <2>1, <2>2, <2>4, <2>5, EscrowGrows, Zenon
<1>6. ASSUME NEW n \in claim_nft_map, NEW i \in cdp_vault, NEW subsidy \in Subsidies,
             Settle(n, i, subsidy)
      PROVE  EscrowSound'
  <2>1. /\ claims' = claims /\ claim_nft_map' = claim_nft_map \ {n}
        /\ cdps' = cdps /\ cdp_vault' = cdp_vault \ {i}
    BY <1>6, Zenon DEF Settle, StakingRepay, Burned
  <2> QED BY <1>1, <2>1, EscrowKept
<1>7. CASE OthersStep
  <2>1. Next /\ UNCHANGED <<cdp_vault, claims, claim_nft_map>>
    BY <1>7 DEF OthersStep, earning
  <2>2. \A i \in cdp_vault : cdps'[i] = cdps[i]
    BY <2>1, StakedLeft
  <2>3. Len(cdps') \in Nat /\ Len(cdps) <= Len(cdps')
    BY <1>1, <2>1, NextKeepsCdps DEF CdpsKept, EInv, EarningFrame
  <2> QED BY <2>1, <2>2, <2>3, EscrowKept
<1>8. ASSUME \/ \E n \in Held : ClaimMatured(n)
             \/ \E amount \in RelayerFees : WithdrawRelayerFee(amount)
             \/ \E n \in UnstakeSettings : SetUnstakeEpochNum(n)
             \/ UNCHANGED earningVars
      PROVE  UNCHANGED <<vars, claims>> /\ claim_nft_map' \subseteq claim_nft_map
  BY <1>8 DEF ClaimMatured, WithdrawRelayerFee, SetUnstakeEpochNum, earningVars, earning
<1> QED BY <1>2, <1>3, <1>4, <1>5, <1>6, <1>7, <1>8 DEF EarningNext

LEMMA InitEscrow == EarningInit => EscrowSound
  BY DEF EarningInit, EscrowSound

\* The debt of the escrowed claims' CDPs, as the properties have it.
LEMMA EscrowDebt ==
  ASSUME EInv, Debtors, EscrowSound, NEW n \in claim_nft_map, claims[n].cdp \in cdp_vault,
         ~(epoch > claims[n].claim_epoch)
  PROVE  LET i == claims[n].cdp
         IN  /\ DebtAt(i, claims[n].claim_epoch) \in Int /\ claims[n].claim_amount \in Nat
             /\ DebtAt(i, claims[n].claim_epoch) + SettleGas <= claims[n].claim_amount
             /\ claims[n].claim_epoch = epoch => Debt(i) + SettleGas <= claims[n].claim_amount
<1> DEFINE i == claims[n].cdp
           at == claims[n].claim_epoch
           cdp == cdps[i]
<1>1. /\ IInv /\ at \in Nat
      /\ GrownDebt(cdp, at) + SettleGas <= claims[n].claim_amount
      /\ claims[n].claim_amount \in Nat
  BY ClaimType DEF EInv, EarningFrame, EscrowSound, ClaimCovers
<1>2. cdp.borrow_amount \in Nat /\ cdp.stable_rate \in Nat /\ cdp.last_update_epoch \in Nat
      /\ cdp.is_stable /\ cdp.borrow_token = XRD
  BY <1>1, OwedBounds
<1>3. epoch \in Nat /\ Env(XRD).now = epoch
      /\ [Env(XRD) EXCEPT !.now = at].now = at
  BY <1>1 DEF IInv, Books, Env
<1>4. DebtAt(i, at) = cdp.borrow_amount + (GrownDebt(cdp, at) - cdp.borrow_amount)
  BY <1>3, Zenon DEF DebtAt, StableInterest, GrownDebt
<1>5. Debt(i) = cdp.borrow_amount + (GrownDebt(cdp, epoch) - cdp.borrow_amount)
  BY <1>2, <1>3 DEF Debt, StableInterest, GrownDebt
<1>6. GrownDebt(cdp, at) \in Int
  <2>1. cdp.last_update_epoch <= epoch
    BY <1>1, OwedBounds, CdpKnown DEF IInv
  <2>2. /\ at - cdp.last_update_epoch \in Nat
        /\ cdp.borrow_amount \in Int /\ cdp.stable_rate \in Int
    BY <1>1, <1>2, <1>3, <2>1
  <2> QED BY <2>2, CompoundInterestType DEF GrownDebt
<1>7. at = epoch => GrownDebt(cdp, epoch) = GrownDebt(cdp, at)
  OBVIOUS
<1> HIDE DEF i, at, cdp
<1> QED BY <1>1, <1>2, <1>4, <1>5, <1>6, <1>7, ConstantsType DEF i, at, cdp

\* No staking loan is paid off in part: its debt is what the claim was taken for.
OnlySettled ==
  [][\A i \in cdp_vault, bucket \in Inputs["repay"] : ~Repay(i, bucket)]_earningVars

LEMMA EscrowSoundHolds == EarningSpec /\ OnlySettled => []EscrowSound
<1>1. EInv /\ EscrowSound /\ [EarningNext]_earningVars /\ [NoneRepaid]_earningVars
        => EscrowSound'
  <2> SUFFICES ASSUME EInv, EscrowSound,
                      [EarningNext]_earningVars, [NoneRepaid]_earningVars
               PROVE  EscrowSound'
    OBVIOUS
  <2>1. CASE NoneRepaid
    BY <2>1, EscrowStays
  <2>2. CASE UNCHANGED earningVars
    <3>1. UNCHANGED <<cdps, cdp_vault, claims, claim_nft_map>>
      BY <2>2 DEF earningVars, vars, earning
    <3>2. Len(cdps') \in Nat /\ Len(cdps) <= Len(cdps')
      BY <3>1 DEF EInv, IInv, Books
    <3> QED BY <3>1, <3>2, EscrowKept
  <2> QED BY <2>1, <2>2
<1>2. OnlySettled => [][NoneRepaid]_earningVars
  BY PTL DEF OnlySettled, NoneRepaid
<1> QED BY <1>1, <1>2, InitEscrow, InitEarning, NextEarning, PTL DEF EarningSpec

\* A claim in escrow covers the loan that it was taken for and the settler's gas,
\* exactly, at whatever rate it was given and however the pool's rates, the
\* other loans and the settings of the component move afterwards, as long as
\* nobody pays the loan off in part (which truncates its compounding in two).
THEOREM EscrowCoversHolds == EarningSpec /\ OnlySettled => []EscrowCovers
<1>1. EInv /\ Debtors /\ EscrowSound => EscrowCovers
  <2> SUFFICES ASSUME EInv, Debtors, EscrowSound, NEW n \in claim_nft_map,
                      claims[n].cdp \in cdp_vault, ~(epoch > claims[n].claim_epoch)
               PROVE  DebtAt(claims[n].cdp, claims[n].claim_epoch) + SettleGas
                        <= claims[n].claim_amount + Dust
    BY DEF EscrowCovers
  <2> DEFINE debt == DebtAt(claims[n].cdp, claims[n].claim_epoch)
             amount == claims[n].claim_amount
  <2>1. debt \in Int /\ amount \in Nat /\ debt + SettleGas <= amount
    BY EscrowDebt, Zenon
  <2> HIDE DEF debt, amount
  <2>2. debt + SettleGas <= amount + Dust
    BY <2>1, ConstantsType, DustAssumption
  <2> QED BY <2>2 DEF debt, amount
<1> QED BY <1>1, EscrowSoundHolds, InitEarning, NextEarning, EarningDebtors, PTL DEF EarningSpec

\* What a bucket pays of a staking loan, and what it leaves.
LEMMA SettlementPays ==
  ASSUME EInv, Debtors, NEW i \in cdp_vault, NEW bucket \in Int, StakingRepay(i, bucket)
  PROVE  \E paid \in Int :
           /\ paid = IF bucket <= Owed(i) THEN bucket ELSE Owed(i)
           /\ Returned(i, bucket) = bucket - paid
           /\ pools'[XRD].vault = pools[XRD].vault + paid
<1> DEFINE e == Env(XRD)
           paid == StablePayment(e, bucket, cdps[i].borrow_amount, cdps[i].stable_rate,
                                 cdps[i].last_update_epoch, bucket)
           Q == PoolRepayStable(pools[XRD], e, bucket, cdps[i].borrow_amount,
                                cdps[i].stable_rate, cdps[i].last_update_epoch, bucket)
<1>1. /\ IInv /\ XRD \in Tokens /\ pools[XRD] \in Pool
      /\ pools' = [pools EXCEPT ![XRD] = Q]
      /\ cdps[i].borrow_token = XRD /\ Owed(i) \in Nat
  BY OwedBounds, Zenon DEF EInv, IInv, Books, StakingRepay
<1>2. pools'[XRD] = Q
  BY <1>1 DEF IInv, Books
<1>3. Q.vault = pools[XRD].vault + paid
  BY <1>1, RepayStableVault
<1>4. paid = AtMost(AtMost(bucket, bucket), Owed(i))
  BY <1>1 DEF StablePayment, Owed
<1>5. Returned(i, bucket) = bucket - paid
  BY DEF Returned
<1> HIDE DEF paid, Q
<1>6. paid \in Int /\ paid = IF bucket <= Owed(i) THEN bucket ELSE Owed(i)
  BY <1>1, <1>4 DEF AtMost
<1> QED BY <1>2, <1>3, <1>5, <1>6

\* Only the settlement of n on i takes n out of the claims' vault and i out of
\* the manager's.
LEMMA SettlesShows ==
  ASSUME EInv, [EarningNext]_earningVars, NEW n \in claim_nft_map, NEW i \in cdp_vault,
         Settles(n, i)
  PROVE  \E subsidy \in Subsidies : Settle(n, i, subsidy)
<1>1. n \notin claim_nft_map' /\ i \notin cdp_vault'
  BY DEF Settles
<1>2. ASSUME \/ \E amount \in Redeemed : Redeem(amount) \/ RedeemFaster(amount)
             \/ \E m \in Held : ClaimMatured(m) \/ ClaimByLoan(m)
             \/ \E amount \in RelayerFees : WithdrawRelayerFee(amount)
             \/ \E m \in UnstakeSettings : SetUnstakeEpochNum(m)
             \/ OthersStep
             \/ UNCHANGED earningVars
      PROVE  FALSE
  BY <1>1, <1>2 DEF Redeem, RedeemFaster, ClaimMatured, ClaimByLoan, WithdrawRelayerFee,
                    SetUnstakeEpochNum, OthersStep, Stored, earningVars, earning
<1>3. PICK m \in claim_nft_map, j \in cdp_vault, subsidy \in Subsidies : Settle(m, j, subsidy)
  BY <1>2 DEF EarningNext
<1>4. claim_nft_map' = claim_nft_map \ {m} /\ cdp_vault' = cdp_vault \ {j}
  BY <1>3, Zenon DEF Settle, StakingRepay, Burned
<1>5. m = n /\ j = i
  BY <1>1, <1>4
<1> QED BY <1>3, <1>5

\* The relay vault pays out no more than settlements have left in it.
RelayPays == relay_vault \in Nat

LEMMA RelayKept ==
  ASSUME EInv, Debtors, RelayPays, [EarningNext]_earningVars
  PROVE  RelayPays'
<1>0. relay_vault \in Nat
  BY DEF RelayPays
<1>1. ASSUME NEW n \in claim_nft_map, NEW i \in cdp_vault, NEW subsidy \in Subsidies,
             Settle(n, i, subsidy)
      PROVE  relay_vault' \in Nat
  <2> DEFINE bucket == claims[n].claim_amount + subsidy
  <2>1. StakingRepay(i, bucket) /\ relay_vault' = relay_vault + Returned(i, bucket)
    BY <1>1, Zenon DEF Settle
  <2>2. bucket \in Int
    <3>1. claims[n].claim_amount \in Nat /\ subsidy \in Nat
      BY ClaimType, ConstantsType DEF EInv, EarningFrame
    <3> QED BY <3>1
  <2> HIDE DEF bucket
  <2>3. PICK paid \in Int :
          /\ paid = IF bucket <= Owed(i) THEN bucket ELSE Owed(i)
          /\ Returned(i, bucket) = bucket - paid
    BY <2>1, <2>2, SettlementPays
  <2>4. Owed(i) \in Int
    BY OwedBounds DEF EInv
  <2> QED BY <1>0, <2>1, <2>2, <2>3, <2>4
<1>2. ASSUME NEW amount \in RelayerFees, WithdrawRelayerFee(amount) PROVE relay_vault' \in Nat
  <2>1. amount \in Nat /\ Unit(XRD) \in Nat \ {0}
    BY ConstantsType, EarningAssumption, ManagerAssumption DEF Unit, PoolConfig
  <2>2. FloorTo(amount, Unit(XRD)) \in Int /\ FloorTo(amount, Unit(XRD)) <= amount
    BY <2>1 DEF FloorTo
  <2> QED BY <1>0, <1>2, <2>1, <2>2 DEF WithdrawRelayerFee
<1>3. ASSUME \/ \E amount \in Redeemed : Redeem(amount) \/ RedeemFaster(amount)
             \/ \E n \in Held : ClaimMatured(n) \/ ClaimByLoan(n)
             \/ \E n \in UnstakeSettings : SetUnstakeEpochNum(n)
             \/ OthersStep
             \/ UNCHANGED earningVars
      PROVE  relay_vault' = relay_vault
  BY <1>3 DEF Redeem, RedeemFaster, ClaimMatured, ClaimByLoan, SetUnstakeEpochNum, OthersStep,
              earningVars, earning
<1> QED BY <1>0, <1>1, <1>2, <1>3 DEF EarningNext, RelayPays

LEMMA RelayHolds == EarningSpec => []RelayPays
<1>1. EarningInit => RelayPays
  BY DEF EarningInit, RelayPays
<1>2. EInv /\ Debtors /\ RelayPays /\ [EarningNext]_earningVars => RelayPays'
  BY RelayKept
<1> QED BY <1>1, <1>2, InitEarning, NextEarning, EarningDebtors, PTL DEF EarningSpec

\* Settled in the epoch it matures, on the CDP that it was taken for, a claim
\* pays the pool all that the loan has grown to, and the settler's gas is left
\* but for the rounding of the payment to a unit of XRD, as long as nobody has
\* paid the loan off in part.
THEOREM TimelySettlementPaysHolds ==
  ASSUME Unit(XRD) - 1 <= Dust
  PROVE  EarningSpec /\ OnlySettled => TimelySettlementPays
<1> DEFINE Timely(n, i) ==
             Settles(n, i) /\ claims[n].cdp = i /\ claims[n].claim_epoch = epoch =>
               /\ pools'[XRD].vault - pools[XRD].vault >= Debt(i)
               /\ relay_vault' - relay_vault >= SettleGas - Dust
           AllTimely == \A n \in claim_nft_map : \A i \in cdp_vault : Timely(n, i)
<1>1. EInv /\ Debtors /\ EscrowSound /\ RelayPays /\ [EarningNext]_earningVars
        => AllTimely
  <2> SUFFICES ASSUME EInv, Debtors, EscrowSound, RelayPays,
                      [EarningNext]_earningVars,
                      NEW n \in claim_nft_map, NEW i \in cdp_vault,
                      Settles(n, i), claims[n].cdp = i, claims[n].claim_epoch = epoch
               PROVE  /\ pools'[XRD].vault - pools[XRD].vault >= Debt(i)
                      /\ relay_vault' - relay_vault >= SettleGas - Dust
    OBVIOUS
  <2>1. PICK subsidy \in Subsidies : Settle(n, i, subsidy)
    BY SettlesShows
  <2> DEFINE amount == claims[n].claim_amount
             bucket == amount + subsidy
  <2>2. StakingRepay(i, bucket) /\ relay_vault' = relay_vault + Returned(i, bucket)
    BY <2>1, Zenon DEF Settle
  <2>3. amount \in Int /\ bucket \in Int /\ amount <= bucket
    <3>1. amount \in Nat /\ subsidy \in Nat
      BY ClaimType, ConstantsType DEF EInv, EarningFrame
    <3> QED BY <3>1
  <2>4. Debt(i) + SettleGas <= amount
    <3>1. ~(epoch > claims[n].claim_epoch)
      BY DEF EInv, IInv, Books
    <3> QED BY <3>1, EscrowDebt, Zenon
  <2> HIDE DEF amount, bucket
  <2>5. /\ Owed(i) \in Int /\ Debt(i) \in Int /\ Unit(XRD) \in Int
        /\ Debt(i) <= Owed(i) /\ Owed(i) < Debt(i) + Unit(XRD)
        /\ IInv /\ XRD \in Tokens
    BY OwedBounds DEF EInv
  <2>6. PICK paid \in Int :
          /\ paid = IF bucket <= Owed(i) THEN bucket ELSE Owed(i)
          /\ Returned(i, bucket) = bucket - paid
          /\ pools'[XRD].vault = pools[XRD].vault + paid
    BY <2>2, <2>3, SettlementPays
  <2>7. paid >= Debt(i) /\ bucket - paid >= SettleGas - Dust
    <3> DEFINE owed == Owed(i)   debt == Debt(i)   unit == Unit(XRD)
    <3>1. /\ owed \in Int /\ debt \in Int /\ unit \in Int
          /\ debt <= owed /\ owed < debt + unit /\ unit - 1 <= Dust
          /\ debt + SettleGas <= amount /\ amount \in Int /\ bucket \in Int /\ amount <= bucket
          /\ paid = IF bucket <= owed THEN bucket ELSE owed
      BY <2>3, <2>4, <2>5, <2>6
    <3>2. SettleGas \in Nat /\ Dust \in Nat
      BY ConstantsType, DustAssumption
    <3> HIDE DEF owed, debt, unit
    <3>3. paid >= debt /\ bucket - paid >= SettleGas - Dust
      BY <3>1, <3>2
    <3> QED BY <3>3 DEF owed, debt, unit
  <2>8. pools[XRD].vault \in Int
    BY <2>5 DEF IInv, Books, Pool
  <2> QED BY <2>2, <2>3, <2>5, <2>6, <2>7, <2>8 DEF RelayPays
<1>2. TimelySettlementPays <=> [][AllTimely]_earningVars
  BY PTL DEF TimelySettlementPays
<1> HIDE DEF AllTimely
<1> QED BY <1>1, <1>2, EscrowSoundHolds, RelayHolds, InitEarning, NextEarning, EarningDebtors,
           PTL DEF EarningSpec
=============================================================================
