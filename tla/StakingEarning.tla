--------------------------- MODULE StakingEarning ---------------------------
(***************************************************************************)
(* The staking earning component (src/earning.rs) over the collateral debt *)
(* manager.  Who redeems stake units gets the validator's claim NFT, worth *)
(* XRD some epochs later, or, faster, XRD that the XRD pool lends against  *)
(* the claim: the NFT stays in the component's vault, the CDP in the       *)
(* manager's.  When the claim has matured anyone may settle it: its XRD    *)
(* repays a CDP that the caller names and what is left goes to the relay   *)
(* vault.                                                                  *)
(*                                                                         *)
(* The claim's amount is the validator's answer, whichever units were      *)
(* redeemed (StakingPool has the units of the staking pool).               *)
(***************************************************************************)
EXTENDS CollateralDebtManager

CONSTANTS
  SettleGas,       \* settle_gas
  UnstakeEpochs,   \* epochs until the validator pays a claim
  Redeemed,        \* amounts of the claims that redemptions yield
  Subsidies,       \* what a settler may add
  RelayerFees,     \* what the operator withdraws
  UnstakeSettings, \* arguments of set_unstake_epoch_num
  MaxClaims        \* bound of a run

ASSUME EarningAssumption ==
  /\ SettleGas \in Nat /\ UnstakeEpochs \in Nat \ {0} /\ MaxClaims \in Nat
  /\ Redeemed \subseteq Nat /\ Subsidies \subseteq Nat
  /\ RelayerFees \subseteq Nat /\ UnstakeSettings \subseteq Nat

VARIABLES
  claims,             \* claim NFT id -> its UnstakeData, and the CDP it was lent on
  claim_nft_map,      \* ids of the claim NFTs in the component's vaults
  claimed,            \* ids of those the validator has paid and burned
  relay_vault,
  unstake_epoch_num   \* a setting that no method reads

earning == <<claims, claim_nft_map, claimed, relay_vault, unstake_epoch_num>>
earningVars == <<vars, earning>>

\* cdp is what the ClaimXrdEvent tells the relayers, 0 before.
UnstakeData == [claim_amount: Nat, claim_epoch: Nat, cdp: Nat]

EarningInit ==
  /\ Init
  /\ claims = <<>> /\ claim_nft_map = {} /\ claimed = {}
  /\ relay_vault = 0
  /\ unstake_epoch_num = UnstakeEpochs

-----------------------------------------------------------------------------
Held == (1..Len(claims)) \ (claim_nft_map \cup claimed)

Matured(c) == c.claim_epoch <= epoch

\* Validator.unstake, in runs that see the claim mature.
CanUnstake == Len(claims) < MaxClaims /\ epoch + UnstakeEpochs <= MaxEpoch

Unstaked(amount) ==
  [claim_amount |-> amount, claim_epoch |-> epoch + UnstakeEpochs, cdp |-> 0]

\* Mutants: the vault is replaced by the new NFT; the gas is not kept back.
StoredAlone(n) == {n}
Stored(n) == claim_nft_map \cup {n}

GasNotKept(c, rate) == CalcPrincipal(c.claim_amount, rate, c.claim_epoch - epoch)

\* The loan that the claim grows to cover, the settler's gas included.
Principal(c, rate) ==
  CalcPrincipal(c.claim_amount, rate, c.claim_epoch - epoch) - SettleGas

\* claim_xrd of a claim that has not matured: a staking loan at the stable rate
\* that would hold with the whole claim lent.
LendOn(c) ==
  LET rate == InterestRate(pools[XRD], Env(XRD), c.claim_amount).stable
  IN  /\ ~Matured(c)
      /\ CompoundRate(rate, c.claim_epoch - epoch) # 0
      /\ StakingBorrow(Principal(c, rate), rate, c.claim_amount)

NextCdp == Len(cdps) + 1   \* the id that new_cdp gives

-----------------------------------------------------------------------------
\* redeem: the redeemer keeps the claim NFT ...
Redeem(amount) ==
  /\ CanUnstake
  /\ claims' = Append(claims, Unstaked(amount))
  /\ UNCHANGED <<vars, claim_nft_map, claimed, relay_vault, unstake_epoch_num>>

\* ... or, faster, takes the loan in the same transaction.
RedeemFaster(amount) ==
  /\ CanUnstake
  /\ LendOn(Unstaked(amount))
  /\ claims' = Append(claims, [Unstaked(amount) EXCEPT !.cdp = NextCdp])
  /\ claim_nft_map' = Stored(Len(claims) + 1)
  /\ UNCHANGED <<claimed, relay_vault, unstake_epoch_num>>

\* claim_xrd with a claim NFT from a wallet: paid by the validator if mature
ClaimMatured(n) ==
  /\ Matured(claims[n])
  /\ claimed' = claimed \cup {n}
  /\ UNCHANGED <<vars, claims, claim_nft_map, relay_vault, unstake_epoch_num>>

ClaimByLoan(n) ==
  /\ LendOn(claims[n])
  /\ claims' = [claims EXCEPT ![n].cdp = NextCdp]
  /\ claim_nft_map' = Stored(n)
  /\ UNCHANGED <<claimed, relay_vault, unstake_epoch_num>>

\* settle, by anyone: claim n and a subsidy repay the CDP i that they name.
NothingReturned(i, bucket) == 0   \* mutant: the rest is not put away
Returned(i, bucket) ==
  bucket - StablePayment(Env(XRD), bucket, cdps[i].borrow_amount, cdps[i].stable_rate,
                         cdps[i].last_update_epoch, bucket)

MatureEnough(n) == claims[n].claim_epoch <= epoch + 1   \* mutant: an epoch too early
CanSettle(n) == Matured(claims[n])

SettleReady(n, i, subsidy) ==
  /\ n \in claim_nft_map /\ CanSettle(n)
  /\ i \in cdp_vault
  /\ CanStakingRepay(i, claims[n].claim_amount + subsidy)

Settle(n, i, subsidy) ==
  LET bucket == claims[n].claim_amount + subsidy
  IN  /\ SettleReady(n, i, subsidy)
      /\ StakingRepay(i, bucket)
      /\ claim_nft_map' = claim_nft_map \ {n}
      /\ claimed' = claimed \cup {n}
      /\ relay_vault' = relay_vault + Returned(i, bucket)
      /\ UNCHANGED <<claims, unstake_epoch_num>>

WithdrawRelayerFee(amount) ==
  /\ amount <= relay_vault
  /\ relay_vault' = relay_vault - FloorTo(amount, Unit(XRD))
  /\ UNCHANGED <<vars, claims, claim_nft_map, claimed, unstake_epoch_num>>

SetUnstakeEpochNum(n) ==
  /\ unstake_epoch_num' = n
  /\ UNCHANGED <<vars, claims, claim_nft_map, claimed, relay_vault>>

\* Everything else that happens to the manager and its pools.
OthersStep == Next /\ UNCHANGED <<cdp_vault, earning>>

EarningNext ==
  \/ \E amount \in Redeemed : Redeem(amount) \/ RedeemFaster(amount)
  \/ \E n \in Held : ClaimMatured(n) \/ ClaimByLoan(n)
  \/ \E n \in claim_nft_map, i \in cdp_vault, subsidy \in Subsidies : Settle(n, i, subsidy)
  \/ \E amount \in RelayerFees : WithdrawRelayerFee(amount)
  \/ \E n \in UnstakeSettings : SetUnstakeEpochNum(n)
  \/ OthersStep

EarningSpec == EarningInit /\ [][EarningNext]_earningVars

\* Epochs pass on the ledger whatever anyone does, and settling is open to
\* anyone and leaves the settler's gas in the relay vault.  A step that takes n
\* out of the vault is a Settle of it, and is possible when Settle's guards hold.
Fairness ==
  /\ WF_earningVars(\E n \in Inputs["epochs"] : Tick(n) /\ UNCHANGED earning)
  /\ \A n \in 1..MaxClaims :
       WF_claim_nft_map(/\ \E i \in cdp_vault, subsidy \in Subsidies : SettleReady(n, i, subsidy)
                        /\ claim_nft_map' = claim_nft_map \ {n})

FairEarningSpec == EarningSpec /\ Fairness
=============================================================================
