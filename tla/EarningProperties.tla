-------------------------- MODULE EarningProperties --------------------------
(***************************************************************************)
(* What fast redemption promises the redeemer, the depositors and the      *)
(* settlers.                                                               *)
(***************************************************************************)
EXTENDS StakingEarning, LendingProperties, FiniteSets

CONSTANT Dust   \* what the roundings of a settlement may shift, in smallest parts

ASSUME DustAssumption == Dust \in Nat

-----------------------------------------------------------------------------
(* The life of a claim, as Redemption has it *)

\* CDPs that staking_borrow gave, and those of them that are burned; claims that
\* the validator pays.
StakingCdps == {i \in Ids : cdps[i].collateral_token = NoDx}
Closed == StakingCdps \ cdp_vault

MaturedClaims == {n \in 1..Len(claims) : Matured(claims[n])}

Lifecycle == INSTANCE Redemption WITH
  Claims <- 1..MaxClaims, Loans <- 1..MaxCdps,
  held <- Held, escrowed <- claim_nft_map, paid <- claimed,
  mature <- MaturedClaims,
  open <- cdp_vault, closed <- Closed

\* The component implements Redemption: whatever is redeemed, lent and settled
\* in whichever order, a claim is paid once, mature and to one party, every
\* loan is given for a claim taken into escrow, and a settlement ends one loan
\* for the claim it takes out of the vault.
ImplementsRedemption == Lifecycle!Spec

\* There are as many CDPs in the manager's vault as claims in the component's,
\* two components' books that only settle, naming one of each, keeps even:
\* were a CDP to stay or a claim to go, one that anyone may name would be left
\* without its partner.
EscrowMatched == Cardinality(claim_nft_map) = Cardinality(cdp_vault)

-----------------------------------------------------------------------------
(* Amounts *)

\* What CDP i will owe in epoch `at` if nothing is paid.
DebtAt(i, at) ==
  LET cdp == cdps[i]
  IN  cdp.borrow_amount + StableInterest([Env(XRD) EXCEPT !.now = at], cdp.borrow_amount,
                                         cdp.stable_rate, cdp.last_update_epoch)

\* The claim taken for a loan covers it and the settler's gas when it matures:
\* the discount of claim_xrd is what the loan's interest compounds to, at the
\* rate it was given, however the rates of the pool move afterwards.
EscrowCovers ==
  \A n \in claim_nft_map :
    LET i == claims[n].cdp
    IN  i \in cdp_vault /\ ~(epoch > claims[n].claim_epoch) =>
          DebtAt(i, claims[n].claim_epoch) + SettleGas <= claims[n].claim_amount + Dust

\* The step settles claim n on CDP i.
Settles(n, i) == n \in claim_nft_map \ claim_nft_map' /\ i \in cdp_vault \ cdp_vault'

\* A loan settled with its own claim in the epoch the claim matures is paid in
\* full and leaves at least the settler's gas in the relay vault.
TimelySettlementPays ==
  [][\A n \in claim_nft_map : \A i \in cdp_vault :
       Settles(n, i) /\ claims[n].cdp = i /\ claims[n].claim_epoch = epoch =>
         /\ pools'[XRD].vault - pools[XRD].vault >= Debt(i)
         /\ relay_vault' - relay_vault >= SettleGas - Dust]_earningVars

\* Principal in the pool's stable book that no CDP owes any more.
Orphaned == pools[XRD].stable_loan_amount - Sum(StableClaims(XRD))

\* settle burns the CDP whatever was paid, and only so may principal be left in
\* the book without a CDP: by a claim that, with the subsidy, was smaller than
\* what the CDP owed, and by no more than it was short of that, rounded up to a
\* unit of XRD.
OrphanedByShortSettlement ==
  [][Orphaned' > Orphaned /\ Orphaned' > 0 =>
       \E n \in claim_nft_map : \E i \in cdp_vault :
         /\ Settles(n, i)
         /\ Orphaned' - (IF Orphaned > 0 THEN Orphaned ELSE 0)
              <= Debt(i) - claims[n].claim_amount + (Unit(XRD) - 1)]_earningVars

\* Every staking loan of the pool is owed by a CDP, which a claim secures: the
\* drawing of the redemption shows the claim NFT as the liquidity's collateral.
LoansOwed == Orphaned <= Dust

-----------------------------------------------------------------------------
\* Every claim taken into escrow is settled in the end: a relayer can always
\* find a CDP to settle it on, and nothing in the pool can refuse the payment.
EveryClaimSettled ==
  \A n \in 1..MaxClaims : n \in claim_nft_map ~> n \in claimed
=============================================================================
