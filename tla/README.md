# Verification of the DeXian lending protocol

TLA+ models of the Scrypto blueprints under `src/src/`, TLC runs that check them
on small instances, and proofs that TLAPS checks for every instance. Paths below are
those below `src/`; `cdp.rs`, `lending.rs` and so on are `src/src/cdp.rs`,
`src/src/pools/lending.rs`.

## 1. The system

A ledger application of eight components. A call is a transaction: it runs alone,
and a failed `assert!`, `unwrap` or library call undoes it entirely. What makes the
protocol hard is therefore not threads but *time between calls* (interest is
accrued lazily, by whichever call comes next), *several books of the same money*
(pool, position, custody vault, insurance), *rounding* (18-digit decimals,
resources of fewer digits), *calls composed in one transaction* (flash loans), and
*anyone calling anything in any order*.

| Component | State it keeps | Operations | Talks to |
|---|---|---|---|
| Lending pool (`pools/lending.rs`) | vault, dx supply, deposit and loan index, epoch of the last update, rates, variable loan shares, stable loan amount and mean rate, insurance balance | add and remove liquidity, borrow and repay (variable, stable, flash), withdraw insurance | interest model (reads rates); called by the manager |
| Interest model (`interest.rs`) | parameters of two curves | rates at a utilisation | keeper (validators' APY) |
| Collateral debt manager (`cdp.rs`) | pools, settings, custody vault of each dx, CDP NFTs, the vault of staking CDPs, close factor, flash loan NFTs | supply, withdraw, borrow, extend, withdraw and add collateral, repay, liquidate, staking loans, flash loans, admin methods | pools, oracle prices passed in |
| Protocol (`protocol.rs`) | addresses | the public face: checks NFTs and prices, forwards, emits events | manager, oracle, staking earning |
| Price oracle (`oracle.rs`) | prices set by an operator, signer key, last timestamp and epoch seen | check a signed price | - |
| Validator keeper (`validator/keeper.rs`) | weekly stake log per validator | log stakes, APY of the active set | validators |
| Staking pool (`pools/staking.rs`) | LSU vault per validator, dse supply | contribute, redeem | validators |
| Staking earning (`earning.rs`) | claim NFTs, relay vault, gas and subsidy settings | join, redeem (fast: by a staking loan), claim, settle | staking pool, manager, keeper, validators |

### What makes each correct

* **Pool**: owns what it owes (vault and loans against deposits and insurance);
  indices never fall; interest is charged for the time passed, at the rates that
  held, whatever calls were made; the insurance takes the spread and only once.
* **Manager**: pool and positions agree on every debt; custody covers every
  position; a loan stays within its loan-to-value ratio when the owner acts; a debt
  falls by what is paid; only unhealthy positions can be liquidated, every unhealthy
  one can, and the liquidator gets the bonus and no more. All of this must survive
  the replacement of a pool by `new_pool`.
* **Oracle**: no price is used that is older than one used before by the validity
  period, and the newest is never refused.
* **Staking earning**: a claim covers the loan that was given for it; a claim is paid
  once, when mature; claims and loans pair up; every claim is settled in the end.
* **Staking pool**: joining or redeeming does not change what the others' units are
  worth.
* **Keeper**: it always answers, and what it answers is a yield that validators made
  of late.

`PROJECT.json` lists under `hazards` where each of these can go wrong, by line.

## 2. Modules

```
Decimals <- InterestModel <- LendResourcePool <- CollateralDebtManager <- StakingEarning
   ^                              ^                    ^  (+ Sums)            ^
   |                              |                    |                      |
   |                         PoolRegistry       LendingProperties <- EarningProperties --(INSTANCE)--> Redemption
   +- StakingPool                 ^                    ^                      ^
   +- ValidatorKeeper     RegistryProperties      MCLending               MCEarning
                                  ^
PriceOracle (alone)           MCRegistry          (likewise Staking-, Keeper-, PriceProperties and their MC modules)

LendResourcePoolProofs <- LendingProofs <- LendingStepProofs <- EarningProofs
LendResourcePoolProofs <- RegistryProofs, KeeperProofs, StakingProofs
PriceProperties <- OracleProofs
```

| Module | Models | How |
|---|---|---|
| `Decimals` | `utils.rs`, the library's `Decimal` | a decimal is the integer number of its last digits, `ONE` of them to 1; products and quotients truncate towards zero; `powi` by squaring, truncating at every level as the library does; `FloorTo`/`CeilTo` round to a resource's unit |
| `InterestModel` | `interest.rs` | both curves, and the stable rate as the greater of the curve and the validators' APY |
| `LendResourcePool` | `pools/lending.rs` | a pool is a record; each method is an operator from a pool to the pool it leaves, and its asserts an operator `Can...` |
| `CollateralDebtManager` | `cdp.rs`, with the checks of `protocol.rs` | the state machine: one action per public method, composed from the pools' operators; `Tick` and `PriceMove` are the world |
| `PoolRegistry` | the tables of pools of `cdp.rs`, `new_pool` for a token that has a pool | components are numbered as they are made; `pools` leads from a token to the present one, `deposit_asset_map` and `collateral_vaults` are keyed by dx, also of the old ones |
| `StakingEarning` | `earning.rs` over the manager and its XRD pool | the manager's `StakingBorrow` and `StakingRepay` inside the component's actions; every other step of the manager is `OthersStep` |
| `Redemption` | what `earning.rs` promises about claims | an abstract specification without amounts; `StakingEarning` implements it |
| `StakingPool` | `pools/staking.rs` | `contribute` and `redeem` over the stake units of several validators, whose conversions are external |
| `PriceOracle` | `oracle.rs`, and the order in which `protocol.rs` asks it | signed messages stay available for ever and may be shown in any order |
| `ValidatorKeeper` | `validator/keeper.rs` | the logs, week by week, next to what each validator had staked in every epoch; what the admin fills in and inserts is any entry of a set, at any index |
| `Sums` | - | sums over sequences, as a recursive function |
| `...Properties` | - | what is claimed about each |
| `MC...` | - | settings, inputs and prices of the runs |
| `...Proofs` | - | the proofs, section 5 |

### State and code

| Variable | Code |
|---|---|
| `pools[t]` | the `LendResourcePool` of token t; the fields have the code's names; `dx_supply` is the total supply of its receipt token |
| `cdps[i]` | the data of CDP NFT i; `collateral_token` is the token behind the dx. The id counter is `Len(cdps)`. Staking CDPs have `NoDx`: the code stores XRD there, but no dx is in custody for them |
| `cdp_vault` | the staking CDPs, which the manager holds; burned when settled |
| `collateral_vaults[t]` | the custody vault of t's dx |
| `flashloans`, `transient_id_counter` | outstanding flash loan NFTs. They cannot be deposited, so a transaction ends only when `flashloans = {}`; until then no time passes |
| `epoch`, `price` | the ledger's epoch; the price last signed by the oracle's key |
| `ops` | bounds a run; also scales what `Solvent` and `ClosedMeansPaid` allow for the roundings of so many calls |
| `claims[n]` (`StakingEarning`) | the data of claim NFT n, and the CDP that it was lent on, which the code tells the relayers in `ClaimXrdEvent` only |
| `claim_nft_map`, `claimed` | the claim NFTs in the component's vaults; those that the validator has paid and burned |
| `relay_vault`, `unstake_epoch_num` | the code's fields; no method reads the second |
| `component`, `pools`, `deposit_asset_map` (`PoolRegistry`) | the pool components in the order made, and the manager's tables |
| `validator`, `lsu_map`, `dse_supply` (`StakingPool`) | each validator's stake and units; the pool's vaults of units; the supply of its own unit |
| `last_validation_epoch`, `last_validation_timestamp`, `pk_str`, `max_diff` (`PriceOracle`) | the code's fields; `known` are the keys of `price_map` |
| `signed`, `clock`, `shown` | what the signers ever signed, their clock, and the transactions that used prices, which only the properties look at |
| `validator_map` (`ValidatorKeeper`) | the code's field, newest entry first; `staked` is what a validator would have answered in each epoch until now. Auxiliary, for the properties: `handled`, the validators whose present log has entries of the admin's, and `misstated`, those of them with an entry that their validator never had |

An owner's call is `Supply`, `Withdraw`, `BorrowVariable`, `BorrowStable`,
`ExtendVariable`, `ExtendStable` (the two branches of `extend_borrow`),
`WithdrawCollateral`, `AddCollateralDx`, `AddCollateral` (the two branches of
`addition_collateral`), `Repay`, `Liquidation`, `BorrowFlashloan`,
`RepayFlashloan`; the staking component's are `StakingBorrow` and `StakingRepay`;
the admin's `WithdrawInsurance` and `SetCloseFactor`. Each contains all that the
method does: bringing the indices to the present, moving the tokens, and setting
the new rates.

In `StakingEarning`, `redeem` is `Redeem` or `RedeemFaster`, `claim_xrd` is
`ClaimMatured` or `ClaimByLoan`, by whether the claim has matured. `RedeemFaster`
and `ClaimByLoan` contain the manager's loan, `Settle` its repayment. `Settle`
quantifies over every claim in escrow *and* every staking CDP: the code takes both
from the caller and compares nothing.

In `PriceOracle` a call that needs one price is `UsePrice`, one that needs two
`UsePair`, which validates the collateral's first (`protocol.rs:416`); the two may be
of one token.

In `ValidatorKeeper` `FillValidatorStaking` and `InsertValidatorStaking` check no
more than the code does: filling takes any sequence of entries but the empty one, and
leaves a log that exists as it is; inserting takes any entry at any index of the log.

What aborts in the code is a guard in the model, library panics included: a
division by 0, a take of a negative amount or of one finer than the resource's
unit, an overdrawn vault, an unsigned difference below 0. Overflow of the 192-bit
decimal is not modelled; no amount here comes near it.

A call shows one price per token other than XRD: the one last signed, or none that
verifies, which the code reads as 0. `get_max_loan_amount` refuses prices that are
not both positive; liquidation refuses only when neither is (`protocol.rs:304`),
so its action quantifies over both (`Quotes`).

## 3. Runs

`ONE` is 1000 and a year has 4 epochs (52 in `keeper_capacity`): an epoch's interest
shows in every amount and rounding matters. Deadlock is not checked: a run ends when
its bounds are used up.

| Run | Shows |
|---|---|
| `lending_variable` | variable loans of USDT against XRD and against itself, flash loans of both two at a time with other calls between their ends, and liquidations as the price rises, limited by the close factor (50 % and 100 %), by the caller or by the collateral: all books agree, the owner's actions respect the loan-to-value ratio, only unhealthy CDPs are sold and at a fair amount |
| `lending_stable` | stable, staking and variable loans in the same pools, each token against the other, extended, given more collateral, repaid in less than the interest, exactly it, in part and in full, settled and liquidated, with insurance withdrawals: the pool's book of them changes as they do, and what is unpaid is owed |
| `earning` | fast and ordinary redemptions, and settlements of any claim on any staking CDP with and without a subsidy, as withdrawals and partial payments by others move the rates: `Redemption` is implemented, a claim covers its loan, and every claim in escrow is settled in the end |
| `registry` | pools replaced under deposits, loans and collateral |
| `oracle` | prices of two tokens signed by two keys over two epochs, shown in any order, one or two to a call, as the admin changes key and validity period |
| `keeper` | weekly logging with weeks missed, validators added and removed, and a log that the admin fills with any entries and inserts any in, at any index |
| `staking` | units bought and redeemed over two validators, one with rewards already and one new, as rewards come in |
| `stable_ltv`, `stable_health`, `insurance_withdrawn`, `short_settlement`, `keeper_capacity` | violations, section 4 |

Between them the passing runs take every action and every disjunct of the next-state
relations.

### Bounds

* Lending: deposits are 20000 in each pool; loans take a small part of a pool or more
  than half of it, and the price of USDT has two values, between which the larger loan
  outgrows its collateral and the smaller becomes unhealthy only. XRD has the unit 1
  and USDT 10. In `lending_variable` every dx has
  the unit 1 as in the deployment scripts (`MCConfig`): with a coarser one most
  liquidations abort at the take of the dx. In `lending_stable` XRD's dx has the unit
  10 (`CoarseDxConfig`), so that conversions between amount and dx really round.
  Four calls, two CDPs and two epochs (`MaxOps`, `MaxCdps`, `MaxEpoch`) are what the
  properties relate: two loans of a pool or one and its extension, time in between,
  repayment in part and then in full, or a liquidation. Every property of the
  lending core bounds the roundings it allows by the units, indices and rates that
  they come from, none by a tolerance.
* `insurance_withdrawn`: four epochs, a loan of 12000 of the 20000 and withdrawals of 50,
  so that interest leaves an insurance that covers one withdrawal but not two.
* `earning`: two claims and two loans, the smallest number that can be crossed, two
  sizes of claims so that a claim may be short of another's loan, and four calls:
  two loans and their settlements, or one of these with a payment or a withdrawal by
  others. Claims mature two epochs on and the run lasts four. `Dust` (12) is what the
  roundings of a settlement may shift: `EscrowCovers`, `TimelySettlementPays` and
  `LoansOwed` allow it, because partial payments by others truncate the compounding of
  a loan anew.
* `registry`: four pools, so each token's may be replaced or one twice; five calls,
  which a deposit, loan, replacement, repayment and release need.
* `oracle`: three messages over four instants and two epochs, shown in up to two
  transactions of one or two prices; a period of 2, and of 1 when changed. `Quotes`
  is a symmetry set: no definition tells tokens apart.
* `keeper`: weeks of two epochs, five epochs, two validators with different yields;
  with `RESERVE_WEEKS` 4 a log of three entries can be written no more, which happens in
  the last week. One validator's log is filled with up to two entries (`MaxFill`), and
  has more inserted while it has at most one (`MaxInserted`), so that an entry gets
  before and behind another. They are those of the epochs 0 and 2 (`Backfills`), one
  with no stake units, and one of an epoch to come with too much staked (`Misstated`). `keeper_capacity` logs one validator for 12 weeks with
  `RESERVE_WEEKS` 12.
* `staking`: six calls and rewards.

### Safety properties

* `ShareBook`, `StableBook`, `CollateralBook`: pool, positions and custody agree.
* `Solvent`, `BooksBalance`, `InsuranceCovered` (pools without stable loans): a pool
  owns what it owes, short of less than a loan share's worth and two digits per call.
  Each call changes what it owns as it changes what it owes: the pool loses no more
  than that, and keeps no more than the roundings of a payment and a redemption
  (`Rounding`) and the part of a flash loan's fee that no depositor gets (`FeeKept`,
  section 4). Its depositors are not paid from its insurance, but for the digits
  (`LastDigits`) by which the loan index, compounded from truncated rates, is short.
* `DepositsCovered`: what the admin takes as insurance is never the depositors'
  (refuted, section 4).
* `LtvRespected`: after an owner borrows more or takes out collateral, the debt
  with its interest is within the ratio; stated with a debt counted independently
  of the code's guards (variable loans).
* `NoRetroactiveInterest`, `IndexMonotone`: a call does not change what has been
  earned up to the present, and the indices that it stores never fall.
* `StableBookFollows`: a pool counts its stable loans twice, one by one in the CDPs
  and as an amount at a mean rate. A call changes the two alike, amount and charge,
  but for the interest that an extension makes principal of the CDP only, what a
  short settlement leaves unpaid, the rate of a loan whose interest is forgotten, and
  the digits of the quotient; or it empties the book. That is about each call: over
  several the mean can part from the loans and even fall below 0 (section 4).
* `DebtFallsByPayment`, `PaymentCredited`, `ClosedMeansPaid`: a debt, variable or
  stable, falls by what is paid, no less and no more. `UnpaidIsOwed`: and never below
  what was borrowed and has not been paid, whatever rounding, extension, forgotten
  interest and passing of time do to it.
* `OnlyUnhealthyLiquidated`, `LiquidationFair`, `UnhealthyLiquidatable`.
  `CollateralNotNegative`: a call that lowers the collateral of a CDP may leave it below
  0 only by what the index computed back from the collateral is short, or, where the
  owner withdraws, by an amount of dx too small to lend anything. `AnyCoverSells`: the
  close factor's share of a debt is hardly ever a payable amount of a coarse token and
  then aborts, but any smaller amount that the caller names goes through, if the
  collateral is worth it and its pool is not lent out.
* `CustodyKept`, `LoansKept`: the books across all pools of a token, old and new.
* `ImplementsRedemption`, `EscrowMatched`: claims and loans through every order of
  calls. `EscrowCovers`, `TimelySettlementPays`, `OrphanedByShortSettlement`: the
  discount of a fast redemption, fixed at the rate of the moment, covers the loan's
  interest and the settler's gas; principal is left without a CDP only by a
  settlement that was short, and by no more than it was short, to a unit of XRD.
* `StaleRefused`, `NewestAccepted`: no order of uses lets a stale price in or locks
  the newest out.
* `AlwaysAnswers`: from the second week on, whatever the admin put in a log, and before
  that if it put nothing there. `ApyWithinEarnings`: the yield told is one that the
  active validators made of late, if no false entry was put in their logs, true ones at
  whatever index and however often. `ActiveOnceLogged`: the step that logs a validator
  over an entry of the week before makes it active.
* `FairExchange`, `UnitValueKept`: who joins or redeems gets what is due at the value
  of a unit just before, and the units of the others keep their value, to the smallest
  part of a unit and the last digit of a quotient.

Three exceptions are part of the statements, because the code has them: adding
collateral to a stable CDP sets its rate to 0 and forgets the interest so far
(`cdp.rs:440`; also in `StableBookFollows`), a payment of exactly a stable CDP's interest leaves the epoch
that interest counts from, so that it is due again (`cdp.rs:665`), and the repayment
of a stable loan sets rates before indices (`lending.rs:320`), which moves the
variable debts and deposits of that pool. The inputs of `lending_stable` reach all
three; without the exceptions TLC refutes the properties.

Every property of a passing run has a mutant in `PROJECT.json`: a definition
changed as a plausible bug would change it (an index that restarts from 1, an epoch
not recorded, shares divided twice, the wrong threshold), on which the same run
finds the property violated. The mutants stand in the modules next to what they
mutate.

### Refinement

`EarningProperties` instantiates `Redemption` with the claims in wallets, in escrow
and paid, the claims that have matured, and the staking CDPs open and closed:
`ImplementsRedemption` is its specification, checked by the run `earning` and proved
for every instance (section 5). A step of the manager is a stutter there, or, when
the epoch moves, `Ripen`.

### Liveness and fairness

`EveryClaimSettled`: each claim in escrow is paid in the end. It is checked under
`FairEarningSpec`, which assumes

* weak fairness of `Tick`: ledger epochs pass whatever anyone does;
* for each claim, weak fairness of settling it while there is a CDP and a subsidy
  with which `Settle` goes through: `settle` is open to anyone and leaves the
  settler's gas in the relay vault, which is why relayers do it.

Nothing else is assumed: no redemption, payment or deposit need ever come. The
property could fail if a claim lost its partner, or if the state of the pool could
make a settlement abort for ever. The bound on calls is not part of the readiness of
a settlement (`SettleReady`), so behaviours in which others use up all calls while
a claim is ready do not count as fair. What remains are the behaviours that leave a call
for each settlement: two of the four are free with one loan, none with two.

The lending core has no liveness property: every step there is somebody's call and no
call is ever owed, so the code justifies no fairness. What could be asked
instead, that a call is *possible*, is asked as safety (`UnhealthyLiquidatable`,
`AnyCoverSells`, `NewestAccepted`, `AlwaysAnswers`).

## 4. Findings

With a run that shows the violation:

* `stable_ltv`: `withdraw_collateral` counts loan shares only (`cdp.rs:427`), of
  which a stable CDP has none. All of its collateral can be withdrawn.
* `stable_health`: the liquidation of a stable CDP sees its interest without the
  principal (`cdp.rs:615`); an unhealthy one cannot be liquidated.
* `insurance_withdrawn`: `withdraw_insurance` does not lower the balance it checks
  (`lending.rs:141-144`). A variable loan's interest leaves an insurance of 56; 50 of it
  are withdrawn, which the pool can bear, and then 50 again, which its deposits cannot.
* `short_settlement`: `staking_repay` compares the bucket with what was taken out of
  it (`cdp.rs:255`) and burns the CDP of a debt that is not covered; the rest stays in
  the pool's stable book and nobody owes it.
* `keeper_capacity`: the log is trimmed by its capacity, which a removal does not
  lower (`keeper.rs:149`); logging aborts for all validators when one log has a little
  more than half of `RESERVE_WEEKS` entries.

Seen while modelling, as limits of what the properties claim:

* The supply rate is computed from a stable book compounded since epoch 0
  (`lending.rs:445`, `stable_loan_last_update` is never set), while `update_index`
  accrues its interest since the last update: with stable loans the insurance balance
  falls below 0. `InsuranceCovered` and `BooksBalance` are about pools without.
* `repay_stable` sets rates without updating the indices (`lending.rs:320`): with one,
  the next reader of an index computes the time since the last update at the new
  rates. `NoRetroactiveInterest` and `DebtFallsByPayment` except that call, and
  only it.
* The mean rate of a stable book can become negative (`lending.rs:309`): extending a
  stable loan adds its interest to the CDP and not to the book, and a payment that
  leaves a few of the smallest parts divides the truncation of the mean by them. The
  latter happens in the states of `earning` (9 parts left, at a rate of -0.333), so
  that nothing that is proved of staking earning rests on the mean rate.
* A pool whose `insurance_ratio` is above 1 would pay depositors a negative rate and
  its supply index would fall; `new_pool` sets no limit (`cdp.rs:194`). The theorems
  that need one say so (`Prudence`).
* Powers by squaring that truncate at every level are not monotone in the exponent
  (with `ONE` 25, the 64th power of 26 is 213 and the 63rd 214), so that over one
  epoch a debt could fall by its last digits (`utils.rs:59`). Nothing claims that a
  debt grows with time to the last digit; `UnpaidIsOwed` says how far it cannot fall.
* In the first week an entry that the admin puts behind one of epoch 0 makes the
  keeper's answer abort (`keeper.rs:268`), and an entry that a validator never had
  makes any yield: `fill_validator_staking` and `insert_validator_staking` check neither
  order nor amounts (`keeper.rs:119-127`). `AlwaysAnswers` and `ApyWithinEarnings` say
  where they apply.
* A flash loan's fee is added to the supply index as its quotient by the supply, where
  the supply is the *worth* of the dx (`lending.rs:339`, `:343`); the index is the worth
  of one dx, so that the depositors together get the fee divided by the index, at an
  index of 1.5 two thirds of it. The rest, and what the quotient truncates, stays in the
  pool and belongs to nobody. `BooksBalance` allows just that (`FeeKept`).
* `README.md:19` says deposits "can be withdrawn at any time": not while they are lent
  out (`lending.rs:178`), and not after their pool has been replaced (`cdp.rs:225`),
  since their dx then leads to the new pool, which refuses it.
* A call of two prices compares each with those seen before it: an old collateral
  price is accepted next to a new price of the borrowed token (`protocol.rs:416`).
* `get_price_quote_in_xrd` always answers 0: its branch for a present price has no
  `return` (`oracle.rs:92`). No method calls it.
* A redemption of all that a validator's units are worth may pass the assertion of
  `staking.rs:129` and abort in the take, by a rounding of the quotient.

## 5. Proofs

TLAPS proves the following for every set of tokens, every configuration, prices,
inputs and bounds that satisfy the assumptions of the modules (`DecimalsAssumption`,
`InterestModelAssumption`, `ManagerAssumption` and so on), and no theorem has another
hypothesis than those named here.

### The lending core

| Theorem | Shows | Where |
|---|---|---|
| `TypeCorrect` | `[]TypeOK`: no vault is overdrawn, no custody vault falls below 0 | always |
| `ShareBookHolds`, `CollateralBookHolds` | `[]ShareBook`, `[]CollateralBook` | always |
| `StableBookHolds` | `[]StableBook` | `SettledInFull` |
| `IndexMonotoneHolds`, `NoRetroactiveInterestHolds` | `IndexMonotone`, `NoRetroactiveInterest` | (a) |
| `DebtFallsByPaymentHolds`, `PaymentCreditedHolds` | `DebtFallsByPayment`, `PaymentCredited` | (a) |
| `ClosedMeansPaidHolds`, `UnpaidIsOwedHolds` | `[]ClosedMeansPaid`, `[]UnpaidIsOwed` | (a) |
| `OnlyUnhealthyLiquidatedHolds`, `LiquidationFairHolds` | `OnlyUnhealthyLiquidated`, `LiquidationFair` | (a) |
| `CollateralNotNegativeHolds`, `AnyCoverSellsHolds` | `CollateralNotNegative`, `[]AnyCoverSells` | (a) |
| `UnhealthyLiquidatableHolds`, `LtvRespectedHolds` | `[]UnhealthyLiquidatable`, `LtvRespected` | (b) |
| `InsuranceCoveredHolds` | `InsuranceCovered` | (b) |
| `SolventHolds`, `BooksBalanceHolds` | `[]Solvent`, `BooksBalance` | (b), and `Inputs["insurance"] = {}` |
| `RatesWithoutStableLoans` | the condition of (a), `[]StableRatesNotNegative` | (b) |

(a) In the behaviours in which the mean stable rates stay rates
(`[]StableRatesNotNegative`), with `Prudence`: no `insurance_ratio` above 1.
(b) In the behaviours in which nobody takes a stable loan (`[]NoStableLoans`), with
`Prudence`. By `RatesWithoutStableLoans` (b) implies (a), so that every theorem of (a)
holds in every variable market without a condition on rates.

`SettledInFull`: whoever settles a staking loan brings all that is owed.

Section 4 says why the hypotheses are there: `stable_ltv` and `stable_health` refute
the properties of (b) where there are stable loans, `insurance_withdrawn` refutes
the cover of deposits where the admin takes the insurance, `short_settlement` the stable book where
a settlement is short; and with a negative mean rate, or a negative deposit rate,
indices may fall, on which all of (a) rests.

**Types and books.** `IInv` (`InvariantHolds`) is `TypeOK`, the two books, and
`NotInFuture`: no pool and no CDP was updated later than the present. Without the
latter the step does not go through: an index is compounded over
`epoch - last_update` epochs and the power function is defined for natural exponents
only, so a pool "from the future" could have an index that is no number. The books
are needed with the types because a custody vault stays a natural number only as
long as it covers the positions, and `FreeDx` is not negative only as long as custody
is within the dx supply.

**Interest and debts.** `Growth` is inductive next to `IInv` under (a): indices are at
least 1 and no rate that is paid is negative (`Growing`), pools and CDPs owe no
negative amount (`Booked`, `Owing`), and of every CDP all that was borrowed is repaid
or owed: as principal of a stable one, and of a variable one but for a share's worth
per call (`Accounted`, from which `ClosedMeansPaid` and `UnpaidIsOwed` follow; for the
latter it is enough that a power of a factor of at least 1 is at least 1). One lemma
says what a step does: it is a call (`CallKept`: every pool keeps its present indices,
`PoolMoved`, and every CDP is `Served`, its debt falling by what is paid), or time
passes and nothing but the epoch changes (`TimePasses`). The action properties are
read off these two.

**Liquidation.** That an unhealthy CDP passes the checks (`UnhealthyLiquidatable`) and
that a liquidated one was unhealthy are the two directions of the same comparison of
quotients, with `Debt` counted independently of the guards. Fairness is about a
quotient of quotients: the code values a dx at an index that it computes back from
the collateral's amount, which is below the true one by its truncation
(`LeastIndex`). The bound is exact in both of the code's cases, where the paid amount
sets the dx and where the collateral sets the amount.

Only withdrawals and liquidations lower the collateral of a CDP. That neither takes
more than there is, but for the two roundings, rests on a lemma each: `WithdrawalShort`
(what is left lends at least the debt, which is not negative) and `SaleShort` (the dx
sold are a quotient by the index computed back, of an amount within the collateral).
For `AnyCoverSells` every guard of the liquidation is shown to pass: the amount that the
caller names is the one taken and the dx are within the position (`TermsOfCover`), and
with such terms no assertion and no take from a vault or a bucket aborts
(`CoverSells`).

**Solvency.** `Sufficient` adds to `Growth` what a pool is short of: its liabilities
less its vault and variable loans (`Lack`), less what is out in flash loans, each with
a number of its own (`Numbered`), at the indices last stored. A call adds to it at
most a share's worth and two digits (`StepBacked`), from one lemma per pool method;
settling the interest adds nothing but digits, because the insurance takes exactly the
spread between the two indices. `StepBacked` bounds the change from both sides, so
`BooksBalance` is read off it.

**The insurance.** What the insurance balance gets is what borrowers were charged less
what depositors earned, over the same epochs, the one compounded and the other linear
and from rates that an earlier call left. `Rated` adds to `Growth` that these rates fit
the books: what an epoch's deposit rate pays on the dx is at most what its loan rate
charges on the shares (`Matched`). Every method leaves such rates, since it computes
them from the books it leaves (`UpdateInterestRateMatched`), and between calls neither
changes. Compound interest is never below linear interest, truncations of the squaring
included (`PowiLinear`), so that an update takes from the insurance no more than the
digits by which the rate of an epoch and the products are truncated
(`UpdateIndexCovers`). Withdrawals need no exception, for they leave the balance as it
is (`insurance_withdrawn`).

**The stable book.** `Orphan(t)` is the principal in the book of t that no CDP owes.
No step raises it above 0 (`NoneOrphaned`) but a settlement, and that by no more than
it was short (`StakingRepayOrphans`). The invariant next to `IInv` is `Debtors`: stable
CDPs owe no negative amount at no negative rate, the vault's CDPs are stable loans of
XRD, books are not negative. It needs no condition on the *mean* rate, since a loan is
given at a rate that is never below the validators' APY (`StableRateNat`), and a mean
over an extension is a mean of two such rates. That is why `StableBookHolds`, and
all that follows of staking earning, have neither of the conditions of (a).

### Staking earning

* `Implementation`: `EarningSpec => ImplementsRedemption`, the refinement for any
  settings, amounts and bounds, with every call of the manager in between.
* `EscrowMatchedHolds`: `EarningSpec => []EscrowMatched`.
* `OrphanedByShortSettlementHolds`: `EarningSpec => OrphanedByShortSettlement`.
* `EscrowCoversHolds`, `TimelySettlementPaysHolds`: `[]EscrowCovers` and
  `TimelySettlementPays`, in the behaviours in which nobody pays a staking loan off in
  part (`OnlySettled`); the second where `Dust` is at least what rounding to a unit of
  XRD takes (`Unit(XRD) - 1 <= Dust`).
* `RedemptionSafe`: in `Redemption` a claim is in one place (so it is paid to one
  party), only mature claims are paid, and open loans are as many as escrowed claims.
  By `Implementation` the component inherits it (`ClaimsPaidOnce`).

The invariant of the refinement is `EInv`: the manager's `IInv`, `EarningFrame` (claims
in escrow and paid claims are apart, paid ones are mature, every CDP in the manager's
vault is a staking CDP) and `Vaults`. `IInv` is needed because the claims' CDPs are
positions of `cdps`, whose type only the whole manager's invariant keeps; the last part
of `EarningFrame` is what makes a CDP leaving the vault a closed *loan*. The key lemma
is `NextKeepsCdps`: no other call of the manager turns a CDP into a staking CDP or
back, or makes one disappear. `EscrowMatched` alone is not inductive, since a
cardinality is only known of finite sets, which `Vaults` adds.

The amounts rest on `EscrowSound`: every escrowed claim has a CDP, and while that is in
the vault, its debt *grown to the claim's epoch* plus the gas is within the claim,
exactly. It is established by `DiscountCovers`: for a growth `r >= 1`, multiplying
`a / r - gas` by `r` and adding the gas gives no more than `a`, however quotient and
product are truncated. It is kept because nothing but a partial payment changes what a
staking loan grows to: not the pool's rates, nor other loans, nor the component's
settings. `RelayPays` adds that the relay vault never owes.

### Staking pool

`FairExchangeHolds`, `UnitValueKeptHolds`: for any number of validators, any worths of
their units, rewards and amounts. The invariant (`StakesKnownHolds`) is that a
validator's units have a worth (none are outstanding if and only if nothing is staked) and that the
pool has no more units of a validator than there are. The value of a unit is the
quotient of a sum over all validators; an exchange changes one term of it, and the
proofs bound each of the truncated conversions (stake to unit, unit to the pool's unit,
and back) by the smallest part of what it converts to. Assumed is that the validators
are finitely many and that those found at the start have such units.

### Registry, keeper and oracle

* `CustodyKeptHolds`, `LoansKeptHolds`, `TablesFit`: however often pools are replaced.
  The invariant is the two properties and `TablesOK` (a dx and a custody vault for
  every component, the present component of a token is one of that token, every CDP's
  borrowed token has a pool); a step changes one component, one CDP and one vault,
  and with them one term of each sum.
* `AlwaysAnswersHolds`, `ActiveOnceLoggedHolds`, `ApyWithinEarningsHolds`, `LogsInOrder`:
  for any entries that the admin gives, at any index and in any number. The invariant
  (`KeeperInv`) says that no log is empty, that in a log without entries of the admin's
  weeks *strictly* fall from the newest to the oldest, and that every entry of a log
  that was given none but true ones has what its validator had staked in its epoch,
  which never falls. The keeper subtracts weeks and epochs of neighbouring entries,
  which aborts where they are out of order. From the second week on the code's own
  check of the newest entry's week comes first, and entries of *consecutive* weeks
  have their epochs in order by that alone; in the first week only the logs' order
  helps. The yield is a mean over the active validators of yields between two entries
  of consecutive weeks; it lies between the least and the greatest because a sum over
  a finite set lies between as many times its least and its greatest term
  (`SetSumBounds`), and the yield between two epochs, between that of the slowest and
  of the fastest epoch between them.
* `StaleRefusedHolds`, `NewestAcceptedHolds`: for any number of tokens, keys, messages
  and transactions. `StaleRefused` is about all transactions so far, the code looks at
  two fields only. The invariant (`OracleInvariant`) relates the two: the timestamp
  kept is the newest used in the epoch (`SeenByLast`), it is one that was signed
  (`LastSigned`), and nothing was signed in the future (`SignedInTime`).

### How the proofs are built

1. `LendResourcePoolProofs`, first part: a step that looks at lower levels only
   defines a function on the naturals (`RecursionTheorem`), by induction stated for
   *sets*, since the induction theorems of the library take operators. `Powi` and `Sum`
   are such functions. Then exact bounds of the truncated product and quotient, of
   rounding up and down, and of powers; sums with one element appended or changed, and
   over finite sets.
2. Second part: one lemma per pool operation, saying that it leaves a pool of the right
   type and what it moves (`...Sound`), and then, of pools with no negative rate, what
   it does to indices, to the worth of loan shares, to `Lack` and to what the insurance
   gets.
3. `LendingProofs`: what a CDP appended or changed does to the sums of claims, and one
   lemma per action; `NextInv` combines them into `IInv`.
4. `LendingStepProofs`: the step relations and invariants above, one lemma per action
   for each, and the theorems read off them.
5. `EarningProofs` on top, with the manager's step lemmas at the steps of others;
   `RegistryProofs`, `KeeperProofs` and `StakingProofs` on the first, of which the last two
   use the sums over finite sets; `OracleProofs` on its own.

The liquidation is the hard case everywhere: two pools change, which may be one and
the same, and the dx released is a quotient of quotients that may exceed the position
by dust; custody is still covered because position and vault drop by the same dx, and
the supply drops by it as well.

### Model-checked only

* `StableBookFollows`: the proofs follow the book's amount (`Orphan`), not its mean.
* `StableRatesNotNegative` is neither checked nor proved: it is false of the code
  (section 4), and the theorems of (a) name it as their condition.
* `EveryClaimSettled`: liveness is out of the prover's reach, as is `ENABLED`.
* `EscrowCovers` and `TimelySettlementPays` where others pay a staking loan off in part:
  each payment truncates the compounding anew; the run `earning` has such payments.
* What the recursive functions compute (`Powi`, `Sum`) is proved as far as the lemmas
  need (types, bounds, one element changed); their equality with a closed form is not.

## 6. Not modelled, and what is left

Not modelled: metadata, access rules, events, logging, getters; the 192-bit overflow;
`register_validator_address` and its map; the encoding of the text that a price signer
signs (parts are taken to be told apart); the prices kept by `set_price_quote_in_xrd`,
which no method answers with; the manifests, scripts and the ledger test under `docs/`
and `tests/`, which have no logic of their own. `PoolRegistry` has the variable loans
only: stable loans, liquidations and flash loans go through the same tables.

Left to do, in order of worth:

1. `DebtLedger`, an abstract specification of the lending core: accounts whose
   balances change by calls and accrue by time, which the manager implements for
   variable loans up to dust.
2. `BooksBalance` and `InsuranceCovered` of pools with stable loans. Both fail of the
   code as it is (section 4); what could be said is by how much. `StableBookFollows` as
   a theorem is the first part of that.
3. `EscrowCovers` and `TimelySettlementPays` with payments in part, and by how much the
   compounding that each payment truncates anew shifts a debt, instead of `Dust`.
4. The keeper's APY as the lending modules' rate floor, in one composition.
