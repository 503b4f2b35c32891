-------------------------- MODULE LendingStepProofs --------------------------
(***************************************************************************)
(* What the steps of the collateral debt manager do to indices, debts,     *)
(* collateral and the pools' books, for any tokens, prices, inputs and     *)
(* bounds, as long as no pool keeps more than all of its interest for the  *)
(* insurance (Prudence) and no mean stable rate has become negative.       *)
(*                                                                         *)
(* Interest only accrues; a debt falls by no more than what is paid for it *)
(* and by all of that; what was borrowed and has not been paid is owed;    *)
(* what is liquidated was unhealthy, and the liquidator gets what was paid *)
(* for and the bonus.  Without stable loans, also: an unhealthy CDP can be *)
(* liquidated, owners stay within their loan-to-value ratio, a pool owns   *)
(* what it owes, every call books what it moves, and the insurance pays no *)
(* depositor.                                                              *)
(*                                                                         *)
(* With stable loans, and under neither of the two conditions, the stable  *)
(* book of a pool is covered by what its stable CDPs owe, unless a staking *)
(* loan is settled short.                                                  *)
(***************************************************************************)
EXTENDS LendingProofs

Prudence == \A t \in Tokens : Config[t].insurance_ratio <= ONE

\* A CDP owes no negative amount and no negative rate.
Owing(cdp) ==
  cdp.normalized_borrow >= 0 /\ cdp.borrow_amount >= 0 /\ cdp.stable_rate >= 0

\* What a CDP has borrowed is repaid or owed: as principal of a stable loan, and
\* of a variable one but for the worth of n loan shares.
Accounted(cdp, P, n) ==
  IF cdp.is_stable THEN cdp.total_borrow <= cdp.total_repay + cdp.borrow_amount
  ELSE cdp.total_repay * ONE + (cdp.normalized_borrow + n) * P.loan_index
         >= cdp.total_borrow * ONE

StakingVault == \A i \in cdp_vault : cdps[i].is_stable /\ cdps[i].borrow_token = XRD

\* What is inductive next to IInv while the mean stable rates are not negative.
Growth ==
  /\ \A t \in Tokens : Growing(pools[t]) /\ Booked(pools[t])
  /\ \A i \in Ids : Owing(cdps[i]) /\ Accounted(cdps[i], pools[cdps[i].borrow_token], ops)
  /\ StakingVault
  /\ \A t \in Tokens : price[t] \in Prices[t]

-----------------------------------------------------------------------------
(* What a call may do to a pool *)

Grown(Q, P) == /\ Growing(Q) /\ Booked(Q)
               /\ Q.deposit_index >= P.deposit_index /\ Q.loan_index >= P.loan_index

SameNow(Q, P, e) == /\ LoanIndex(Q, e) = LoanIndex(P, e)
                    /\ SupplyIndex(Q, e) = SupplyIndex(P, e)

LEMMA SteadyGrown ==
  ASSUME NEW e \in Environment, NEW P, Sound(P, e), Growing(P), NEW Q, Steady(Q, P, e)
  PROVE  Grown(Q, P) /\ SameNow(Q, P, e)
<1>1. SameNow(Q, P, e)
  BY SteadyIndices DEF Steady, SameNow
<1>2. /\ SupplyIndex(P, e) >= P.deposit_index /\ LoanIndex(P, e) >= P.loan_index
      /\ Q.deposit_index = SupplyIndex(P, e) /\ Q.loan_index = LoanIndex(P, e)
  BY IndicesGrow DEF Steady, Settled
<1>3. Growing(Q) /\ Booked(Q)
  BY DEF Steady
<1> QED BY <1>1, <1>2, <1>3 DEF Grown

LEMMA QuietGrown ==
  ASSUME NEW e \in Environment, NEW P, Sound(P, e), Growing(P), Booked(P), NEW Q, Quiet(Q, P)
  PROVE  Grown(Q, P) /\ SameNow(Q, P, e) /\ SameStable(Q, P)
<1>1. /\ Growing(Q) /\ Booked(Q) /\ SameStable(Q, P)
      /\ SupplyIndex(Q, e) = SupplyIndex(P, e) /\ LoanIndex(Q, e) = LoanIndex(P, e)
  BY QuietKeeps DEF Quiet
<1>2. Q.deposit_index = P.deposit_index /\ Q.loan_index = P.loan_index
  BY DEF Quiet, SameIndices
<1>3. P.deposit_index \in Int /\ P.loan_index \in Int
  BY DEF Sound, Pool
<1> QED BY <1>1, <1>2, <1>3 DEF Grown, SameNow

LEMMA PoolGrows ==
  ASSUME IInv, Growth, Prudence, NEW t \in Tokens
  PROVE  /\ Env(t) \in Environment /\ Prudent(Env(t)) /\ Sound(pools[t], Env(t))
         /\ Growing(pools[t]) /\ Booked(pools[t])
<1>1. Env(t) \in Environment /\ Sound(pools[t], Env(t))
  BY PoolSound DEF IInv
<1>2. Env(t).cfg = Config[t]
  BY EnvType DEF IInv, Books
<1> QED BY <1>1, <1>2 DEF Growth, Prudence, Prudent

\* The indices of t keep what the step found, and its stable book too where
\* nobody has a stable loan.
PoolMoved(t) ==
  /\ Grown(pools'[t], pools[t])
  /\ IndicesKept(t)
  /\ SameStable(pools'[t], pools[t]) \/ ~NoStableLoans'

LEMMA EnvKept ==
  ASSUME epoch' = epoch, NEW t
  PROVE  Env(t)' = Env(t)
  BY DEF Env

LEMMA IndicesNext ==
  ASSUME epoch' = epoch, NEW t
  PROVE  /\ LoanIndex(pools[t], Env(t))' = LoanIndex(pools'[t], Env(t))
         /\ SupplyIndex(pools[t], Env(t))' = SupplyIndex(pools'[t], Env(t))
  BY DEF LoanIndex, SupplyIndex, Env

LEMMA PoolLeft ==
  ASSUME IInv, Growth, Prudence, epoch' = epoch, NEW t \in Tokens, pools'[t] = pools[t]
  PROVE  PoolMoved(t)
<1>1. Grown(pools'[t], pools[t]) /\ SameNow(pools'[t], pools[t], Env(t))
  <2>1. Quiet(pools'[t], pools[t])
    BY DEF Quiet, SameIndices, SameRates, SameStable
  <2> QED BY <2>1, PoolGrows, QuietGrown
<1>2. IndicesKept(t)
  BY <1>1, IndicesNext DEF IndicesKept, SameNow
<1>3. SameStable(pools'[t], pools[t])
  BY DEF SameStable
<1> QED BY <1>1, <1>2, <1>3 DEF PoolMoved

\* A call moves one pool.
LEMMA OnePoolMoved ==
  ASSUME IInv, Growth, Prudence, epoch' = epoch, NEW b \in Tokens, NEW Q,
         pools' = [pools EXCEPT ![b] = Q],
         Grown(Q, pools[b]),
         \/ SameNow(Q, pools[b], Env(b))
         \/ /\ flashloans' # flashloans
            /\ LoanIndex(Q, Env(b)) = LoanIndex(pools[b], Env(b))
            /\ SupplyIndex(Q, Env(b)) > SupplyIndex(pools[b], Env(b))
         \/ StableRepayment(b),
         SameStable(Q, pools[b]) \/ ~NoStableLoans'
  PROVE  \A t \in Tokens : PoolMoved(t)
<1>1. pools'[b] = Q /\ \A t \in Tokens : t # b => pools'[t] = pools[t]
  BY DEF IInv, Books
<1>2. IndicesKept(b)
  BY <1>1, IndicesNext DEF IndicesKept, SameNow
<1>3. PoolMoved(b)
  BY <1>1, <1>2 DEF PoolMoved
<1>4. \A t \in Tokens : t # b => PoolMoved(t)
  BY <1>1, PoolLeft
<1> QED BY <1>3, <1>4

-----------------------------------------------------------------------------
(* What a call may do to the debts *)

DebtOf(cdp, P, e) ==
  IF cdp.is_stable
  THEN cdp.borrow_amount + StableInterest(e, cdp.borrow_amount, cdp.stable_rate,
                                          cdp.last_update_epoch)
  ELSE DMul(cdp.normalized_borrow, LoanIndex(P, e))

LEMMA DebtNow ==
  ASSUME NEW i
  PROVE  Debt(i) = DebtOf(cdps[i], pools[cdps[i].borrow_token], Env(cdps[i].borrow_token))
  BY Zenon DEF Debt, DebtOf

LEMMA DebtNext ==
  ASSUME epoch' = epoch, NEW i
  PROVE  Debt(i)' = DebtOf(cdps'[i], pools'[cdps'[i].borrow_token],
                           Env(cdps'[i].borrow_token))
<1>1. Debt(i)' = DebtOf(cdps[i], pools[cdps[i].borrow_token], Env(cdps[i].borrow_token))'
  BY Zenon DEF Debt, DebtOf
<1> QED BY <1>1 DEF DebtOf, LoanIndex, StableInterest, Env

LEMMA DebtType ==
  ASSUME IInv, NEW i \in Ids
  PROVE  /\ Debt(i) \in Int
         /\ cdps[i].is_stable =>
              StableInterest(Env(cdps[i].borrow_token), cdps[i].borrow_amount,
                             cdps[i].stable_rate, cdps[i].last_update_epoch) \in Int
<1> DEFINE cdp == cdps[i]
           e   == Env(cdp.borrow_token)
<1>1. /\ cdp \in CollateralDebtPosition /\ cdp.last_update_epoch <= epoch
      /\ cdp.borrow_token \in Tokens /\ cdp.borrow_amount \in Int /\ cdp.stable_rate \in Int
      /\ cdp.last_update_epoch \in Nat /\ cdp.normalized_borrow \in Int
  BY CdpKnown, CdpType DEF IInv
<1>2. e \in Environment /\ e.now = epoch /\ Sound(pools[cdp.borrow_token], e)
  BY <1>1, PoolSound, EnvType DEF IInv, Books
<1>3. StableInterest(e, cdp.borrow_amount, cdp.stable_rate, cdp.last_update_epoch) \in Int
  BY <1>1, <1>2, StableInterestType
<1>4. DMul(cdp.normalized_borrow, LoanIndex(pools[cdp.borrow_token], e)) \in Int
  BY <1>1, <1>2, IndexType, DMulType
<1>5. DebtOf(cdp, pools[cdp.borrow_token], e) \in Int
  BY <1>1, <1>3, <1>4 DEF DebtOf
<1> QED BY <1>3, <1>5, DebtNow

\* The loan of x goes on as that of y.
SameLoan(y, x) ==
  /\ y.borrow_token = x.borrow_token /\ y.is_stable = x.is_stable
  /\ y.total_borrow = x.total_borrow /\ y.total_repay = x.total_repay
  /\ y.normalized_borrow = x.normalized_borrow /\ y.borrow_amount = x.borrow_amount
  /\ y.last_update_epoch = x.last_update_epoch /\ y.stable_rate = x.stable_rate

\* What a call does to CDP i: all that was paid and no more came off its debt.
Served(i) ==
  /\ cdps'[i].borrow_token = cdps[i].borrow_token /\ cdps'[i].is_stable = cdps[i].is_stable
  /\ Owing(cdps'[i])
  /\ Accounted(cdps'[i], pools'[cdps[i].borrow_token], ops')
  /\ FallPaid(i)
  /\ Paid(i) > 0 => Credited(i)

LEMMA AccountedLonger ==
  ASSUME NEW x \in CollateralDebtPosition, NEW P \in Pool, NEW Q \in Pool,
         NEW m \in Nat, NEW n \in Nat, Growing(P), Q.loan_index >= P.loan_index, n >= m,
         x.normalized_borrow >= 0, Accounted(x, P, m)
  PROVE  Accounted(x, Q, n)
<1> DEFINE a == x.normalized_borrow + m
           b == x.normalized_borrow + n
           L == P.loan_index
           K == Q.loan_index
           r == x.total_repay * ONE
           w == x.total_borrow * ONE
<1>1. /\ a \in Nat /\ b \in Nat /\ b >= a /\ L \in Nat /\ K \in Nat /\ K >= L
      /\ r \in Int /\ w \in Int
  BY CdpType, DecimalsAssumption DEF Pool, Growing
<1>2. x.is_stable \/ r + a * L >= w
  BY DEF Accounted
<1> HIDE DEF a, b, L, K, r, w
<1>3. a * L <= b * L /\ a * L \in Int /\ b * L \in Int
  BY <1>1, TimesMonotone
<1>4. L * b <= K * b /\ L * b \in Int /\ K * b \in Int
  BY <1>1, TimesMonotone
<1>5. b * L = L * b /\ b * K = K * b
  BY <1>1
<1>6. x.is_stable \/ r + b * K >= w
  BY <1>1, <1>2, <1>3, <1>4, <1>5
<1>7. CASE x.is_stable
  BY <1>7 DEF Accounted
<1>8. CASE ~x.is_stable
  BY <1>6, <1>8 DEF Accounted, b, K, r, w
<1> QED BY <1>7, <1>8

\* A CDP whose loan the call does not touch.
LEMMA LoanUntouched ==
  ASSUME IInv, IInv', Growth, epoch' = epoch, ops' >= ops, NEW i \in Ids, i \in Ids',
         SameLoan(cdps'[i], cdps[i]), PoolMoved(cdps[i].borrow_token)
  PROVE  Served(i)
<1> DEFINE x == cdps[i]
           y == cdps'[i]
           b == x.borrow_token
<1>1. /\ x \in CollateralDebtPosition /\ b \in Tokens /\ x.total_repay \in Int
      /\ y \in CollateralDebtPosition /\ ops \in Nat /\ ops' \in Nat
      /\ pools[b] \in Pool /\ pools'[b] \in Pool
  BY CdpKnown, CdpType DEF IInv, Books, Frame, Ids
<1>2. /\ y.borrow_token = b /\ y.is_stable = x.is_stable
      /\ y.total_borrow = x.total_borrow /\ y.total_repay = x.total_repay
      /\ y.normalized_borrow = x.normalized_borrow /\ y.borrow_amount = x.borrow_amount
      /\ y.last_update_epoch = x.last_update_epoch /\ y.stable_rate = x.stable_rate
  BY DEF SameLoan
<1>3. Owing(x) /\ Accounted(x, pools[b], ops) /\ Growing(pools[b])
  BY <1>1 DEF Growth
<1>4. Owing(y)
  BY <1>2, <1>3 DEF Owing
<1>5. Accounted(y, pools'[b], ops')
  <2>1. Accounted(y, pools[b], ops)
    BY <1>2, <1>3 DEF Accounted
  <2> QED BY <1>1, <1>3, <1>4, <2>1, AccountedLonger DEF Owing, PoolMoved, Grown
<1>6. Paid(i) = 0
  BY <1>1, <1>2 DEF Paid
<1>7. FallPaid(i)
  <2>1. Debt(i) \in Int
    BY DebtType
  <2>2. CASE x.is_stable \/ LoanIndex(pools[b], Env(b))' = LoanIndex(pools[b], Env(b))
    <3>1. DebtOf(y, pools'[b], Env(b)) = DebtOf(x, pools[b], Env(b))
      BY <1>2, <2>2, IndicesNext DEF DebtOf
    <3>2. Debt(i)' = Debt(i)
      BY <1>2, <3>1, DebtNow, DebtNext
    <3> QED BY <1>6, <2>1, <3>2 DEF FallPaid, Fall
  <2>3. CASE ~x.is_stable /\ StableRepayment(b)
    BY <2>3 DEF FallPaid
  <2> QED BY <2>2, <2>3 DEF PoolMoved, IndicesKept
<1> QED BY <1>2, <1>4, <1>5, <1>6, <1>7 DEF Served

-----------------------------------------------------------------------------
(* What every call does *)

CallKept ==
  /\ \A t \in Tokens : PoolMoved(t)
  /\ \A i \in Ids : Served(i)
  /\ Growth'

LEMMA LoanLeft ==
  ASSUME NEW i \in Ids, cdps'[i] = cdps[i]
  PROVE  SameLoan(cdps'[i], cdps[i])
  BY DEF SameLoan

\* A call that leaves the CDPs alone.
LEMMA CdpsUntouched ==
  ASSUME IInv, IInv', Growth, epoch' = epoch, ops' >= ops, cdps' = cdps,
         cdp_vault' \subseteq cdp_vault, \A t \in Tokens : price'[t] \in Prices[t],
         \A t \in Tokens : PoolMoved(t)
  PROVE  CallKept
<1>1. Ids' = Ids
  BY DEF Ids
<1>2. ASSUME NEW i \in Ids PROVE Served(i)
  <2>1. cdps[i].borrow_token \in Tokens
    BY CdpKnown, CdpType DEF IInv
  <2> QED BY <1>1, <2>1, LoanLeft, LoanUntouched
<1>3. \A t \in Tokens : Growing(pools'[t]) /\ Booked(pools'[t])
  BY DEF PoolMoved, Grown
<1>4. StakingVault'
  BY DEF Growth, StakingVault
<1>5. \A i \in Ids' : Owing(cdps'[i]) /\ Accounted(cdps'[i], pools'[cdps'[i].borrow_token], ops')
  BY <1>1, <1>2 DEF Served
<1>6. Growth'
  BY <1>3, <1>4, <1>5 DEF Growth
<1> QED BY <1>2, <1>6 DEF CallKept

\* A call that makes a CDP x, which the manager may keep.
LEMMA CdpOpened ==
  ASSUME IInv, IInv', Growth, epoch' = epoch, ops' >= ops,
         \A t \in Tokens : price'[t] \in Prices[t],
         NEW x, cdps' = Append(cdps, x), Owing(x),
         Accounted(x, pools'[x.borrow_token], ops'),
         \/ cdp_vault' = cdp_vault
         \/ /\ cdp_vault' = cdp_vault \cup {Len(cdps) + 1}
            /\ x.is_stable /\ x.borrow_token = XRD,
         \A t \in Tokens : PoolMoved(t)
  PROVE  CallKept
<1>1. /\ Ids \subseteq Ids' /\ Len(cdps) + 1 \in Ids'
      /\ \A i \in Ids' : i \in Ids \/ i = Len(cdps) + 1
      /\ cdps'[Len(cdps) + 1] = x
      /\ \A i \in Ids : cdps'[i] = cdps[i]
  BY DEF IInv, Books, Ids
<1>2. ASSUME NEW i \in Ids PROVE Served(i)
  <2>1. cdps[i].borrow_token \in Tokens
    BY CdpKnown, CdpType DEF IInv
  <2> QED BY <1>1, <2>1, LoanLeft, LoanUntouched
<1>3. \A t \in Tokens : Growing(pools'[t]) /\ Booked(pools'[t])
  BY DEF PoolMoved, Grown
<1>4. StakingVault'
  <2>1. cdp_vault \subseteq Ids
    BY DEF IInv, Frame
  <2>2. \A i \in cdp_vault : cdps'[i].is_stable /\ cdps'[i].borrow_token = XRD
    BY <1>1, <2>1 DEF Growth, StakingVault
  <2> QED BY <1>1, <2>2 DEF StakingVault
<1>5. ASSUME NEW i \in Ids'
      PROVE  Owing(cdps'[i]) /\ Accounted(cdps'[i], pools'[cdps'[i].borrow_token], ops')
  <2>1. CASE i \in Ids
    BY <1>2, <2>1 DEF Served
  <2>2. CASE i = Len(cdps) + 1
    BY <1>1, <2>2
  <2> QED BY <1>1, <2>1, <2>2
<1>6. Growth'
  BY <1>3, <1>4, <1>5 DEF Growth
<1> QED BY <1>2, <1>6 DEF CallKept

\* A call that changes CDP i and serves it.
LEMMA CdpChanged ==
  ASSUME IInv, IInv', Growth, epoch' = epoch, ops' >= ops,
         \A t \in Tokens : price'[t] \in Prices[t],
         NEW i \in Ids, NEW x, cdps' = [cdps EXCEPT ![i] = x], Served(i),
         cdp_vault' = cdp_vault, \A t \in Tokens : PoolMoved(t)
  PROVE  CallKept
<1>1. Ids' = Ids /\ \A j \in Ids : j # i => cdps'[j] = cdps[j]
  BY DEF IInv, Books, Ids
<1>2. ASSUME NEW j \in Ids PROVE Served(j)
  <2>1. CASE j # i
    <3>1. cdps[j].borrow_token \in Tokens
      BY CdpKnown, CdpType DEF IInv
    <3> QED BY <1>1, <2>1, <3>1, LoanLeft, LoanUntouched
  <2>2. CASE j = i
    BY <2>2
  <2> QED BY <2>1, <2>2
<1>3. \A t \in Tokens : Growing(pools'[t]) /\ Booked(pools'[t])
  BY DEF PoolMoved, Grown
<1>4. StakingVault'
  <2>1. cdp_vault \subseteq Ids
    BY DEF IInv, Frame
  <2>2. \A j \in cdp_vault : /\ cdps'[j].is_stable = cdps[j].is_stable
                             /\ cdps'[j].borrow_token = cdps[j].borrow_token
    BY <1>2, <2>1 DEF Served
  <2> QED BY <2>2 DEF Growth, StakingVault
<1>5. \A j \in Ids' : Owing(cdps'[j]) /\ Accounted(cdps'[j], pools'[cdps'[j].borrow_token], ops')
  BY <1>1, <1>2 DEF Served
<1>6. Growth'
  BY <1>3, <1>4, <1>5 DEF Growth
<1> QED BY <1>2, <1>6 DEF CallKept

\* A call whose prices are those before it.
LEMMA PricesKept ==
  ASSUME IInv, Growth, Call
  PROVE  /\ ops' >= ops /\ ops' \in Nat /\ ops \in Nat /\ ops' = ops + 1
         /\ price' = price => \A t \in Tokens : price'[t] \in Prices[t]
  BY DEF IInv, Frame, Growth, Call

-----------------------------------------------------------------------------
(* Deposits, flash loans and the admin *)

LEMMA SupplyKept ==
  ASSUME IInv, IInv', Growth, Prudence, NEW t \in Tokens, NEW amount \in Nat,
         Supply(t, amount)
  PROVE  CallKept
<1> DEFINE Q == AddLiquidity(pools[t], Env(t), amount)
<1>1. /\ Call /\ CanAddLiquidity(pools[t], Env(t), amount)
      /\ pools' = [pools EXCEPT ![t] = Q]
      /\ UNCHANGED <<cdps, cdp_vault, epoch, price>>
  BY DEF Supply, OnlyPools
<1>2. Steady(Q, pools[t], Env(t)) /\ SameStable(Q, pools[t])
  BY <1>1, PoolGrows, AddLiquiditySteady
<1> HIDE DEF Q
<1>3. Grown(Q, pools[t]) /\ SameNow(Q, pools[t], Env(t))
  BY <1>2, PoolGrows, SteadyGrown
<1>4. \A u \in Tokens : PoolMoved(u)
  BY <1>1, <1>2, <1>3, OnePoolMoved
<1> QED BY <1>1, <1>4, PricesKept, CdpsUntouched

LEMMA WithdrawKept ==
  ASSUME IInv, IInv', Growth, Prudence, NEW t \in Tokens, NEW dx \in Nat, Withdraw(t, dx)
  PROVE  CallKept
<1> DEFINE Q == RemoveLiquidity(pools[t], Env(t), dx)
<1>1. /\ Call /\ CanRemoveLiquidity(pools[t], Env(t), dx) /\ dx <= FreeDx(t)
      /\ pools' = [pools EXCEPT ![t] = Q]
      /\ UNCHANGED <<cdps, cdp_vault, epoch, price>>
  BY DEF Withdraw, OnlyPools
<1>2. dx <= pools[t].dx_supply
  <2>1. pools[t].dx_supply \in Nat /\ collateral_vaults[t] \in Nat
    BY BookedType DEF IInv
  <2> QED BY <1>1, <2>1 DEF FreeDx
<1>3. Steady(Q, pools[t], Env(t)) /\ SameStable(Q, pools[t])
  BY <1>1, <1>2, PoolGrows, RemoveLiquiditySteady
<1> HIDE DEF Q
<1>4. Grown(Q, pools[t]) /\ SameNow(Q, pools[t], Env(t))
  BY <1>3, PoolGrows, SteadyGrown
<1>5. \A u \in Tokens : PoolMoved(u)
  BY <1>1, <1>3, <1>4, OnePoolMoved
<1> QED BY <1>1, <1>5, PricesKept, CdpsUntouched

LEMMA BorrowFlashloanKept ==
  ASSUME IInv, IInv', Growth, Prudence, NEW t \in Tokens, NEW amount \in Nat,
         BorrowFlashloan(t, amount)
  PROVE  CallKept
<1> DEFINE Q == PoolBorrowFlashloan(pools[t], Env(t), amount)
<1>1. /\ Call /\ pools' = [pools EXCEPT ![t] = Q]
      /\ UNCHANGED <<cdps, cdp_vault, epoch, price>>
  BY DEF BorrowFlashloan
<1>2. Quiet(Q, pools[t])
  BY PoolGrows, BorrowFlashloanQuiet
<1> HIDE DEF Q
<1>3. Grown(Q, pools[t]) /\ SameNow(Q, pools[t], Env(t)) /\ SameStable(Q, pools[t])
  BY <1>2, PoolGrows, QuietGrown
<1>4. \A u \in Tokens : PoolMoved(u)
  BY <1>1, <1>3, OnePoolMoved
<1> QED BY <1>1, <1>4, PricesKept, CdpsUntouched

LEMMA WithdrawInsuranceKept ==
  ASSUME IInv, IInv', Growth, Prudence, NEW t \in Tokens, NEW amount \in Nat,
         WithdrawInsurance(t, amount)
  PROVE  CallKept
<1> DEFINE Q == PoolWithdrawInsurance(pools[t], Env(t), amount)
<1>1. /\ Call /\ pools' = [pools EXCEPT ![t] = Q]
      /\ UNCHANGED <<cdps, cdp_vault, epoch, price>>
  BY DEF WithdrawInsurance, OnlyPools
<1>2. Quiet(Q, pools[t])
  BY PoolGrows, WithdrawInsuranceQuiet
<1> HIDE DEF Q
<1>3. Grown(Q, pools[t]) /\ SameNow(Q, pools[t], Env(t)) /\ SameStable(Q, pools[t])
  BY <1>2, PoolGrows, QuietGrown
<1>4. \A u \in Tokens : PoolMoved(u)
  BY <1>1, <1>3, OnePoolMoved
<1> QED BY <1>1, <1>4, PricesKept, CdpsUntouched

LEMMA RepayFlashloanKept ==
  ASSUME IInv, IInv', Growth, Prudence, NEW f \in flashloans, RepayFlashloan(f)
  PROVE  CallKept
<1> DEFINE t == f.res_addr
           Q == PoolRepayFlashloan(pools[t], Env(t), f.amount, f.fee)
<1>1. /\ Call /\ CanRepayFlashloan(pools[t], Env(t), f.fee)
      /\ pools' = [pools EXCEPT ![t] = Q]
      /\ flashloans' = flashloans \ {f}
      /\ UNCHANGED <<cdps, cdp_vault, epoch, price>>
  BY DEF RepayFlashloan
<1>2. t \in Tokens /\ f.amount \in Nat /\ f.fee \in Nat
  BY DEF IInv, Frame, FlashLoanData
<1> HIDE DEF t
<1>3. /\ Env(t) \in Environment /\ Prudent(Env(t)) /\ Sound(pools[t], Env(t))
      /\ Growing(pools[t]) /\ Booked(pools[t])
  BY <1>2, PoolGrows
<1>4. /\ Grown(Q, pools[t]) /\ SameStable(Q, pools[t])
      /\ SupplyIndex(Q, Env(t)) >= SupplyIndex(pools[t], Env(t))
      /\ LoanIndex(Q, Env(t)) = LoanIndex(pools[t], Env(t))
  BY <1>1, <1>2, <1>3, RepayFlashloanGrows DEF Grown
<1>5. SupplyIndex(Q, Env(t)) \in Int /\ SupplyIndex(pools[t], Env(t)) \in Int
  BY <1>1, <1>2, <1>3, RepayFlashloanSound, IndexType
<1> HIDE DEF Q
<1>6. flashloans' # flashloans
  BY <1>1
<1>7. \/ SameNow(Q, pools[t], Env(t))
      \/ SupplyIndex(Q, Env(t)) > SupplyIndex(pools[t], Env(t))
  BY <1>4, <1>5 DEF SameNow
<1>8. \A u \in Tokens : PoolMoved(u)
  BY <1>1, <1>2, <1>4, <1>6, <1>7, OnePoolMoved
<1> QED BY <1>1, <1>8, PricesKept, CdpsUntouched

LEMMA SetCloseFactorKept ==
  ASSUME IInv, IInv', Growth, Prudence, NEW percent, SetCloseFactor(percent)
  PROVE  CallKept
<1>1. Call /\ UNCHANGED <<pools, cdps, cdp_vault, epoch, price>>
  BY DEF SetCloseFactor
<1>2. \A u \in Tokens : PoolMoved(u)
  BY <1>1, PoolLeft
<1> QED BY <1>1, <1>2, PricesKept, CdpsUntouched

LEMMA PriceMoveKept ==
  ASSUME IInv, IInv', Growth, Prudence, NEW t \in Tokens, NEW p \in Prices[t],
         PriceMove(t, p)
  PROVE  CallKept
<1>1. /\ UNCHANGED <<pools, cdps, cdp_vault, epoch, ops>>
      /\ price' = [price EXCEPT ![t] = p] /\ price \in [Tokens -> Nat \ {0}] /\ ops \in Nat
  BY DEF PriceMove, IInv, Frame
<1>2. \A u \in Tokens : price'[u] \in Prices[u]
  BY <1>1 DEF Growth
<1>3. \A u \in Tokens : PoolMoved(u)
  BY <1>1, PoolLeft
<1> QED BY <1>1, <1>2, <1>3, CdpsUntouched

LEMMA StutterKept ==
  ASSUME IInv, IInv', Growth, Prudence, UNCHANGED vars
  PROVE  CallKept
<1>1. UNCHANGED <<pools, cdps, cdp_vault, epoch, ops, price>> /\ ops \in Nat
  BY DEF vars, IInv, Frame
<1>2. \A u \in Tokens : PoolMoved(u)
  BY <1>1, PoolLeft
<1>3. \A u \in Tokens : price'[u] \in Prices[u]
  BY <1>1 DEF Growth
<1> QED BY <1>1, <1>2, <1>3, CdpsUntouched

-----------------------------------------------------------------------------
(* Loans *)

\* n shares for `amount`, at the index K to which the pool was brought, keep
\* the account of a loan with one call more.
LEMMA AccountedMore ==
  ASSUME NEW r \in Int, NEW w \in Int, NEW s \in Nat, NEW n \in Nat, NEW m \in Nat,
         NEW L \in Nat, NEW K \in Nat, K >= L, NEW amount \in Nat,
         r + (s + m) * L >= w, amount * ONE < n * K + K
  PROVE  r + ((s + n) + (m + 1)) * K >= w + amount * ONE
<1> DEFINE a == s + m
           g == amount * ONE
<1>1. a \in Nat /\ g \in Nat
  BY DecimalsAssumption
<1>2. ((s + n) + (m + 1)) * K = a * K + n * K + K
  OBVIOUS
<1>3. r + a * L >= w /\ g < n * K + K
  OBVIOUS
<1> HIDE DEF a, g
<1>4. L * a <= K * a /\ L * a \in Int /\ K * a \in Int
  BY <1>1, TimesMonotone
<1>5. a * L = L * a /\ a * K = K * a
  BY <1>1
<1>6. n * K \in Int
  OBVIOUS
<1> DEFINE nK == n * K
           aK == a * K
           aL == a * L
           all == ((s + n) + (m + 1)) * K
<1>7. all = aK + nK + K /\ r + aL >= w /\ g < nK + K /\ aL <= aK
      /\ aK \in Int /\ aL \in Int /\ nK \in Int
  BY <1>2, <1>3, <1>4, <1>5, <1>6
<1> HIDE DEF nK, aK, aL, all
<1>8. r + all >= w + g
  BY <1>1, <1>7
<1> QED BY <1>8 DEF all, g

LEMMA BorrowVariableKept ==
  ASSUME IInv, IInv', Growth, Prudence, NEW c \in Tokens, NEW b \in Tokens, NEW dx \in Nat,
         NEW amount \in Nat, BorrowVariable(c, b, dx, amount)
  PROVE  CallKept
<1> DEFINE shares == SharesFor(pools[b], Env(b), amount)
           Q == PoolBorrowVariable(pools[b], Env(b), amount)
           x == NewCdp(c, b, amount, dx, shares, 0, FALSE)
           L == LoanIndex(pools[b], Env(b))
<1>1. /\ Call /\ CanBorrowVariable(pools[b], Env(b), amount)
      /\ pools' = [pools EXCEPT ![b] = Q]
      /\ cdps' = Append(cdps, x)
      /\ UNCHANGED <<cdp_vault, epoch, price>>
  BY DEF BorrowVariable, PoolsAndCdps
<1>2. /\ Env(b) \in Environment /\ Prudent(Env(b)) /\ Sound(pools[b], Env(b))
      /\ Growing(pools[b]) /\ Booked(pools[b])
  BY PoolGrows
<1>3. shares \in Nat /\ shares * L \in Nat /\ amount * ONE < shares * L + L
  BY <1>2, SharesForBounds
<1>4. Steady(Q, pools[b], Env(b)) /\ SameStable(Q, pools[b])
  BY <1>1, <1>2, <1>3, BorrowVariableSteady
<1>5. Q.loan_index = L /\ L \in Nat
  BY <1>2, <1>4, IndicesGrow DEF Steady, Settled
<1>6. /\ x.borrow_token = b /\ x.is_stable = FALSE
      /\ x.total_borrow = amount /\ x.total_repay = 0 /\ x.normalized_borrow = shares
      /\ x.borrow_amount = amount /\ x.stable_rate = 0
  BY DEF NewCdp
<1> HIDE DEF Q, x, shares, L
<1>7. Grown(Q, pools[b]) /\ SameNow(Q, pools[b], Env(b))
  BY <1>2, <1>4, SteadyGrown
<1>8. \A u \in Tokens : PoolMoved(u)
  BY <1>1, <1>4, <1>7, OnePoolMoved
<1>9. Owing(x)
  BY <1>3, <1>6 DEF Owing
<1>10. Accounted(x, pools'[b], ops')
  <2>1. pools'[b] = Q
    BY <1>1 DEF IInv, Books
  <2>2. ops \in Nat /\ ops' = ops + 1
    BY <1>1, PricesKept
  <2>3. (shares + (ops + 1)) * L >= amount * ONE
    <3> DEFINE z == 0
    <3>1. z \in Nat /\ z \in Int /\ z = 0
      OBVIOUS
    <3>2. ops * L \in Nat /\ amount * ONE < shares * L + L /\ L >= L
      BY <1>3, <1>5, <2>2
    <3> HIDE DEF z
    <3>3. z + ops = ops /\ z + shares = shares
      BY <1>3, <2>2, <3>1
    <3>4. z + (z + ops) * L >= z
      BY <3>1, <3>2, <3>3
    <3>5. z + ((z + shares) + (ops + 1)) * L >= z + amount * ONE
      BY ONLY <1>3, <1>5, <2>2, <3>1, <3>2, <3>4, amount \in Nat, AccountedMore
    <3>6. (shares + (ops + 1)) * L \in Int /\ amount * ONE \in Int
      BY <1>3, <1>5, <2>2, DecimalsAssumption
    <3> QED BY <3>1, <3>3, <3>5, <3>6
  <2>4. shares + ops' = shares + (ops + 1)
    BY <1>3, <2>2
  <2>5. 0 * ONE = 0 /\ amount * ONE \in Int /\ (shares + ops') * L \in Int
    BY <1>3, <1>5, <2>2, DecimalsAssumption
  <2>6. x.total_repay * ONE + (x.normalized_borrow + ops') * pools'[b].loan_index
          >= x.total_borrow * ONE
    BY <1>5, <1>6, <2>1, <2>3, <2>4, <2>5
  <2> QED BY <1>6, <2>6 DEF Accounted
<1> QED BY <1>1, <1>6, <1>8, <1>9, <1>10, PricesKept, CdpOpened

LEMMA BorrowStableKept ==
  ASSUME IInv, IInv', Growth, Prudence, NEW c \in Tokens, NEW b \in Tokens, NEW dx \in Nat,
         NEW amount \in Nat, BorrowStable(c, b, dx, amount)
  PROVE  CallKept
<1> DEFINE rate == InterestRate(pools[b], Env(b), amount).stable
           Q == PoolBorrowStable(pools[b], Env(b), amount, rate)
           x == NewCdp(c, b, amount, dx, 0, rate, TRUE)
<1>1. /\ Call /\ CanBorrowStable(pools[b], amount)
      /\ pools' = [pools EXCEPT ![b] = Q]
      /\ cdps' = Append(cdps, x)
      /\ UNCHANGED <<cdp_vault, epoch, price>>
  BY DEF BorrowStable, PoolsAndCdps
<1>2. /\ Env(b) \in Environment /\ Prudent(Env(b)) /\ Sound(pools[b], Env(b))
      /\ Growing(pools[b]) /\ Booked(pools[b])
  BY PoolGrows
<1>3. rate \in Nat
  BY <1>2, InterestRateNat
<1> HIDE DEF rate
<1>4. Steady(Q, pools[b], Env(b))
  BY <1>1, <1>2, <1>3, BorrowStableSteady
<1>5. /\ x.borrow_token = b /\ x.is_stable = TRUE
      /\ x.total_borrow = amount /\ x.total_repay = 0
      /\ x.normalized_borrow = 0 /\ x.borrow_amount = amount /\ x.stable_rate = rate
  BY DEF NewCdp
<1> HIDE DEF Q, x
<1>6. Grown(Q, pools[b]) /\ SameNow(Q, pools[b], Env(b))
  BY <1>2, <1>4, SteadyGrown
<1>7. ~NoStableLoans'
  <2>1. Len(cdps) + 1 \in Ids' /\ cdps'[Len(cdps) + 1] = x
    BY <1>1 DEF IInv, Books, Ids
  <2> QED BY <1>5, <2>1 DEF NoStableLoans
<1>8. \A u \in Tokens : PoolMoved(u)
  BY <1>1, <1>6, <1>7, OnePoolMoved
<1>9. Owing(x) /\ Accounted(x, pools'[x.borrow_token], ops')
  BY <1>3, <1>5 DEF Owing, Accounted
<1> QED BY <1>1, <1>8, <1>9, PricesKept, CdpOpened

LEMMA StakingBorrowKept ==
  ASSUME IInv, IInv', Growth, Prudence, NEW amount \in Nat, NEW rate \in Nat, NEW claim,
         StakingBorrow(amount, rate, claim)
  PROVE  CallKept
<1> DEFINE b == XRD
           Q == PoolBorrowStable(pools[b], Env(b), amount, rate)
           x == NewCdp(NoDx, b, amount, claim, 0, rate, TRUE)
<1>1. /\ Call /\ CanBorrowStable(pools[b], amount)
      /\ pools' = [pools EXCEPT ![b] = Q]
      /\ cdps' = Append(cdps, x)
      /\ cdp_vault' = cdp_vault \cup {Len(cdps) + 1}
      /\ UNCHANGED <<epoch, price>>
  BY DEF StakingBorrow
<1>2. b \in Tokens
  BY ManagerAssumption
<1>3. /\ Env(b) \in Environment /\ Prudent(Env(b)) /\ Sound(pools[b], Env(b))
      /\ Growing(pools[b]) /\ Booked(pools[b])
  BY <1>2, PoolGrows
<1>4. Steady(Q, pools[b], Env(b))
  BY <1>1, <1>3, BorrowStableSteady
<1>5. /\ x.borrow_token = b /\ x.is_stable = TRUE
      /\ x.total_borrow = amount /\ x.total_repay = 0
      /\ x.normalized_borrow = 0 /\ x.borrow_amount = amount /\ x.stable_rate = rate
  BY DEF NewCdp
<1> HIDE DEF Q, x
<1>6. Grown(Q, pools[b]) /\ SameNow(Q, pools[b], Env(b))
  BY <1>3, <1>4, SteadyGrown
<1>7. ~NoStableLoans'
  <2>1. Len(cdps) + 1 \in Ids' /\ cdps'[Len(cdps) + 1] = x
    BY <1>1 DEF IInv, Books, Ids
  <2> QED BY <1>5, <2>1 DEF NoStableLoans
<1>8. \A u \in Tokens : PoolMoved(u)
  BY <1>1, <1>2, <1>6, <1>7, OnePoolMoved
<1>9. Owing(x) /\ Accounted(x, pools'[x.borrow_token], ops')
  BY <1>5 DEF Owing, Accounted
<1> QED BY <1>1, <1>5, <1>8, <1>9, PricesKept, CdpOpened

\* CDP i is x after the step.
LEMMA CdpNext ==
  ASSUME IInv, epoch' = epoch, NEW i \in Ids, NEW x, cdps' = [cdps EXCEPT ![i] = x],
         x.borrow_token = cdps[i].borrow_token, x.is_stable = cdps[i].is_stable
  PROVE  /\ cdps'[i] = x
         /\ Debt(i)' = DebtOf(x, pools'[cdps[i].borrow_token], Env(cdps[i].borrow_token))
         /\ Paid(i) = x.total_repay - cdps[i].total_repay
         /\ Fall(i) = Debt(i) - Debt(i)'
<1>1. cdps'[i] = x
  BY DEF IInv, Books, Ids
<1> QED BY <1>1, DebtNext DEF Paid, Fall

LEMMA ExtendVariableKept ==
  ASSUME IInv, IInv', Growth, Prudence, NEW i \in Pledged, NEW amount \in Nat,
         ExtendVariable(i, amount)
  PROVE  CallKept
<1> DEFINE cdp    == cdps[i]
           b      == cdp.borrow_token
           shares == SharesFor(pools[b], Env(b), amount)
           Q      == PoolBorrowVariable(pools[b], Env(b), amount)
           x      == [cdp EXCEPT !.total_borrow = @ + amount, !.borrow_amount = @ + amount,
                                 !.normalized_borrow = @ + shares]
           L      == LoanIndex(pools[b], Env(b))
<1>1. /\ i \in Ids /\ cdp \in CollateralDebtPosition /\ b \in Tokens
      /\ cdp.total_borrow \in Int /\ cdp.total_repay \in Int /\ cdp.borrow_amount \in Int
      /\ cdp.normalized_borrow \in Int
  BY PledgedToken, CdpKnown, CdpType DEF IInv
<1>2. /\ Call /\ CanBorrowVariable(pools[b], Env(b), amount) /\ ~cdp.is_stable
      /\ pools' = [pools EXCEPT ![b] = Q]
      /\ UNCHANGED <<cdp_vault, epoch, price>>
  BY Zenon DEF ExtendVariable, PoolsAndCdps
<1>3. cdps' = [cdps EXCEPT ![i] = x]
  BY <1>1 DEF ExtendVariable, IInv, Books, Ids
<1>4. /\ Env(b) \in Environment /\ Prudent(Env(b)) /\ Sound(pools[b], Env(b))
      /\ Growing(pools[b]) /\ Booked(pools[b])
  BY <1>1, PoolGrows
<1>5. shares \in Nat /\ shares * L \in Nat /\ amount * ONE < shares * L + L
  BY <1>4, SharesForBounds
<1>6. Steady(Q, pools[b], Env(b)) /\ SameStable(Q, pools[b])
  BY <1>2, <1>4, <1>5, BorrowVariableSteady
<1>7. Q.loan_index = L /\ L \in Nat /\ L >= pools[b].loan_index /\ pools[b].loan_index \in Nat
  <2>1. pools[b].loan_index \in Int /\ pools[b].loan_index >= ONE
    BY <1>4 DEF Sound, Pool, Growing
  <2> QED BY <1>4, <1>6, <2>1, IndicesGrow, DecimalsAssumption DEF Steady, Settled
<1> HIDE DEF shares
<1>8. /\ x.borrow_token = b /\ x.is_stable = cdp.is_stable
      /\ x.total_borrow = cdp.total_borrow + amount /\ x.total_repay = cdp.total_repay
      /\ x.normalized_borrow = cdp.normalized_borrow + shares
      /\ x.borrow_amount = cdp.borrow_amount + amount /\ x.stable_rate = cdp.stable_rate
  BY <1>1 DEF CollateralDebtPosition
<1> HIDE DEF Q, x, L
<1>9. Grown(Q, pools[b]) /\ SameNow(Q, pools[b], Env(b))
  BY <1>4, <1>6, SteadyGrown
<1>10. \A u \in Tokens : PoolMoved(u)
  BY <1>1, <1>2, <1>6, <1>9, OnePoolMoved
<1>11. pools'[b] = Q /\ Owing(cdp) /\ Accounted(cdp, pools[b], ops)
  BY <1>1, <1>2 DEF IInv, Books, Growth
<1>12. /\ cdps'[i] = x /\ Paid(i) = x.total_repay - cdp.total_repay
       /\ Debt(i)' = DebtOf(x, Q, Env(b)) /\ Fall(i) = Debt(i) - Debt(i)'
  BY <1>1, <1>2, <1>3, <1>8, <1>11, CdpNext
<1>13. Owing(x)
  BY <1>1, <1>5, <1>8, <1>11 DEF Owing
<1>14. Accounted(x, Q, ops')
  <2>1. ops \in Nat /\ ops' = ops + 1
    BY <1>2, PricesKept
  <2> DEFINE s == cdp.normalized_borrow
             r == cdp.total_repay * ONE
             w == cdp.total_borrow * ONE
             K == pools[b].loan_index
  <2>2. r + (s + ops) * K >= w /\ s \in Nat
    BY <1>1, <1>2, <1>11 DEF Accounted, Owing
  <2>3. r \in Int /\ w \in Int /\ K \in Nat /\ L >= K
    BY <1>1, <1>7, DecimalsAssumption
  <2>4. (cdp.total_borrow + amount) * ONE = w + amount * ONE
    BY <1>1, DecimalsAssumption
  <2>5. r = x.total_repay * ONE /\ x.normalized_borrow = s + shares
    BY <1>8
  <2> HIDE DEF s, r, w, K
  <2>6. r + ((s + shares) + (ops + 1)) * L >= w + amount * ONE
    BY ONLY <1>5, <1>7, <2>1, <2>2, <2>3, amount \in Nat, AccountedMore
  <2> QED BY <1>2, <1>7, <1>8, <2>1, <2>4, <2>5, <2>6 DEF Accounted
<1>15. Paid(i) = 0
  BY <1>1, <1>8, <1>12
<1>16. FallPaid(i)
  <2>1. /\ Debt(i) = DMul(cdp.normalized_borrow, L)
        /\ Debt(i)' = DMul(cdp.normalized_borrow + shares, L)
    BY <1>2, <1>8, <1>9, <1>12, DebtNow DEF DebtOf, SameNow, L
  <2>2. /\ cdp.normalized_borrow \in Nat /\ cdp.normalized_borrow + shares \in Nat
        /\ cdp.normalized_borrow <= cdp.normalized_borrow + shares
    BY <1>1, <1>5, <1>11 DEF Owing
  <2>3. Debt(i) <= Debt(i)' /\ Debt(i) \in Int /\ Debt(i)' \in Int
    <3> DEFINE m == cdp.normalized_borrow
               n == cdp.normalized_borrow + shares
    <3>1. m \in Nat /\ n \in Nat /\ m <= n /\ L \in Nat
      BY <1>7, <2>2
    <3> HIDE DEF m, n
    <3>2. DMul(m, L) <= DMul(n, L) /\ DMul(m, L) \in Nat /\ DMul(n, L) \in Nat
      BY <3>1, DMulMonotone, DMulNat
    <3> QED BY <2>1, <3>2 DEF m, n
  <2> QED BY <1>12, <1>15, <2>3 DEF FallPaid
<1>17. Served(i)
  BY <1>8, <1>11, <1>12, <1>13, <1>14, <1>15, <1>16 DEF Served
<1> QED BY <1>1, <1>2, <1>3, <1>10, <1>17, PricesKept, CdpChanged

LEMMA ExtendStableKept ==
  ASSUME IInv, IInv', Growth, Prudence, NEW i \in Pledged, NEW amount \in Nat,
         ExtendStable(i, amount)
  PROVE  CallKept
<1> DEFINE cdp      == cdps[i]
           b        == cdp.borrow_token
           interest == StableInterest(Env(b), cdp.borrow_amount, cdp.stable_rate,
                                      cdp.last_update_epoch)
           rate     == InterestRate(pools[b], Env(b), amount).stable
           mean     == WeightRate(cdp.borrow_amount + interest, cdp.stable_rate, amount, rate)
           Q        == PoolBorrowStable(pools[b], Env(b), amount, rate)
           x        == [cdp EXCEPT !.total_borrow = @ + amount,
                                   !.borrow_amount = @ + amount + interest,
                                   !.stable_rate = mean,
                                   !.last_update_epoch = epoch]
<1>1. /\ i \in Ids /\ cdp \in CollateralDebtPosition /\ b \in Tokens
      /\ cdp.total_borrow \in Int /\ cdp.total_repay \in Int /\ cdp.borrow_amount \in Int
      /\ cdp.normalized_borrow \in Int /\ cdp.stable_rate \in Int
      /\ cdp.last_update_epoch \in Nat /\ cdp.last_update_epoch <= epoch /\ epoch \in Nat
  BY PledgedToken, CdpKnown, CdpType DEF IInv, Books
<1>2. /\ Call /\ CanBorrowStable(pools[b], amount) /\ cdp.is_stable
      /\ cdp.borrow_amount + interest + amount # 0
      /\ pools' = [pools EXCEPT ![b] = Q]
      /\ UNCHANGED <<cdp_vault, epoch, price>>
  BY Zenon DEF ExtendStable, PoolsAndCdps
<1>3. cdps' = [cdps EXCEPT ![i] = x]
  BY <1>1 DEF ExtendStable, IInv, Books, Ids
<1>4. /\ Env(b) \in Environment /\ Prudent(Env(b)) /\ Sound(pools[b], Env(b))
      /\ Growing(pools[b]) /\ Booked(pools[b]) /\ Env(b).now = epoch
  BY <1>1, PoolGrows, EnvType DEF IInv, Books
<1>5. Owing(cdp) /\ cdp.borrow_amount \in Nat /\ cdp.stable_rate \in Nat
  BY <1>1 DEF Growth, Owing
<1>6. rate \in Nat
  BY <1>4, InterestRateNat
<1>7. interest \in Nat /\ Debt(i) = cdp.borrow_amount + interest
  <2>1. epoch - cdp.last_update_epoch \in Nat
    BY <1>1
  <2>2. interest \in Nat
    <3> DEFINE grown == CompoundInterest(cdp.borrow_amount, cdp.stable_rate,
                                         epoch - cdp.last_update_epoch)
    <3>1. interest = grown - cdp.borrow_amount
      BY <1>4 DEF StableInterest
    <3>2. grown \in Nat /\ grown >= cdp.borrow_amount
      BY <1>5, <2>1, CompoundInterestGrows
    <3> HIDE DEF grown, interest
    <3> QED BY <1>5, <3>1, <3>2
  <2> QED BY <1>2, <2>2, DebtNow DEF DebtOf
<1> HIDE DEF rate, interest
<1>8. mean \in Nat
  <2>1. /\ cdp.borrow_amount + interest \in Nat
        /\ (cdp.borrow_amount + interest) + amount # 0
    BY <1>2, <1>5, <1>7
  <2> QED BY <1>5, <1>6, <2>1, WeightRateNat
<1>9. Steady(Q, pools[b], Env(b))
  BY <1>2, <1>4, <1>6, BorrowStableSteady
<1> HIDE DEF mean
<1>10. /\ x.borrow_token = b /\ x.is_stable = cdp.is_stable
       /\ x.total_borrow = cdp.total_borrow + amount
       /\ x.total_repay = cdp.total_repay /\ x.last_update_epoch = epoch
       /\ x.normalized_borrow = cdp.normalized_borrow
       /\ x.borrow_amount = cdp.borrow_amount + amount + interest /\ x.stable_rate = mean
  BY <1>1 DEF CollateralDebtPosition
<1> HIDE DEF Q, x
<1>11. Grown(Q, pools[b]) /\ SameNow(Q, pools[b], Env(b))
  BY <1>4, <1>9, SteadyGrown
<1>12. /\ cdps'[i] = x /\ Paid(i) = x.total_repay - cdp.total_repay
       /\ Debt(i)' = DebtOf(x, pools'[b], Env(b)) /\ Fall(i) = Debt(i) - Debt(i)'
  BY <1>1, <1>2, <1>3, <1>10, CdpNext
<1>13. ~NoStableLoans'
  <2>1. i \in Ids'
    BY <1>1, <1>3 DEF IInv, Books, Ids
  <2> QED BY <1>2, <1>10, <1>12, <2>1 DEF NoStableLoans
<1>14. \A u \in Tokens : PoolMoved(u)
  BY <1>1, <1>2, <1>11, <1>13, OnePoolMoved
<1>15. Owing(x) /\ Accounted(x, pools'[b], ops')
  <2>1. Owing(x)
    BY <1>5, <1>7, <1>8, <1>10 DEF Owing
  <2>2. cdp.total_borrow <= cdp.total_repay + cdp.borrow_amount
    BY <1>1, <1>2 DEF Growth, Accounted
  <2>3. x.total_borrow <= x.total_repay + x.borrow_amount
    BY <1>1, <1>7, <1>10, <2>2
  <2> QED BY <1>2, <1>10, <2>1, <2>3 DEF Accounted
<1>16. Paid(i) = 0
  BY <1>1, <1>10, <1>12
<1>17. FallPaid(i)
  <2>1. x.borrow_amount \in Nat
    BY <1>5, <1>7, <1>10
  <2>2. Debt(i)' = x.borrow_amount
    <3>1. StableInterest(Env(b), x.borrow_amount, x.stable_rate, x.last_update_epoch) = 0
      <4>1. epoch - epoch = 0 /\ x.stable_rate \in Int
        BY <1>1, <1>8, <1>10
      <4>2. CompoundInterest(x.borrow_amount, x.stable_rate, 0) = x.borrow_amount
        BY <2>1, <4>1, CompoundInterestNow
      <4> QED BY <1>4, <1>10, <2>1, <4>1, <4>2 DEF StableInterest
    <3> QED BY <1>2, <1>10, <1>12, <2>1, <3>1 DEF DebtOf
  <2> QED BY <1>5, <1>7, <1>10, <1>12, <1>16, <2>1, <2>2 DEF FallPaid
<1>18. Served(i)
  BY <1>10, <1>12, <1>15, <1>16, <1>17 DEF Served
<1> QED BY <1>1, <1>2, <1>3, <1>14, <1>18, PricesKept, CdpChanged

-----------------------------------------------------------------------------
(* Collateral *)

LEMMA ReleaseLoan ==
  ASSUME NEW cdp \in CollateralDebtPosition, NEW dx, NEW x, x = Release(cdp, dx)
  PROVE  SameLoan(x, cdp)
  BY DEF Release, CollateralDebtPosition, SameLoan

\* More collateral: a stable CDP loses its rate, and its interest so far.
LEMMA CollateralServed ==
  ASSUME IInv, IInv', Growth, epoch' = epoch, ops' >= ops, NEW i \in Ids, NEW dx \in Int,
         NEW x, x = WithCollateral(cdps[i], dx), cdps' = [cdps EXCEPT ![i] = x],
         PoolMoved(cdps[i].borrow_token)
  PROVE  Served(i)
<1> DEFINE cdp == cdps[i]
           b   == cdp.borrow_token
<1>1. /\ cdp \in CollateralDebtPosition /\ cdp.total_repay \in Int
      /\ i \in Ids' /\ cdps'[i] = x
  BY CdpKnown, CdpType DEF IInv, Books, Ids
<1>2. x = IF cdp.is_stable
          THEN [cdp EXCEPT !.collateral_amount = @ + dx, !.stable_rate = 0,
                           !.last_update_epoch = epoch]
          ELSE [cdp EXCEPT !.collateral_amount = @ + dx]
  BY DEF WithCollateral
<1>3. Owing(cdp) /\ Accounted(cdp, pools[b], ops)
  BY DEF Growth
<1> HIDE DEF cdp
<1>4. CASE ~cdp.is_stable
  <2>1. SameLoan(x, cdp)
    BY <1>1, <1>2, <1>4 DEF CollateralDebtPosition, SameLoan
  <2> QED BY <1>1, <2>1, LoanUntouched DEF cdp
<1>5. CASE cdp.is_stable
  <2>1. /\ x.borrow_token = b /\ x.is_stable = cdp.is_stable
        /\ x.total_borrow = cdp.total_borrow
        /\ x.total_repay = cdp.total_repay /\ x.normalized_borrow = cdp.normalized_borrow
        /\ x.borrow_amount = cdp.borrow_amount /\ x.stable_rate = 0
    BY <1>1, <1>2, <1>5 DEF CollateralDebtPosition
  <2>2. Owing(x) /\ Accounted(x, pools'[b], ops')
    BY <1>3, <1>5, <2>1 DEF Owing, Accounted
  <2>3. Paid(i) = 0
    BY <1>1, <2>1 DEF Paid, cdp
  <2>4. FallPaid(i)
    BY <1>1, <1>5, <2>1, <2>3 DEF FallPaid, InterestForgotten, cdp
  <2> QED BY <1>1, <2>1, <2>2, <2>3, <2>4 DEF Served, cdp
<1> QED BY <1>4, <1>5

LEMMA AddCollateralDxKept ==
  ASSUME IInv, IInv', Growth, Prudence, NEW i \in Pledged, NEW dx \in Nat,
         AddCollateralDx(i, dx)
  PROVE  CallKept
<1> DEFINE x == WithCollateral(cdps[i], dx)
<1>1. /\ Call /\ cdps' = [cdps EXCEPT ![i] = x]
      /\ UNCHANGED <<pools, cdp_vault, epoch, price>>
  BY DEF AddCollateralDx, PoolsAndCdps
<1>2. i \in Ids /\ cdps[i].borrow_token \in Tokens /\ dx \in Int
  BY PledgedToken, CdpKnown, CdpType DEF IInv
<1> HIDE DEF x
<1>3. \A u \in Tokens : PoolMoved(u)
  BY <1>1, PoolLeft
<1>4. Served(i)
  BY <1>1, <1>2, <1>3, PricesKept, CollateralServed DEF x
<1> QED BY <1>1, <1>2, <1>3, <1>4, PricesKept, CdpChanged

LEMMA AddCollateralKept ==
  ASSUME IInv, IInv', Growth, Prudence, NEW i \in Pledged, NEW amount \in Nat,
         AddCollateral(i, amount)
  PROVE  CallKept
<1> DEFINE c  == cdps[i].collateral_token
           dx == MintedDx(pools[c], Env(c), amount)
           x  == WithCollateral(cdps[i], dx)
           Q  == AddLiquidity(pools[c], Env(c), amount)
<1>1. /\ Call /\ CanAddLiquidity(pools[c], Env(c), amount)
      /\ pools' = [pools EXCEPT ![c] = Q]
      /\ cdps' = [cdps EXCEPT ![i] = x]
      /\ UNCHANGED <<cdp_vault, epoch, price>>
  BY Zenon DEF AddCollateral, PoolsAndCdps
<1>2. i \in Ids /\ cdps[i].borrow_token \in Tokens /\ c \in Tokens
  BY PledgedToken, CdpKnown, CdpType DEF IInv
<1>3. /\ Env(c) \in Environment /\ Prudent(Env(c)) /\ Sound(pools[c], Env(c))
      /\ Growing(pools[c]) /\ Booked(pools[c])
  BY <1>2, PoolGrows
<1>4. dx \in Int
  BY <1>1, <1>3, AddLiquiditySound
<1>5. Steady(Q, pools[c], Env(c)) /\ SameStable(Q, pools[c])
  BY <1>1, <1>3, AddLiquiditySteady
<1> HIDE DEF Q, dx
<1>6. Grown(Q, pools[c]) /\ SameNow(Q, pools[c], Env(c))
  BY <1>3, <1>5, SteadyGrown
<1> HIDE DEF x
<1>7. \A u \in Tokens : PoolMoved(u)
  BY <1>1, <1>2, <1>5, <1>6, OnePoolMoved
<1>8. Served(i)
  BY <1>1, <1>2, <1>4, <1>7, PricesKept, CollateralServed DEF x
<1> QED BY <1>1, <1>2, <1>7, <1>8, PricesKept, CdpChanged

LEMMA WithdrawCollateralKept ==
  ASSUME IInv, IInv', Growth, Prudence, NEW i \in Pledged, NEW amount \in Nat,
         WithdrawCollateral(i, amount)
  PROVE  CallKept
<1> DEFINE c     == cdps[i].collateral_token
           index == SupplyIndex(pools[c], Env(c))
           taken == FloorTo(DDiv(amount, index), Config[c].share_unit)
           dx    == CeilTo(DDiv(amount, index), Config[c].share_unit)
           x     == Release(cdps[i], dx)
           Q     == RemoveLiquidity(pools[c], Env(c), taken)
<1>1. /\ Call /\ index # 0 /\ Takeable(taken, Config[c].share_unit)
      /\ taken <= collateral_vaults[c]
      /\ CanRemoveLiquidity(pools[c], Env(c), taken)
      /\ pools' = [pools EXCEPT ![c] = Q]
      /\ cdps' = [cdps EXCEPT ![i] = x]
      /\ UNCHANGED <<cdp_vault, epoch, price>>
  BY Zenon DEF WithdrawCollateral, PoolsAndCdps
<1>2. /\ i \in Ids /\ cdps[i] \in CollateralDebtPosition
      /\ cdps[i].borrow_token \in Tokens /\ c \in Tokens
  BY PledgedToken, CdpKnown, CdpType DEF IInv
<1>3. /\ Env(c) \in Environment /\ Prudent(Env(c)) /\ Sound(pools[c], Env(c))
      /\ Growing(pools[c]) /\ Booked(pools[c])
  BY <1>2, PoolGrows
<1>4. taken \in Nat
  <2>1. index \in Int
    BY <1>3, IndexType
  <2>2. Config[c].share_unit \in Nat \ {0}
    BY <1>2, EnvType DEF IInv, Books, PoolConfig
  <2> HIDE DEF index
  <2>3. DDiv(amount, index) \in Int
    BY <1>1, <2>1, DDivType
  <2>4. taken \in Int
    BY <2>2, <2>3, FloorToBounds
  <2> QED BY <1>1, <2>4 DEF Takeable
<1> HIDE DEF taken
<1>5. taken <= pools[c].dx_supply
  <2>1. /\ pools[c].dx_supply \in Nat /\ collateral_vaults[c] \in Nat
        /\ collateral_vaults[c] <= pools[c].dx_supply
    BY <1>2, BookedType DEF IInv
  <2> QED BY <1>1, <1>4, <2>1
<1>6. Steady(Q, pools[c], Env(c)) /\ SameStable(Q, pools[c])
  BY <1>1, <1>3, <1>4, <1>5, RemoveLiquiditySteady
<1> HIDE DEF Q
<1>7. Grown(Q, pools[c]) /\ SameNow(Q, pools[c], Env(c))
  BY <1>3, <1>6, SteadyGrown
<1>8. SameLoan(x, cdps[i])
  BY <1>2, ReleaseLoan
<1> HIDE DEF x
<1>9. \A u \in Tokens : PoolMoved(u)
  BY <1>1, <1>2, <1>6, <1>7, OnePoolMoved
<1>10. i \in Ids' /\ cdps'[i] = x
  BY <1>1, <1>2 DEF IInv, Books, Ids
<1>11. Served(i)
  BY <1>1, <1>2, <1>8, <1>9, <1>10, PricesKept, LoanUntouched
<1> QED BY <1>1, <1>2, <1>9, <1>11, PricesKept, CdpChanged

-----------------------------------------------------------------------------
(* Repayment *)

\* What was paid and the shares k that are left, of s, keep the account.
LEMMA AccountedLess ==
  ASSUME NEW r \in Int, NEW w \in Int, NEW p \in Int, NEW s \in Nat, NEW k \in Nat,
         NEW m \in Nat, NEW K \in Nat, NEW L \in Nat, L >= K, L >= ONE,
         r + (s + m) * K >= w, s * L <= k * L + p + ONE
  PROVE  (r + p) + (k + (m + 1)) * L >= w
<1> DEFINE a  == s + m
           aK == a * K
           aL == a * L
           sL == s * L
           kL == k * L
           mL == m * L
           all == (k + (m + 1)) * L
<1>1. a \in Nat /\ ONE \in Nat
  BY DecimalsAssumption
<1>2. /\ all = kL + mL + L /\ aL = sL + mL
      /\ kL \in Int /\ mL \in Int /\ sL \in Int
  OBVIOUS
<1>3. aK <= aL /\ aK \in Int /\ aL \in Int
  <2> HIDE DEF a
  <2>1. K * a <= L * a /\ K * a \in Int /\ L * a \in Int
    BY <1>1, TimesMonotone
  <2>2. K * a = a * K /\ L * a = a * L
    BY <1>1
  <2> QED BY <2>1, <2>2
<1>4. r + aK >= w /\ sL <= kL + p + ONE
  OBVIOUS
<1> HIDE DEF a, aK, aL, sL, kL, mL, all
<1>5. (r + p) + all >= w
  BY <1>1, <1>2, <1>3, <1>4
<1> QED BY <1>5 DEF all

LEMMA RepaidArguments ==
  ASSUME IInv, Growth, NEW i \in Ids
  PROVE  LET cdp == cdps[i]
         IN  /\ cdp \in CollateralDebtPosition /\ cdp.borrow_token \in Tokens
             /\ cdp.total_borrow \in Int /\ cdp.total_repay \in Int
             /\ cdp.borrow_amount \in Nat /\ cdp.stable_rate \in Nat
             /\ cdp.normalized_borrow \in Nat
             /\ cdp.last_update_epoch \in Nat /\ cdp.last_update_epoch <= epoch
             /\ epoch \in Nat /\ Env(cdp.borrow_token).now = epoch
             /\ Env(cdp.borrow_token).cfg = Config[cdp.borrow_token]
             /\ Owing(cdp)
<1>1. /\ cdps[i] \in CollateralDebtPosition /\ cdps[i].last_update_epoch <= epoch
      /\ epoch \in Nat /\ Owing(cdps[i])
  BY CdpKnown DEF IInv, Books, Growth
<1>2. cdps[i].borrow_token \in Tokens
  BY <1>1, CdpType
<1> QED BY <1>1, <1>2, CdpType, EnvType DEF Owing

\* A payment for a variable CDP, whose shares are those repaid fewer.
LEMMA VariableServed ==
  ASSUME IInv, Growth, Prudence, epoch' = epoch, ops \in Nat, ops' = ops + 1,
         NEW i \in Ids, ~cdps[i].is_stable, NEW bucket \in Int, NEW limit \in Int,
         CanRepay(i, bucket, limit),
         NEW x, SameLoan(x, CdpRepaid(i, bucket, limit)),
         cdps' = [cdps EXCEPT ![i] = x]
  PROVE  /\ x.normalized_borrow >= 0
         /\ /\ LoanIndex(pools'[cdps[i].borrow_token], Env(cdps[i].borrow_token))
                 = LoanIndex(pools[cdps[i].borrow_token], Env(cdps[i].borrow_token))
            /\ pools'[cdps[i].borrow_token].loan_index
                 >= LoanIndex(pools[cdps[i].borrow_token], Env(cdps[i].borrow_token))
            /\ pools'[cdps[i].borrow_token] \in Pool
            => Served(i)
<1> DEFINE cdp  == cdps[i]
           b    == cdp.borrow_token
           e    == Env(b)
           L    == LoanIndex(pools[b], e)
           s    == cdp.normalized_borrow
           paid == VariablePayment(pools[b], e, bucket, s, limit)
           gone == SharesRepaid(pools[b], e, paid, s)
<1>1. /\ cdp \in CollateralDebtPosition /\ b \in Tokens
      /\ cdp.total_borrow \in Int /\ cdp.total_repay \in Int /\ s \in Nat
      /\ e.cfg = Config[b] /\ Owing(cdp)
  BY RepaidArguments
<1>2. /\ e \in Environment /\ Sound(pools[b], e) /\ Growing(pools[b])
  BY <1>1, PoolGrows
<1>3. CanRepayVariable(pools[b], e, bucket, s, limit)
  BY Zenon DEF CanRepay
<1>4. /\ paid \in Nat /\ gone \in Nat /\ gone <= s /\ L \in Nat \ {0}
      /\ DMul(s, L) <= DMul(s - gone, L) + paid
      /\ s * L <= (s - gone) * L + paid * ONE + ONE
      /\ \/ paid - (DMul(s, L) - DMul(s - gone, L)) < e.cfg.unit
         \/ (paid - (DMul(s, L) - DMul(s - gone, L)) - 1) * ONE < e.cfg.share_unit * L
  BY <1>1, <1>2, <1>3, VariableRepaymentBounds
<1>5. CdpRepaid(i, bucket, limit)
        = [cdp EXCEPT !.total_repay = @ + paid, !.normalized_borrow = @ - gone]
  BY Zenon DEF CdpRepaid, Payment, AfterVariableRepay
<1> HIDE DEF gone, paid
<1>6. /\ x.borrow_token = b /\ x.is_stable = cdp.is_stable
      /\ x.total_borrow = cdp.total_borrow /\ x.total_repay = cdp.total_repay + paid
      /\ x.normalized_borrow = s - gone /\ x.borrow_amount = cdp.borrow_amount
      /\ x.stable_rate = cdp.stable_rate
  BY <1>1, <1>5 DEF CollateralDebtPosition, SameLoan
<1>7. s - gone \in Nat
  BY <1>1, <1>4
<1>8. ASSUME LoanIndex(pools'[b], e) = L, pools'[b].loan_index >= L, pools'[b] \in Pool
      PROVE  Served(i)
  <2>1. /\ cdps'[i] = x /\ Paid(i) = paid
        /\ Debt(i)' = DMul(s - gone, L) /\ Debt(i) = DMul(s, L)
        /\ Fall(i) = DMul(s, L) - DMul(s - gone, L)
    <3>1. /\ cdps'[i] = x /\ Paid(i) = x.total_repay - cdp.total_repay
          /\ Debt(i)' = DebtOf(x, pools'[b], e) /\ Fall(i) = Debt(i) - Debt(i)'
      BY <1>6, CdpNext
    <3>2. Debt(i)' = DMul(s - gone, L) /\ Debt(i) = DMul(s, L)
      BY <1>6, <1>8, <3>1, DebtNow DEF DebtOf
    <3>3. Paid(i) = paid
      BY <1>1, <1>4, <1>6, <3>1
    <3> QED BY <3>1, <3>2, <3>3
  <2>2. DMul(s, L) \in Int /\ DMul(s - gone, L) \in Int
    <3> DEFINE k == s - gone
    <3>1. s \in Int /\ k \in Int /\ L \in Int
      BY <1>1, <1>4, <1>7
    <3> HIDE DEF s, k, L
    <3>2. DMul(s, L) \in Int /\ DMul(k, L) \in Int
      BY <3>1, DMulType
    <3> QED BY <3>2 DEF k
  <2>3. FallPaid(i)
    BY <1>4, <2>1, <2>2 DEF FallPaid
  <2>4. Credited(i)
    BY <1>1, <1>4, <2>1 DEF Credited, Unit
  <2>5. Owing(x)
    BY <1>1, <1>6, <1>7 DEF Owing
  <2>6. Accounted(x, pools'[b], ops')
    <3> DEFINE r == cdp.total_repay * ONE
               w == cdp.total_borrow * ONE
               p == paid * ONE
               k == s - gone
               K == pools[b].loan_index
               J == pools'[b].loan_index
    <3>1. r + (s + ops) * K >= w
      BY <1>1 DEF Growth, Accounted
    <3>2. /\ r \in Int /\ w \in Int /\ p \in Int /\ k \in Nat /\ K \in Nat /\ L \in Nat
          /\ L >= K /\ L >= ONE
      <4>1. pools[b].loan_index \in Int /\ pools[b].loan_index >= ONE
        BY <1>2 DEF Sound, Pool, Growing
      <4> QED BY <1>1, <1>2, <1>4, <1>7, <4>1, IndicesGrow, DecimalsAssumption
    <3>3. s * L <= k * L + p + ONE
      BY <1>4
    <3>4. (cdp.total_repay + paid) * ONE = r + p /\ J \in Int /\ J >= L
      BY <1>1, <1>4, <1>8, DecimalsAssumption DEF Pool
    <3> HIDE DEF r, w, p, k, K, J
    <3>5. (r + p) + (k + (ops + 1)) * L >= w
      <4>1. ops \in Nat /\ s \in Nat
        BY <1>1
      <4> HIDE DEF s, L
      <4> QED BY ONLY <3>1, <3>2, <3>3, <4>1, AccountedLess
    <3>6. (k + (ops + 1)) * J >= (k + (ops + 1)) * L
      <4> DEFINE n == k + (ops + 1)
      <4>1. n \in Nat
        BY <3>2
      <4> HIDE DEF n
      <4>2. L * n <= J * n
        BY <3>2, <3>4, <4>1, TimesMonotone
      <4>3. L * n = n * L /\ J * n = n * J
        BY <3>2, <3>4, <4>1
      <4> QED BY <4>2, <4>3 DEF n
    <3>7. (k + (ops + 1)) * J \in Int /\ (k + (ops + 1)) * L \in Int
      BY <3>2, <3>4
    <3>8. (r + p) + (k + (ops + 1)) * J >= w
      <4> DEFINE u == (k + (ops + 1)) * J
                 v == (k + (ops + 1)) * L
      <4>1. (r + p) + v >= w /\ u >= v /\ u \in Int /\ v \in Int
        BY <3>5, <3>6, <3>7
      <4> HIDE DEF u, v
      <4>2. (r + p) + u >= w
        BY <3>2, <4>1
      <4> QED BY <4>2 DEF u
    <3> QED BY <1>6, <3>4, <3>8 DEF Accounted, k, J, w
  <2> QED BY <1>6, <2>1, <2>3, <2>4, <2>5, <2>6 DEF Served
<1> QED BY <1>6, <1>7, <1>8

\* A payment for a stable CDP: the principal falls by what exceeds the interest
\* due, or the CDP stays as it was when that is nothing.
LEMMA StableServed ==
  ASSUME IInv, Growth, Prudence, epoch' = epoch,
         NEW i \in Ids, cdps[i].is_stable, NEW bucket \in Int, NEW limit \in Int,
         CanRepay(i, bucket, limit),
         NEW x, SameLoan(x, CdpRepaid(i, bucket, limit)),
         cdps' = [cdps EXCEPT ![i] = x]
  PROVE  Served(i) /\ x.normalized_borrow >= 0
<1> DEFINE cdp      == cdps[i]
           b        == cdp.borrow_token
           e        == Env(b)
           loan     == cdp.borrow_amount
           rate     == cdp.stable_rate
           since    == cdp.last_update_epoch
           interest == StableInterest(e, loan, rate, since)
           due      == StableInterestDue(e, loan, rate, since)
           paid     == StablePayment(e, bucket, loan, rate, since, limit)
           borrow   == RepayInBorrow(e, bucket, loan, rate, since, limit)
<1>1. /\ cdp \in CollateralDebtPosition /\ b \in Tokens
      /\ cdp.total_borrow \in Int /\ cdp.total_repay \in Int
      /\ loan \in Nat /\ rate \in Nat
      /\ since \in Nat /\ since <= epoch /\ epoch \in Nat /\ e.now = epoch
      /\ e.cfg = Config[b] /\ Owing(cdp)
  BY RepaidArguments
<1>2. e \in Environment
  BY <1>1, PoolGrows
<1>3. /\ interest \in Nat /\ due \in Nat /\ paid \in Int /\ borrow \in Int
      /\ interest <= due /\ due < interest + e.cfg.unit
      /\ borrow <= loan /\ paid = borrow + due
  <2>1. loan \in Nat /\ rate \in Nat /\ since \in Nat /\ since <= e.now /\ e \in Environment
    BY <1>1, <1>2
  <2>2. interest \in Nat /\ due \in Nat /\ paid \in Int /\ borrow \in Int
    BY <2>1, StableRepaymentBounds
  <2>3. interest <= due /\ due < interest + e.cfg.unit /\ borrow <= loan
    BY <2>1, StableRepaymentBounds
  <2>4. paid = borrow + due
    <3> HIDE DEF e, loan, rate, since
    <3>1. bucket \in Int /\ limit \in Int
      OBVIOUS
    <3> QED BY ONLY <2>1, <2>2, <3>1, StableRepaymentBounds
  <2> QED BY <2>2, <2>3, <2>4
<1>4. paid >= 0
  BY Zenon DEF CanRepay, CanRepayStable, Takeable
<1>5. CdpRepaid(i, bucket, limit) = AfterStableRepay(cdp, paid, borrow)
  BY Zenon DEF CdpRepaid, Payment
<1>6. Debt(i) = loan + interest
  BY DebtNow DEF DebtOf
<1>7. InterestOnly(i) <=> Paid(i) = due
  BY Zenon DEF InterestOnly
<1>8. Unit(b) = e.cfg.unit /\ Unit(b) \in Nat \ {0}
  BY <1>1, EnvType DEF Unit, PoolConfig, IInv, Books
<1>9. cdp.total_borrow <= cdp.total_repay + loan
  BY DEF Growth, Accounted
<1> HIDE DEF interest, due, paid, borrow
<1>10. CASE borrow = 0
  <2>1. /\ x.borrow_token = b /\ x.is_stable = cdp.is_stable
        /\ x.total_borrow = cdp.total_borrow /\ x.total_repay = cdp.total_repay + paid
        /\ x.normalized_borrow = cdp.normalized_borrow /\ x.borrow_amount = loan
        /\ x.stable_rate = rate /\ x.last_update_epoch = since
    BY <1>1, <1>5, <1>10 DEF AfterStableRepay, CollateralDebtPosition, SameLoan
  <2>2. /\ cdps'[i] = x /\ Paid(i) = x.total_repay - cdp.total_repay
        /\ Debt(i)' = DebtOf(x, pools'[b], e) /\ Fall(i) = Debt(i) - Debt(i)'
    BY <2>1, CdpNext
  <2>3. Debt(i)' = loan + interest
    BY <2>1, <2>2 DEF DebtOf, interest
  <2>4. Paid(i) = paid /\ Fall(i) = 0 /\ paid = due
    BY <1>1, <1>3, <1>6, <1>10, <2>1, <2>2, <2>3
  <2>5. FallPaid(i) /\ Credited(i)
    BY <1>4, <1>7, <2>4 DEF FallPaid, Credited
  <2>6. Owing(x) /\ Accounted(x, pools'[b], ops')
    BY <1>1, <1>3, <1>4, <1>9, <2>1 DEF Owing, Accounted
  <2> QED BY <2>1, <2>2, <2>5, <2>6 DEF Served, Owing
<1>11. CASE borrow # 0
  <2> DEFINE left == loan - borrow
             new  == IF loan = borrow THEN 0 ELSE rate
  <2>1. /\ x.borrow_token = b /\ x.is_stable = cdp.is_stable
        /\ x.total_borrow = cdp.total_borrow /\ x.total_repay = cdp.total_repay + paid
        /\ x.normalized_borrow = cdp.normalized_borrow /\ x.borrow_amount = left
        /\ x.stable_rate = new /\ x.last_update_epoch = epoch
    <3>1. CdpRepaid(i, bucket, limit)
            = [cdp EXCEPT !.total_repay = @ + paid, !.borrow_amount = @ - borrow,
                          !.stable_rate = new, !.last_update_epoch = epoch]
      BY <1>5, <1>11, Zenon DEF AfterStableRepay
    <3> HIDE DEF new
    <3> QED BY <1>1, <3>1, ZenonT(40) DEF CollateralDebtPosition, SameLoan
  <2>2. left \in Nat /\ new \in Nat
    BY <1>1, <1>3
  <2>3. /\ cdps'[i] = x /\ Paid(i) = x.total_repay - cdp.total_repay
        /\ Debt(i)' = DebtOf(x, pools'[b], e) /\ Fall(i) = Debt(i) - Debt(i)'
    BY <2>1, CdpNext
  <2>4. Debt(i)' = left
    <3> HIDE DEF left, new
    <3>1. CompoundInterest(left, new, 0) = left /\ epoch - epoch = 0
      BY <1>1, <2>2, CompoundInterestNow
    <3>2. StableInterest(e, left, new, epoch) = 0
      BY <1>1, <2>2, <3>1 DEF StableInterest
    <3> QED BY <2>1, <2>2, <2>3, <3>2 DEF DebtOf
  <2>5. Paid(i) = paid /\ Fall(i) = (loan + interest) - left
    BY <1>1, <1>3, <1>6, <2>1, <2>3, <2>4
  <2>6. Fall(i) <= Paid(i) /\ Paid(i) - Fall(i) < Unit(b)
    BY <1>1, <1>3, <1>8, <2>5
  <2>7. FallPaid(i) /\ Credited(i)
    BY <2>6 DEF FallPaid, Credited
  <2>8. cdp.total_borrow <= (cdp.total_repay + paid) + left
    BY <1>1, <1>3, <1>9
  <2> HIDE DEF left, new
  <2>9. Owing(x) /\ Accounted(x, pools'[b], ops')
    BY <1>1, <2>1, <2>2, <2>8 DEF Owing, Accounted
  <2> QED BY <2>1, <2>3, <2>7, <2>9 DEF Served, Owing
<1> QED BY <1>10, <1>11

\* The mean stable rates stay what they should be, or nobody has a stable loan.
RatesKnown == StableRatesNotNegative \/ NoStableLoans

\* The pool whose loan is repaid by a call that leaves Q in its place, after
\* more than the repayment perhaps.
LEMMA PoolRepaidGrows ==
  ASSUME IInv, IInv', Growth, Prudence, RatesKnown', epoch' = epoch,
         NEW i \in Ids, NEW bucket \in Int, NEW limit \in Int, CanRepay(i, bucket, limit),
         NEW x, cdps' = [cdps EXCEPT ![i] = x], x.normalized_borrow >= 0,
         x.is_stable = cdps[i].is_stable,
         NEW S, S = PoolRepaid(i, bucket, limit),
         pools'[cdps[i].borrow_token].variable_loan_share_quantity
           = S.variable_loan_share_quantity,
         pools'[cdps[i].borrow_token].stable_loan_interest_rate
           = S.stable_loan_interest_rate
  PROVE  /\ Sound(S, Env(cdps[i].borrow_token)) /\ Grown(S, pools[cdps[i].borrow_token])
         /\ IF cdps[i].is_stable THEN ~NoStableLoans'
            ELSE /\ Steady(S, pools[cdps[i].borrow_token], Env(cdps[i].borrow_token))
                 /\ SameStable(S, pools[cdps[i].borrow_token])
<1> DEFINE cdp == cdps[i]
           b   == cdp.borrow_token
           e   == Env(b)
           P   == pools[b]
<1>1. /\ b \in Tokens /\ cdp.borrow_amount \in Int /\ cdp.stable_rate \in Int
      /\ cdp.normalized_borrow \in Int
      /\ cdp.last_update_epoch \in Nat /\ cdp.last_update_epoch <= e.now
  BY RepaidArguments
<1>2. /\ e \in Environment /\ Prudent(e) /\ Sound(P, e) /\ Growing(P) /\ Booked(P)
  BY <1>1, PoolGrows
<1>3. Ids' = Ids /\ cdps'[i] = x /\ \A j \in Ids : j # i => cdps'[j] = cdps[j]
  BY DEF IInv, Books, Ids
<1>4. S \in Pool /\ Sound(S, e)
  BY RepaidSound DEF IInv, Sound
<1>5. CASE cdp.is_stable
  <2>1. S = PoolRepayStable(P, e, bucket, cdp.borrow_amount, cdp.stable_rate,
                            cdp.last_update_epoch, limit)
    BY <1>5, Zenon DEF PoolRepaid
  <2>2. CanRepayStable(e, bucket, cdp.borrow_amount, cdp.stable_rate,
                       cdp.last_update_epoch, limit)
    BY <1>5, Zenon DEF CanRepay
  <2>3. ~NoStableLoans'
    BY <1>3, <1>5 DEF NoStableLoans
  <2>4. S.stable_loan_interest_rate >= 0
    BY <1>1, <2>3 DEF RatesKnown, StableRatesNotNegative
  <2>5. Growing(S) /\ Booked(S) /\ SameIndices(S, P)
    BY <1>1, <1>2, <2>1, <2>2, <2>4, RepayStableGrows
  <2>6. P.deposit_index \in Int /\ P.loan_index \in Int
    BY <1>2 DEF Sound, Pool
  <2> QED BY <1>4, <1>5, <2>3, <2>5, <2>6 DEF Grown, SameIndices
<1>6. CASE ~cdp.is_stable
  <2>1. S = PoolRepayVariable(P, e, bucket, cdp.normalized_borrow, limit)
    BY <1>6, Zenon DEF PoolRepaid
  <2>2. CanRepayVariable(P, e, bucket, cdp.normalized_borrow, limit)
    BY <1>6, Zenon DEF CanRepay
  <2>3. S.variable_loan_share_quantity >= 0
    <3>1. /\ ShareBook' /\ cdps' \in Seq(CollateralDebtPosition)
      BY DEF IInv, Books
    <3>2. \A j \in Ids' : cdps'[j].normalized_borrow >= 0
      BY <1>3 DEF Growth, Owing
    <3>3. \A j \in 1..Len(SharesIn(cdps', b)) : SharesIn(cdps', b)[j] >= 0
      <4>1. Len(SharesIn(cdps', b)) = Len(cdps')
        BY <3>1, ClaimsType
      <4> QED BY <3>2, <4>1 DEF SharesIn, Ids
    <3>4. Sum(SharesIn(cdps', b)) >= 0
      BY <3>1, <3>3, ClaimsType, SumNat
    <3>5. pools'[b].variable_loan_share_quantity = Sum(SharesIn(cdps', b))
      BY <1>1, <3>1, BooksOfClaimsNext
    <3> QED BY <3>4, <3>5
  <2>4. Steady(S, P, e) /\ SameStable(S, P)
    BY <1>1, <1>2, <2>1, <2>2, <2>3, RepayVariableSteady
  <2>5. Grown(S, P)
    BY <1>2, <2>4, SteadyGrown
  <2> QED BY <1>4, <1>6, <2>4, <2>5
<1> QED BY <1>5, <1>6

\* A pool that the call leaves as Q.
LEMMA MovedTo ==
  ASSUME epoch' = epoch, NEW t \in Tokens, NEW Q, pools'[t] = Q, Grown(Q, pools[t]),
         SameNow(Q, pools[t], Env(t)) \/ StableRepayment(t),
         SameStable(Q, pools[t]) \/ ~NoStableLoans'
  PROVE  PoolMoved(t)
<1>1. IndicesKept(t)
  BY IndicesNext DEF IndicesKept, SameNow
<1> QED BY <1>1 DEF PoolMoved

LEMMA RepayKept ==
  ASSUME IInv, IInv', Growth, Prudence, RatesKnown',
         NEW i \in Live, NEW bucket \in Inputs["repay"], Repay(i, bucket)
  PROVE  CallKept
<1> DEFINE b == cdps[i].borrow_token
           S == PoolRepaid(i, bucket, bucket)
           x == CdpRepaid(i, bucket, bucket)
<1>1. /\ Call /\ CanRepay(i, bucket, bucket)
      /\ pools' = [pools EXCEPT ![b] = S]
      /\ cdps' = [cdps EXCEPT ![i] = x]
      /\ UNCHANGED <<cdp_vault, epoch, price>>
  BY Zenon DEF Repay, PoolsAndCdps
<1>2. i \in Ids /\ bucket \in Int
  <2>1. i \in Ids
    BY DEF Live, Pledged, IInv, Frame
  <2>2. bucket \in Nat
    BY ManagerAssumption DEF Arguments
  <2> QED BY <2>1, <2>2
<1>3. b \in Tokens
  BY <1>2, RepaidArguments
<1>4. ops \in Nat /\ ops' = ops + 1 /\ \A t \in Tokens : price'[t] \in Prices[t]
  BY <1>1, PricesKept
<1>5. SameLoan(x, CdpRepaid(i, bucket, bucket))
  BY DEF SameLoan
<1>6. pools'[b] = S /\ pools'[b] \in Pool
  BY <1>1, <1>3 DEF IInv, Books
<1>7. x.is_stable = cdps[i].is_stable
  <2>1. cdps[i] \in CollateralDebtPosition
    BY <1>2, RepaidArguments
  <2> QED BY <2>1, Zenon DEF CdpRepaid, AfterStableRepay, AfterVariableRepay, CollateralDebtPosition
<1>8. StableRepayment(b) \/ ~cdps[i].is_stable
  BY DEF StableRepayment
<1> HIDE DEF S, x
<1>9. x.normalized_borrow >= 0
  <2>1. CASE cdps[i].is_stable
    BY <1>1, <1>2, <1>5, <2>1, StableServed
  <2>2. CASE ~cdps[i].is_stable
    BY <1>1, <1>2, <1>4, <1>5, <2>2, VariableServed
  <2> QED BY <2>1, <2>2
<1>10. /\ Sound(S, Env(b)) /\ Grown(S, pools[b])
       /\ IF cdps[i].is_stable THEN ~NoStableLoans'
          ELSE Steady(S, pools[b], Env(b)) /\ SameStable(S, pools[b])
  <2>1. S = PoolRepaid(i, bucket, bucket)
    BY DEF S
  <2> QED BY <1>1, <1>2, <1>6, <1>7, <1>9, <2>1, PoolRepaidGrows
<1>11. /\ SameNow(S, pools[b], Env(b)) \/ StableRepayment(b)
       /\ SameStable(S, pools[b]) \/ ~NoStableLoans'
  BY <1>3, <1>8, <1>10, PoolGrows, SteadyGrown
<1>12. \A u \in Tokens : PoolMoved(u)
  BY <1>1, <1>3, <1>10, <1>11, OnePoolMoved
<1>13. Served(i)
  <2>1. CASE cdps[i].is_stable
    BY <1>1, <1>2, <1>5, <2>1, StableServed
  <2>2. CASE ~cdps[i].is_stable
    <3>1. Steady(S, pools[b], Env(b))
      BY <1>10, <2>2
    <3>2. /\ LoanIndex(S, Env(b)) = LoanIndex(pools[b], Env(b))
          /\ S.loan_index = LoanIndex(pools[b], Env(b))
      BY <1>3, <3>1, PoolGrows, SteadyGrown DEF SameNow, Steady, Settled
    <3>3. LoanIndex(pools[b], Env(b)) \in Int
      BY <1>3, PoolGrows, IndexType
    <3>4. /\ LoanIndex(pools'[b], Env(b)) = LoanIndex(pools[b], Env(b))
          /\ pools'[b].loan_index >= LoanIndex(pools[b], Env(b))
      BY <1>6, <3>2, <3>3
    <3> QED BY <1>1, <1>2, <1>4, <1>5, <1>6, <2>2, <3>4, VariableServed
  <2> QED BY <2>1, <2>2
<1>14. cdps' = [cdps EXCEPT ![i] = x] /\ cdp_vault' = cdp_vault /\ epoch' = epoch /\ ops' >= ops
  BY <1>1, <1>4
<1> QED BY <1>2, <1>4, <1>12, <1>13, <1>14, CdpChanged

-----------------------------------------------------------------------------
(* Liquidation *)

LEMMA RemoveLiquidityStable ==
  ASSUME NEW e \in Environment, NEW P, Sound(P, e), NEW dx \in Nat
  PROVE  RemoveLiquidity(P, e, dx).stable_loan_interest_rate = P.stable_loan_interest_rate
<1> DEFINE Q == UpdateIndex(P, e)
           R == [Q EXCEPT !.dx_supply = @ - dx]
           d == InterestRate(R, e, 0).supply
           w == InterestRate(R, e, 0).variable
           U == [R EXCEPT !.deposit_interest_rate = d, !.variable_loan_interest_rate = w]
           left == U.vault - RemovedAmount(P, e, dx)
<1>1. RemoveLiquidity(P, e, dx) = [U EXCEPT !.vault = left]
  BY Zenon DEF RemoveLiquidity, UpdateInterestRate
<1>2. Sound(Q, e) /\ SameStable(Q, P)
  BY UpdateIndexSound, UpdateIndexSettles
<1>3. Q \in Pool
  BY <1>2 DEF Sound
<1> HIDE DEF Q, d, w, left
<1>4. [U EXCEPT !.vault = left].stable_loan_interest_rate = Q.stable_loan_interest_rate
  BY <1>3 DEF Pool
<1> QED BY <1>1, <1>2, <1>4 DEF SameStable

\* The pools after the repayment (repaid) and after the sale of dx of c.
LEMMA SaleMoves ==
  ASSUME IInv, Growth, Prudence, epoch' = epoch, NEW b \in Tokens, NEW S,
         Sound(S, Env(b)), Grown(S, pools[b]),
         SameNow(S, pools[b], Env(b)) \/ StableRepayment(b),
         SameStable(S, pools[b]) \/ ~NoStableLoans',
         NEW repaid, repaid = [pools EXCEPT ![b] = S],
         NEW c \in Tokens, NEW dx \in Nat, dx <= repaid[c].dx_supply,
         CanRemoveLiquidity(repaid[c], Env(c), dx),
         NEW R, R = RemoveLiquidity(repaid[c], Env(c), dx),
         pools' = [repaid EXCEPT ![c] = R]
  PROVE  /\ \A t \in Tokens : PoolMoved(t)
         /\ Grown(pools'[b], S) /\ SameNow(pools'[b], S, Env(b))
<1>1. \A t \in Tokens : repaid[t] = IF t = b THEN S ELSE pools[t]
  BY DEF IInv, Books
<1>2. \A t \in Tokens : pools'[t] = IF t = c THEN R ELSE repaid[t]
  <2>1. DOMAIN repaid = Tokens
    BY DEF IInv, Books
  <2> QED BY <2>1
<1>3. ASSUME NEW t \in Tokens
      PROVE  /\ Env(t) \in Environment /\ Prudent(Env(t)) /\ Sound(repaid[t], Env(t))
             /\ Grown(repaid[t], pools[t])
             /\ SameNow(repaid[t], pools[t], Env(t)) \/ StableRepayment(t)
             /\ SameStable(repaid[t], pools[t]) \/ ~NoStableLoans'
  <2>1. /\ Env(t) \in Environment /\ Prudent(Env(t)) /\ Sound(pools[t], Env(t))
        /\ Growing(pools[t]) /\ Booked(pools[t])
    BY PoolGrows
  <2>2. CASE t = b
    BY <1>1, <2>1, <2>2
  <2>3. CASE t # b
    <3>1. repaid[t] = pools[t]
      BY <1>1, <2>3
    <3>2. Quiet(repaid[t], pools[t])
      BY <3>1 DEF Quiet, SameIndices, SameRates, SameStable
    <3> QED BY <2>1, <3>1, <3>2, QuietGrown
  <2> QED BY <2>2, <2>3
<1>4. ASSUME NEW t \in Tokens
      PROVE  /\ Grown(pools'[t], repaid[t]) /\ SameNow(pools'[t], repaid[t], Env(t))
             /\ SameStable(pools'[t], repaid[t])
  <2>1. /\ Env(t) \in Environment /\ Prudent(Env(t)) /\ Sound(repaid[t], Env(t))
        /\ Growing(repaid[t]) /\ Booked(repaid[t])
    BY <1>3 DEF Grown
  <2>2. CASE t = c
    <3> DEFINE P == repaid[t]
    <3>1. pools'[t] = RemoveLiquidity(P, Env(t), dx) /\ dx <= P.dx_supply
          /\ CanRemoveLiquidity(P, Env(t), dx)
      BY <1>2, <2>2
    <3> HIDE DEF P
    <3>2. Steady(pools'[t], P, Env(t)) /\ SameStable(pools'[t], P)
      BY <2>1, <3>1, RemoveLiquiditySteady DEF P
    <3> QED BY <2>1, <3>2, SteadyGrown DEF P
  <2>3. CASE t # c
    <3>1. pools'[t] = repaid[t]
      BY <1>2, <2>3
    <3>2. Quiet(pools'[t], repaid[t])
      BY <3>1 DEF Quiet, SameIndices, SameRates, SameStable
    <3> QED BY <2>1, <3>2, QuietGrown
  <2> QED BY <2>2, <2>3
<1>5. ASSUME NEW t \in Tokens
      PROVE  PoolMoved(t)
  <2> DEFINE Q == pools'[t]
             M == repaid[t]
             P == pools[t]
  <2>1. /\ Sound(M, Env(t)) /\ Grown(M, P)
        /\ SameNow(M, P, Env(t)) \/ StableRepayment(t)
        /\ SameStable(M, P) \/ ~NoStableLoans'
        /\ Grown(Q, M) /\ SameNow(Q, M, Env(t)) /\ SameStable(Q, M)
    BY <1>3, <1>4
  <2>2. /\ P.deposit_index \in Int /\ P.loan_index \in Int
        /\ M.deposit_index \in Int /\ M.loan_index \in Int
        /\ Q.deposit_index \in Int /\ Q.loan_index \in Int
    <3>1. P \in Pool /\ M \in Pool
      BY <2>1 DEF Sound, IInv, Books
    <3>2. Q \in Pool
      <4>1. CASE t = c
        <5>1. /\ Env(t) \in Environment /\ Prudent(Env(t))
              /\ Growing(M) /\ Booked(M)
          BY <1>3 DEF Grown
        <5>2. Q = RemoveLiquidity(M, Env(t), dx) /\ dx <= M.dx_supply
              /\ CanRemoveLiquidity(M, Env(t), dx)
          BY <1>2, <4>1
        <5> HIDE DEF Q, M
        <5> QED BY <2>1, <5>1, <5>2, RemoveLiquiditySound DEF Sound
      <4>2. CASE t # c
        BY <1>2, <3>1, <4>2
      <4> QED BY <4>1, <4>2
    <3> QED BY <3>1, <3>2 DEF Pool
  <2> HIDE DEF Q, M, P
  <2>3. Grown(Q, P)
    BY <2>1, <2>2 DEF Grown
  <2>4. SameNow(Q, P, Env(t)) \/ StableRepayment(t)
    BY <2>1 DEF SameNow
  <2>5. SameStable(Q, P) \/ ~NoStableLoans'
    BY <2>1 DEF SameStable
  <2> QED BY <2>3, <2>4, <2>5, MovedTo DEF Q, P
<1>6. repaid[b] = S
  BY <1>1
<1> QED BY <1>4, <1>5, <1>6

LEMMA LiquidationKept ==
  ASSUME IInv, IInv', Growth, Prudence, RatesKnown', NEW i \in Pledged,
         NEW bucket \in Inputs["repay"], NEW cover \in Inputs["cover"],
         NEW bp \in Quotes(cdps[i].borrow_token), NEW cp \in Quotes(cdps[i].collateral_token),
         Liquidation(i, bucket, cover, bp, cp)
  PROVE  CallKept
<1> DEFINE b      == cdps[i].borrow_token
           c      == cdps[i].collateral_token
           terms  == LiquidationTerms(i, cover, bp, cp)
           debt   == terms.debt
           dx     == terms.dx
           S      == PoolRepaid(i, bucket, debt)
           repaid == [pools EXCEPT ![b] = S]
           R      == RemoveLiquidity(repaid[c], Env(c), dx)
           y      == CdpRepaid(i, bucket, debt)
           x      == Release(y, dx)
<1>1. /\ i \in Ids /\ i \in Live /\ c \in Tokens /\ b \in Tokens
      /\ bucket \in Nat /\ cover \in Nat /\ bp \in Nat /\ cp \in Nat
  <2>1. i \in Ids /\ c \in Tokens /\ b \in Tokens
    BY PledgedToken, CdpKnown, CdpType DEF IInv
  <2>2. bp \in Nat /\ cp \in Nat
    BY <2>1, QuotesType DEF IInv
  <2>3. bucket \in Nat /\ cover \in Nat
    BY ManagerAssumption DEF Arguments
  <2> QED BY <2>1, <2>2, <2>3 DEF Live
<1>2. /\ CanLiquidate(i, bp, cp)
      /\ CanRepay(i, bucket, debt)
      /\ Takeable(dx, Config[c].share_unit) /\ dx <= collateral_vaults[c]
      /\ CanRemoveLiquidity(repaid[c], Env(c), dx)
      /\ pools' = [repaid EXCEPT ![c] = R]
      /\ cdps' = [cdps EXCEPT ![i] = x]
      /\ UNCHANGED <<cdp_vault, epoch, price>>
      /\ Call
  <2> HIDE DEF R, x
  <2> QED BY DEF Liquidation, CanSell, PoolsAndCdps, R, x
<1>3. StableRepayment(b) \/ ~cdps[i].is_stable
  BY <1>1 DEF StableRepayment
<1>4. debt \in Int /\ dx \in Int
  BY <1>1, <1>2, LiquidationTermsType DEF IInv, Frame
<1> HIDE DEF terms, debt, dx
<1>5. dx \in Nat
  BY <1>2, <1>4 DEF Takeable
<1>6. /\ Sound(S, Env(b)) /\ S.dx_supply = pools[b].dx_supply
      /\ y \in CollateralDebtPosition
  <2>1. bucket \in Int
    BY <1>1
  <2> QED BY <1>1, <1>2, <1>4, <2>1, RepaidSound DEF IInv
<1>7. SameLoan(x, y)
  <2> HIDE DEF y
  <2> QED BY <1>6, ReleaseLoan
<1>8. x.is_stable = cdps[i].is_stable
  <2>1. y.is_stable = cdps[i].is_stable
    <3>1. cdps[i] \in CollateralDebtPosition
      BY <1>1, RepaidArguments
    <3> QED BY <3>1, Zenon DEF CdpRepaid, AfterStableRepay, AfterVariableRepay,
                               CollateralDebtPosition
  <2> QED BY <1>7, <2>1 DEF SameLoan
<1>9. ops \in Nat /\ ops' = ops + 1 /\ ops' >= ops /\ \A t \in Tokens : price'[t] \in Prices[t]
  BY <1>2, PricesKept
<1> HIDE DEF S, x
<1>10. x.normalized_borrow >= 0
  <2>1. SameLoan(x, CdpRepaid(i, bucket, debt)) /\ bucket \in Int
    BY <1>1, <1>7
  <2>2. CASE cdps[i].is_stable
    BY <1>1, <1>2, <1>4, <2>1, <2>2, StableServed
  <2>3. CASE ~cdps[i].is_stable
    BY <1>1, <1>2, <1>4, <1>9, <2>1, <2>3, VariableServed
  <2> QED BY <2>2, <2>3
<1>11. /\ repaid[b] = S /\ DOMAIN repaid = Tokens
       /\ \A t \in Tokens : repaid[t] = IF t = b THEN S ELSE pools[t]
  BY <1>1 DEF IInv, Books
<1>12. dx <= pools[c].dx_supply
  BY <1>1, <1>2, <1>5, BookedType DEF IInv
<1>13. repaid = [pools EXCEPT ![b] = S] /\ R = RemoveLiquidity(repaid[c], Env(c), dx)
       /\ pools' = [repaid EXCEPT ![c] = R]
  BY <1>2
<1> HIDE DEF repaid, R
<1>14. /\ pools'[b].variable_loan_share_quantity = S.variable_loan_share_quantity
       /\ pools'[b].stable_loan_interest_rate = S.stable_loan_interest_rate
  <2>1. CASE b = c
    <3>1. pools'[b] = RemoveLiquidity(S, Env(b), dx)
      BY <1>1, <1>11, <1>13, <2>1
    <3>2. CanRemoveLiquidity(S, Env(b), dx) /\ dx <= S.dx_supply
      BY <1>2, <1>6, <1>11, <1>12, <2>1
    <3>3. Env(b) \in Environment
      BY <1>1, PoolGrows
    <3> QED BY <1>5, <1>6, <3>1, <3>2, <3>3, RemoveLiquiditySound, RemoveLiquidityStable
  <2>2. CASE b # c
    BY <1>1, <1>11, <1>13, <2>2
  <2> QED BY <2>1, <2>2
<1>15. /\ Sound(S, Env(b)) /\ Grown(S, pools[b])
       /\ IF cdps[i].is_stable THEN ~NoStableLoans'
          ELSE Steady(S, pools[b], Env(b)) /\ SameStable(S, pools[b])
  <2>1. S = PoolRepaid(i, bucket, debt) /\ bucket \in Int
    BY <1>1 DEF S
  <2> QED BY <1>1, <1>2, <1>4, <1>8, <1>10, <1>14, <2>1, PoolRepaidGrows
<1>16. /\ SameNow(S, pools[b], Env(b)) \/ StableRepayment(b)
       /\ SameStable(S, pools[b]) \/ ~NoStableLoans'
  BY <1>1, <1>3, <1>15, PoolGrows, SteadyGrown
<1>17. dx <= repaid[c].dx_supply
  BY <1>1, <1>6, <1>11, <1>12
<1>18. /\ \A t \in Tokens : PoolMoved(t)
       /\ Grown(pools'[b], S) /\ SameNow(pools'[b], S, Env(b))
  <2> HIDE DEF b, c
  <2> QED BY <1>1, <1>2, <1>5, <1>13, <1>15, <1>16, <1>17, SaleMoves
<1>19. Served(i)
  <2>1. SameLoan(x, CdpRepaid(i, bucket, debt)) /\ bucket \in Int
    BY <1>1, <1>7
  <2>2. CASE cdps[i].is_stable
    BY <1>1, <1>2, <1>4, <2>1, <2>2, StableServed
  <2>3. CASE ~cdps[i].is_stable
    <3>1. Steady(S, pools[b], Env(b))
      BY <1>15, <2>3
    <3>2. /\ LoanIndex(S, Env(b)) = LoanIndex(pools[b], Env(b))
          /\ S.loan_index = LoanIndex(pools[b], Env(b))
      BY <1>1, <3>1, PoolGrows, SteadyGrown DEF SameNow, Steady, Settled
    <3>3. /\ LoanIndex(pools'[b], Env(b)) = LoanIndex(pools[b], Env(b))
          /\ pools'[b].loan_index >= LoanIndex(pools[b], Env(b))
          /\ pools'[b] \in Pool
      BY <1>1, <1>18, <3>2 DEF SameNow, Grown, IInv, Books
    <3> QED BY <1>1, <1>2, <1>4, <1>9, <2>1, <2>3, <3>3, VariableServed
  <2> QED BY <2>2, <2>3
<1>20. cdps' = [cdps EXCEPT ![i] = x] /\ cdp_vault' = cdp_vault /\ epoch' = epoch
  BY <1>2
<1> QED BY <1>1, <1>9, <1>18, <1>19, <1>20, CdpChanged

-----------------------------------------------------------------------------
(* A staking loan is repaid: its CDP is burned as it is *)

LEMMA StakingRepaid ==
  ASSUME IInv, IInv', Growth, Prudence, RatesKnown',
         NEW i \in cdp_vault, NEW bucket \in Int, StakingRepay(i, bucket)
  PROVE  /\ i \in Live /\ cdps[i].is_stable /\ cdps[i].borrow_token = XRD /\ XRD \in Tokens
         /\ Call /\ UNCHANGED <<cdps, epoch, price>> /\ cdp_vault' \subseteq cdp_vault
         /\ \E Q : pools' = [pools EXCEPT ![XRD] = Q] /\ Grown(Q, pools[XRD])
         /\ ~NoStableLoans'
<1> DEFINE cdp == cdps[i]
           b   == XRD
           e   == Env(b)
           S   == PoolRepayStable(pools[b], e, bucket, cdp.borrow_amount,
                                  cdp.stable_rate, cdp.last_update_epoch, bucket)
<1>1. /\ Call
      /\ CanRepayStable(e, bucket, cdp.borrow_amount, cdp.stable_rate,
                        cdp.last_update_epoch, bucket)
      /\ pools' = [pools EXCEPT ![b] = S]
      /\ cdp_vault' = cdp_vault \ {i}
      /\ UNCHANGED <<cdps, epoch, price>>
  BY Zenon DEF StakingRepay, CanStakingRepay, Burned
<1>2. i \in Ids /\ i \in Live /\ cdp.is_stable /\ cdp.borrow_token = b /\ b \in Tokens
  <2>1. i \in Ids
    BY DEF IInv, Frame
  <2> QED BY <2>1, ManagerAssumption DEF Growth, StakingVault, Live
<1>3. /\ cdp.borrow_amount \in Int /\ cdp.stable_rate \in Int
      /\ cdp.last_update_epoch \in Nat /\ cdp.last_update_epoch <= e.now
  BY <1>2, RepaidArguments
<1>4. /\ e \in Environment /\ Prudent(e) /\ Sound(pools[b], e)
      /\ Growing(pools[b]) /\ Booked(pools[b])
  BY <1>2, PoolGrows
<1>5. ~NoStableLoans'
  BY <1>1, <1>2 DEF NoStableLoans, Ids
<1>6. pools'[b] = S
  BY <1>1, <1>2 DEF IInv, Books
<1>7. S.stable_loan_interest_rate >= 0
  BY <1>2, <1>5, <1>6 DEF RatesKnown, StableRatesNotNegative
<1>8. Growing(S) /\ Booked(S) /\ SameIndices(S, pools[b])
  BY <1>1, <1>2, <1>3, <1>4, <1>7, RepayStableGrows
<1> HIDE DEF S
<1>9. Grown(S, pools[b])
  <2>1. pools[b].deposit_index \in Int /\ pools[b].loan_index \in Int
    BY <1>4 DEF Sound, Pool
  <2> QED BY <1>8, <2>1 DEF Grown, SameIndices
<1>10. cdp_vault' \subseteq cdp_vault
  BY <1>1
<1> QED BY <1>1, <1>2, <1>5, <1>9, <1>10

LEMMA StakingRepayKept ==
  ASSUME IInv, IInv', Growth, Prudence, RatesKnown',
         NEW i \in cdp_vault, NEW bucket \in Inputs["claim"], StakingRepay(i, bucket)
  PROVE  CallKept
<1>1. bucket \in Int
  <2>1. bucket \in Nat
    BY ManagerAssumption DEF Arguments
  <2> QED BY <2>1
<1>2. /\ i \in Live /\ cdps[i].is_stable /\ cdps[i].borrow_token = XRD /\ XRD \in Tokens
      /\ Call /\ UNCHANGED <<cdps, epoch, price>> /\ cdp_vault' \subseteq cdp_vault
      /\ \E Q : pools' = [pools EXCEPT ![XRD] = Q] /\ Grown(Q, pools[XRD])
      /\ ~NoStableLoans'
  BY <1>1, StakingRepaid
<1>3. StableRepayment(XRD)
  BY <1>2 DEF StableRepayment
<1>4. \A t \in Tokens : PoolMoved(t)
  BY <1>2, <1>3, OnePoolMoved
<1> QED BY <1>2, <1>4, PricesKept, CdpsUntouched

-----------------------------------------------------------------------------
(* Every step *)

TimePasses == /\ epoch' # epoch /\ Growth'
              /\ UNCHANGED <<pools, cdps, cdp_vault, collateral_vaults, price, ops>>

LEMMA TickKept ==
  ASSUME IInv, IInv', Growth, Prudence, NEW n \in Nat, Tick(n)
  PROVE  CallKept \/ TimePasses
<1>1. /\ UNCHANGED <<pools, cdps, cdp_vault, collateral_vaults, price, ops>> /\ ops \in Nat
  BY DEF Tick, IInv, Frame
<1>2. \A t \in Tokens : price'[t] \in Prices[t]
  BY <1>1 DEF Growth
<1>3. CASE epoch' = epoch
  <2>1. \A t \in Tokens : PoolMoved(t)
    BY <1>1, <1>3, PoolLeft
  <2> QED BY <1>1, <1>2, <1>3, <2>1, CdpsUntouched
<1>4. CASE epoch' # epoch
  BY <1>1, <1>4 DEF TimePasses, Growth, Ids, StakingVault
<1> QED BY <1>3, <1>4

LEMMA InitGrowth == Init => Growth
<1> SUFFICES ASSUME Init PROVE Growth
  OBVIOUS
<1>1. /\ pools = [t \in Tokens |-> NewPool(InitialLiquidity[t])]
      /\ cdps = <<>> /\ cdp_vault = {} /\ \A t \in Tokens : price[t] \in Prices[t]
  BY DEF Init
<1>2. \A t \in Tokens : Growing(pools[t]) /\ Booked(pools[t])
  BY <1>1, DecimalsAssumption DEF NewPool, Growing, Booked
<1> QED BY <1>1, <1>2 DEF Growth, StakingVault, Ids

LEMMA NextKept ==
  ASSUME IInv, IInv', Growth, Prudence, RatesKnown', [Next]_vars
  PROVE  CallKept \/ TimePasses
<1>1. ASSUME NEW a \in Arguments, NEW n \in Inputs[a] PROVE n \in Nat
  BY ManagerAssumption
<1>2. DepositStep => CallKept
  BY <1>1, SupplyKept, WithdrawKept DEF DepositStep, Arguments
<1>3. LoanStep => CallKept
  <2>1. ASSUME NEW m \in Markets, NEW dx \in Inputs["collateral"],
               NEW amount \in Inputs["variable"], BorrowVariable(m[1], m[2], dx, amount)
        PROVE  CallKept
    <3>1. m[1] \in Tokens /\ m[2] \in Tokens
      BY ManagerAssumption
    <3>2. dx \in Nat /\ amount \in Nat
      BY <1>1 DEF Arguments
    <3> QED BY <2>1, <3>1, <3>2, BorrowVariableKept
  <2>2. ASSUME NEW m \in Markets, NEW dx \in Inputs["collateral"],
               NEW amount \in Inputs["stable"], BorrowStable(m[1], m[2], dx, amount)
        PROVE  CallKept
    <3>1. m[1] \in Tokens /\ m[2] \in Tokens
      BY ManagerAssumption
    <3>2. dx \in Nat /\ amount \in Nat
      BY <1>1 DEF Arguments
    <3> QED BY <2>2, <3>1, <3>2, BorrowStableKept
  <2>3. ASSUME NEW i \in Pledged, NEW amount \in Inputs["extend"],
               ExtendVariable(i, amount) \/ ExtendStable(i, amount)
        PROVE  CallKept
    <3>1. amount \in Nat
      BY <1>1 DEF Arguments
    <3> QED BY <2>3, <3>1, ExtendVariableKept, ExtendStableKept
  <2> QED BY <2>1, <2>2, <2>3 DEF LoanStep
<1>4. CollateralStep => CallKept
  <2>1. ASSUME NEW i \in Pledged, NEW n \in Inputs["withdraw_collateral"],
               WithdrawCollateral(i, n)
        PROVE  CallKept
    BY <1>1, <2>1, WithdrawCollateralKept DEF Arguments
  <2>2. ASSUME NEW i \in Pledged, NEW n \in Inputs["addition_dx"], AddCollateralDx(i, n)
        PROVE  CallKept
    BY <1>1, <2>2, AddCollateralDxKept DEF Arguments
  <2>3. ASSUME NEW i \in Pledged, NEW n \in Inputs["addition"], AddCollateral(i, n)
        PROVE  CallKept
    BY <1>1, <2>3, AddCollateralKept DEF Arguments
  <2> QED BY <2>1, <2>2, <2>3 DEF CollateralStep
<1>5. RepayStep => CallKept
  <2>1. ASSUME NEW i \in Live, NEW n \in Inputs["repay"], Repay(i, n)
        PROVE  CallKept
    BY <2>1, RepayKept
  <2>2. ASSUME NEW i \in Pledged, NEW n \in Inputs["repay"], NEW cover \in Inputs["cover"],
               NEW bp \in Quotes(cdps[i].borrow_token),
               NEW cp \in Quotes(cdps[i].collateral_token),
               Liquidation(i, n, cover, bp, cp)
        PROVE  CallKept
    BY <2>2, LiquidationKept
  <2> QED BY <2>1, <2>2 DEF RepayStep
<1>6. StakingStep => CallKept
  <2>1. ASSUME NEW claim \in Inputs["claim"], NEW amount \in Inputs["principal"],
               StakingBorrow(amount, InterestRate(pools[XRD], Env(XRD), claim).stable, claim)
        PROVE  CallKept
    <3>1. claim \in Nat /\ amount \in Nat
      BY <1>1 DEF Arguments
    <3>2. InterestRate(pools[XRD], Env(XRD), claim).stable \in Nat
      BY <3>1, ManagerAssumption, PoolGrows, InterestRateNat
    <3> QED BY <2>1, <3>1, <3>2, StakingBorrowKept
  <2>2. ASSUME NEW i \in cdp_vault, NEW n \in Inputs["claim"], StakingRepay(i, n)
        PROVE  CallKept
    BY <2>2, StakingRepayKept
  <2> QED BY <2>1, <2>2 DEF StakingStep
<1>7. PoolStep => CallKept
  <2>1. ASSUME NEW t \in Tokens, NEW n \in Inputs["flashloan"], BorrowFlashloan(t, n)
        PROVE  CallKept
    BY <1>1, <2>1, BorrowFlashloanKept DEF Arguments
  <2>2. ASSUME NEW t \in Tokens, NEW n \in Inputs["insurance"], WithdrawInsurance(t, n)
        PROVE  CallKept
    BY <1>1, <2>2, WithdrawInsuranceKept DEF Arguments
  <2> QED BY <2>1, <2>2, RepayFlashloanKept, SetCloseFactorKept DEF PoolStep
<1>8. WorldStep => CallKept \/ TimePasses
  <2>1. ASSUME NEW n \in Inputs["epochs"], Tick(n)
        PROVE  CallKept \/ TimePasses
    BY <1>1, <2>1, TickKept DEF Arguments
  <2> QED BY <2>1, PriceMoveKept DEF WorldStep
<1> QED BY <1>2, <1>3, <1>4, <1>5, <1>6, <1>7, <1>8, StutterKept DEF Next

LEMMA GrowthHolds ==
  ASSUME Prudence
  PROVE  Spec => ([]RatesKnown => []Growth)
<1>1. IInv /\ IInv' /\ RatesKnown' /\ Growth /\ [Next]_vars => Growth'
  BY NextKept DEF CallKept, TimePasses
<1> QED BY <1>1, InitGrowth, InvariantHolds, PTL DEF Spec

\* What a step means for the properties, whoever made it.
LEMMA StepKept ==
  ASSUME Prudence
  PROVE  Spec => ([]RatesKnown => [][CallKept \/ TimePasses]_vars)
<1>1. IInv /\ IInv' /\ RatesKnown' /\ Growth /\ [Next]_vars => [CallKept \/ TimePasses]_vars
  BY NextKept
<1> QED BY <1>1, GrowthHolds, InvariantHolds, PTL DEF Spec

\* What CDP i has borrowed and not paid is its debt, or less.
LEMMA UnpaidOwed ==
  ASSUME IInv, Growth, NEW i \in Ids
  PROVE  LET unpaid == cdps[i].total_borrow - cdps[i].total_repay
         IN  IF cdps[i].is_stable THEN unpaid <= Debt(i)
             ELSE (unpaid - Debt(i) - 1) * ONE <= ops * pools[cdps[i].borrow_token].loan_index
<1> DEFINE cdp == cdps[i]
           b   == cdp.borrow_token
           e   == Env(b)
           w   == cdp.total_borrow
           r   == cdp.total_repay
           d   == Debt(i)
<1>1. /\ b \in Tokens /\ w \in Int /\ r \in Int /\ cdp.borrow_amount \in Nat
      /\ cdp.stable_rate \in Nat /\ cdp.normalized_borrow \in Nat
      /\ cdp.last_update_epoch \in Nat /\ cdp.last_update_epoch <= epoch /\ epoch \in Nat
      /\ e.now = epoch
  BY RepaidArguments
<1>2. d \in Int /\ ops \in Nat /\ ONE \in Nat \ {0}
  BY DebtType, DecimalsAssumption DEF IInv, Frame
<1>3. Accounted(cdp, pools[b], ops)
  BY DEF Growth
<1>4. CASE cdp.is_stable
  <2> DEFINE grown == CompoundInterest(cdp.borrow_amount, cdp.stable_rate,
                                       epoch - cdp.last_update_epoch)
  <2>1. epoch - cdp.last_update_epoch \in Nat
    BY <1>1
  <2>2. grown \in Nat /\ grown >= cdp.borrow_amount
    BY <1>1, <2>1, CompoundInterestGrows
  <2>3. d = cdp.borrow_amount + (grown - cdp.borrow_amount)
    BY <1>1, <1>4, DebtNow DEF DebtOf, StableInterest
  <2> HIDE DEF grown, d
  <2>4. w <= r + cdp.borrow_amount
    BY <1>3, <1>4 DEF Accounted
  <2>5. w - r <= d
    BY <1>1, <2>2, <2>3, <2>4
  <2> QED BY <1>4, <2>5 DEF d
<1>5. CASE ~cdp.is_stable
  <2> DEFINE s == cdp.normalized_borrow
             K == pools[b].loan_index
             L == LoanIndex(pools[b], e)
  <2>1. /\ e \in Environment /\ Sound(pools[b], e) /\ Growing(pools[b])
    BY <1>1, PoolSound, EnvType DEF IInv, Books, Growth
  <2>2. L \in Nat /\ L >= K /\ K \in Nat
    <3>1. K \in Int /\ K >= ONE
      BY <2>1 DEF Sound, Pool, Growing
    <3> QED BY <1>2, <2>1, <3>1, IndicesGrow
  <2>3. d = DMul(s, L)
    BY <1>5, DebtNow DEF DebtOf
  <2>4. r * ONE + (s + ops) * K >= w * ONE
    BY <1>3, <1>5 DEF Accounted
  <2> HIDE DEF s, K, L, d, w, r
  <2>5. s \in Nat /\ s * L \in Nat /\ s * K \in Nat /\ ops * K \in Nat /\ s * K <= s * L
    <3>1. s \in Nat
      BY <1>1 DEF s
    <3>2. K * s <= L * s
      BY <2>2, <3>1, TimesMonotone
    <3>3. K * s = s * K /\ L * s = s * L
      BY <2>2, <3>1
    <3> QED BY <1>2, <2>2, <3>1, <3>2, <3>3
  <2>6. s * L < d * ONE + ONE
    BY <2>2, <2>3, <2>5, DMulBounds
  <2>7. (s + ops) * K = s * K + ops * K
    BY <1>2, <2>2, <2>5
  <2>8. (w - r - d - 1) * ONE = w * ONE - r * ONE - d * ONE - ONE
    BY <1>1, <1>2 DEF w, r
  <2>9. w * ONE \in Int /\ r * ONE \in Int /\ d * ONE \in Int
    BY <1>1, <1>2 DEF w, r
  <2>10. (w - r - d - 1) * ONE <= ops * K
    <3> DEFINE wO == w * ONE
               rO == r * ONE
               dO == d * ONE
               sK == s * K
               oK == ops * K
               sL == s * L
    <3>1. /\ rO + (sK + oK) >= wO /\ sK <= sL /\ sL < dO + ONE
          /\ wO \in Int /\ rO \in Int /\ dO \in Int /\ sK \in Int /\ oK \in Int /\ sL \in Int
          /\ (w - r - d - 1) * ONE = wO - rO - dO - ONE
      BY <2>4, <2>5, <2>6, <2>7, <2>8, <2>9
    <3> HIDE DEF wO, rO, dO, sK, oK, sL
    <3>2. wO - rO - dO - ONE <= oK
      BY <1>2, <3>1
    <3> QED BY <3>1, <3>2 DEF oK
  <2> QED BY <1>5, <2>10 DEF w, r, d, K
<1> QED BY <1>4, <1>5

-----------------------------------------------------------------------------
(* The properties *)

\* As long as nobody takes a stable loan there is no mean rate to go wrong.
THEOREM RatesWithoutStableLoans ==
  ASSUME Prudence
  PROVE  Spec => ([]NoStableLoans => []StableRatesNotNegative)
<1>1. NoStableLoans => RatesKnown
  BY DEF RatesKnown
<1>2. Growth => StableRatesNotNegative
  BY DEF Growth, Booked, StableRatesNotNegative
<1> QED BY <1>1, <1>2, GrowthHolds, PTL

\* Neither index of a pool ever falls, in whatever order deposits, loans,
\* repayments, liquidations and flash loans come and however long nobody calls.
THEOREM IndexMonotoneHolds ==
  ASSUME Prudence
  PROVE  Spec => ([]StableRatesNotNegative => IndexMonotone)
<1>1. StableRatesNotNegative => RatesKnown
  BY DEF RatesKnown
<1>2. ASSUME IInv, [CallKept \/ TimePasses]_vars
      PROVE  [\A t \in Tokens : /\ pools'[t].deposit_index >= pools[t].deposit_index
                                /\ pools'[t].loan_index >= pools[t].loan_index]_vars
  <2>1. CASE CallKept
    BY <2>1 DEF CallKept, PoolMoved, Grown
  <2>2. CASE TimePasses
    <3>1. \A t \in Tokens : pools[t].deposit_index \in Int /\ pools[t].loan_index \in Int
      BY <1>2 DEF IInv, Books, Pool
    <3> QED BY <2>2, <3>1 DEF TimePasses
  <2> QED BY <1>2, <2>1, <2>2
<1> QED BY <1>1, <1>2, StepKept, InvariantHolds, PTL DEF IndexMonotone

\* No call moves what borrowers owe or depositors have earned so far, but the
\* repayment of a stable loan, which sets the rates before the indices.
THEOREM NoRetroactiveInterestHolds ==
  ASSUME Prudence
  PROVE  Spec => ([]StableRatesNotNegative => NoRetroactiveInterest)
<1>1. StableRatesNotNegative => RatesKnown
  BY DEF RatesKnown
<1>2. ASSUME [CallKept \/ TimePasses]_vars
      PROVE  [epoch' = epoch => \A t \in Tokens : IndicesKept(t)]_vars
  BY <1>2 DEF CallKept, PoolMoved, TimePasses
<1> QED BY <1>1, <1>2, StepKept, PTL DEF NoRetroactiveInterest

\* No call takes more off a debt than was paid for it, whosever debt it is and
\* whatever else the call does.
THEOREM DebtFallsByPaymentHolds ==
  ASSUME Prudence
  PROVE  Spec => ([]StableRatesNotNegative => DebtFallsByPayment)
<1>1. StableRatesNotNegative => RatesKnown
  BY DEF RatesKnown
<1>2. ASSUME IInv, [CallKept \/ TimePasses]_vars
      PROVE  [epoch' = epoch => \A i \in Live : FallPaid(i)]_vars
  <2>1. Live \subseteq Ids
    BY <1>2 DEF Live, Pledged, IInv, Frame
  <2> QED BY <1>2, <2>1 DEF CallKept, Served, TimePasses
<1> QED BY <1>1, <1>2, StepKept, InvariantHolds, PTL DEF DebtFallsByPayment

\* Every payment but one of exactly the interest of a stable loan comes off the
\* debt, but for less than a unit of the token or of the loan shares.
THEOREM PaymentCreditedHolds ==
  ASSUME Prudence
  PROVE  Spec => ([]StableRatesNotNegative => PaymentCredited)
<1>1. StableRatesNotNegative => RatesKnown
  BY DEF RatesKnown
<1>2. ASSUME IInv, [CallKept \/ TimePasses]_vars
      PROVE  [\A i \in Ids : Paid(i) > 0 => Credited(i)]_vars
  <2>1. CASE CallKept
    BY <2>1 DEF CallKept, Served
  <2>2. ASSUME TimePasses, NEW i \in Ids PROVE Paid(i) = 0
    <3>1. cdps[i].total_repay \in Int
      BY <1>2, CdpKnown, CdpType DEF IInv
    <3> QED BY <2>2, <3>1 DEF TimePasses, Paid
  <2> QED BY <1>2, <2>1, <2>2
<1> QED BY <1>1, <1>2, StepKept, InvariantHolds, PTL DEF PaymentCredited

\* Whatever was borrowed and has not been paid is owed, at any time, in every CDP:
\* compounding, however it truncates, never takes a stable debt below its
\* principal, nor do the roundings of the calls take a variable debt further
\* below it than a loan share's worth for each and the last digit.
THEOREM UnpaidIsOwedHolds ==
  ASSUME Prudence
  PROVE  Spec => ([]StableRatesNotNegative => []UnpaidIsOwed)
<1>1. StableRatesNotNegative => RatesKnown
  BY DEF RatesKnown
<1>2. ASSUME IInv, Growth PROVE UnpaidIsOwed
  BY <1>2, UnpaidOwed DEF UnpaidIsOwed
<1> QED BY <1>1, <1>2, GrowthHolds, InvariantHolds, PTL

\* A variable CDP that has no loan shares left has paid all that it borrowed,
\* but for what each call may have rounded off: less than a loan share's worth.
THEOREM ClosedMeansPaidHolds ==
  ASSUME Prudence
  PROVE  Spec => ([]StableRatesNotNegative => []ClosedMeansPaid)
<1>1. StableRatesNotNegative => RatesKnown
  BY DEF RatesKnown
<1>2. ASSUME IInv, Growth PROVE ClosedMeansPaid
  <2> SUFFICES ASSUME NEW i \in Ids, ~cdps[i].is_stable, cdps[i].normalized_borrow = 0
               PROVE  (cdps[i].total_borrow - cdps[i].total_repay) * ONE
                        <= ops * pools[cdps[i].borrow_token].loan_index
    BY DEF ClosedMeansPaid
  <2> DEFINE w == cdps[i].total_borrow
             r == cdps[i].total_repay
             L == pools[cdps[i].borrow_token].loan_index
  <2>1. /\ w \in Int /\ r \in Int /\ cdps[i].borrow_token \in Tokens
        /\ ops \in Nat /\ ONE \in Nat
    BY <1>2, CdpKnown, CdpType, DecimalsAssumption DEF IInv, Frame
  <2>2. L \in Int
    BY <1>2, <2>1 DEF IInv, Books, Pool
  <2>3. r * ONE + (0 + ops) * L >= w * ONE
    BY <1>2 DEF Growth, Accounted
  <2> HIDE DEF w, r, L
  <2>4. (w - r) * ONE = w * ONE - r * ONE /\ 0 + ops = ops
    BY <2>1
  <2>5. w * ONE \in Int /\ r * ONE \in Int /\ ops * L \in Int
    BY <2>1, <2>2
  <2>6. (w - r) * ONE <= ops * L
    BY <2>3, <2>4, <2>5
  <2> QED BY <2>6 DEF w, r, L
<1> QED BY <1>1, <1>2, GrowthHolds, InvariantHolds, PTL

-----------------------------------------------------------------------------
(* Health *)

LEMMA DebtsNat ==
  ASSUME IInv, Growth, Prudence, NEW i \in Ids
  PROVE  /\ Debt(i) \in Nat /\ LiquidatedDebt(i) \in Nat /\ LiquidatedDebt(i) <= Debt(i)
         /\ ~cdps[i].is_stable => LiquidatedDebt(i) = Debt(i)
<1> DEFINE cdp      == cdps[i]
           b        == cdp.borrow_token
           e        == Env(b)
           loan     == cdp.borrow_amount
           rate     == cdp.stable_rate
           since    == cdp.last_update_epoch
           interest == StableInterest(e, loan, rate, since)
           shares   == cdp.normalized_borrow
           index    == LoanIndex(pools[b], e)
<1>1. /\ b \in Tokens /\ loan \in Nat /\ rate \in Nat /\ shares \in Nat
      /\ since \in Nat /\ since <= e.now
  BY RepaidArguments
<1>2. e \in Environment /\ Sound(pools[b], e) /\ Growing(pools[b])
  BY <1>1, PoolGrows
<1>3. interest \in Nat
  <2> HIDE DEF e, loan, rate, since
  <2>1. 0 \in Int
    OBVIOUS
  <2> QED BY ONLY <1>1, <1>2, <2>1, StableRepaymentBounds
<1>4. DMul(shares, index) \in Nat
  BY <1>1, <1>2, IndicesGrow, DMulNat
<1>5. Debt(i) = IF cdp.is_stable THEN loan + interest ELSE DMul(shares, index)
  BY DebtNow DEF DebtOf
<1>6. LiquidatedDebt(i) = IF cdp.is_stable THEN interest ELSE DMul(shares, index)
  BY Zenon DEF LiquidatedDebt
<1> HIDE DEF interest, loan, shares, index
<1> QED BY <1>1, <1>3, <1>4, <1>5, <1>6

LEMMA PledgedWorth ==
  ASSUME IInv, Growth, Prudence, NEW i \in Pledged
  PROVE  LET b == cdps[i].borrow_token
             c == cdps[i].collateral_token
         IN  /\ i \in Ids /\ b \in Tokens /\ c \in Tokens
             /\ price[b] \in Nat \ {0} /\ price[c] \in Nat \ {0}
             /\ cdps[i].collateral_amount \in Int /\ CollateralUnderlying(i) \in Int
             /\ Config[c].liquidation_threshold \in Nat /\ Config[c].ltv \in Nat
<1> DEFINE b  == cdps[i].borrow_token
           c  == cdps[i].collateral_token
           dx == cdps[i].collateral_amount
<1>1. i \in Ids /\ b \in Tokens /\ c \in Tokens /\ dx \in Int
  BY PledgedToken, CdpKnown, CdpType DEF IInv
<1>2. price[b] \in Nat \ {0} /\ price[c] \in Nat \ {0}
  BY <1>1 DEF IInv, Frame
<1>3. CollateralUnderlying(i) \in Int
  BY <1>1, PoolGrows, RedemptionValueType DEF CollateralUnderlying
<1>4. Config[c].liquidation_threshold \in Nat /\ Config[c].ltv \in Nat
  BY <1>1, EnvType DEF PoolConfig, IInv, Books
<1> QED BY <1>1, <1>2, <1>3, <1>4

\* A quote that is not 0 is the price.
LEMMA QuoteIsPrice ==
  ASSUME Growth, NEW t \in Tokens, NEW q \in Quotes(t), q # 0
  PROVE  q = price[t]
<1>1. CASE t = XRD
  BY <1>1, ManagerAssumption DEF Growth, Quotes
<1>2. CASE t # XRD
  BY <1>2 DEF Quotes
<1> QED BY <1>1, <1>2

LEMMA LiquidatedOutgrown ==
  ASSUME IInv, Growth, Prudence, NEW i \in Pledged,
         NEW bp \in Quotes(cdps[i].borrow_token), NEW cp \in Quotes(cdps[i].collateral_token),
         CanLiquidate(i, bp, cp)
  PROVE  Outgrown(i)
<1> DEFINE b     == cdps[i].borrow_token
           c     == cdps[i].collateral_token
           owed  == LiquidatedDebt(i)
           worth == DMul(CollateralUnderlying(i), price[c])
           N     == DMul(worth, Config[c].liquidation_threshold)
           D     == DMul(owed, price[b])
           V     == DMul(Debt(i), price[b])
<1>1. /\ i \in Ids /\ b \in Tokens /\ c \in Tokens
      /\ price[b] \in Nat \ {0} /\ price[c] \in Nat \ {0}
      /\ CollateralUnderlying(i) \in Int /\ Config[c].liquidation_threshold \in Nat
  BY PledgedWorth
<1>2. owed \in Nat /\ Debt(i) \in Nat /\ owed <= Debt(i)
  BY <1>1, DebtsNat
<1>3. DMul(owed, bp) # 0 /\ cp # 0 /\ HealthFactor(i, bp, cp) <= ONE
  BY DEF CanLiquidate
<1>4. bp = price[b] /\ cp = price[c]
  <2>1. bp # 0
    BY <1>2, <1>3, ValueAtZero
  <2> QED BY <1>1, <1>3, <2>1, QuoteIsPrice
<1>5. DDiv(N, D) <= ONE /\ D # 0
  BY <1>3, <1>4 DEF HealthFactor
<1>6. N \in Int
  <2> DEFINE U == CollateralUnderlying(i)  p == price[c]  h == Config[c].liquidation_threshold
  <2>1. U \in Int /\ p \in Int /\ h \in Int
    BY <1>1
  <2> HIDE DEF U, p, h
  <2>2. DMul(U, p) \in Int
    BY <2>1, DMulType
  <2>3. DMul(DMul(U, p), h) \in Int
    BY <2>1, <2>2, DMulType
  <2> QED BY <2>3 DEF U, p, h
<1>7. D \in Nat /\ V \in Nat /\ D <= V
  BY <1>1, <1>2, DMulNat, DMulMonotone
<1>8. Outgrown(i) <=> V * (ONE + 1) > N * ONE
  BY DEF Outgrown, DebtValue, CollateralValue
<1> HIDE DEF N, D, V
<1>9. N * ONE < D * (ONE + 1)
  BY <1>5, <1>6, <1>7, QuotientAtMostOne
<1>10. D * (ONE + 1) <= V * (ONE + 1)
  BY <1>7, DecimalsAssumption, TimesMonotone
<1>11. N * ONE \in Int /\ D * (ONE + 1) \in Int /\ V * (ONE + 1) \in Int
  BY <1>6, <1>7, DecimalsAssumption
<1> QED BY <1>8, <1>9, <1>10, <1>11

LEMMA UnhealthyCan ==
  ASSUME IInv, Growth, Prudence, NEW i \in Pledged, ~cdps[i].is_stable,
         CollateralUnderlying(i) > 0,
         DebtValue(i) > DMul(CollateralValue(i),
                             Config[cdps[i].collateral_token].liquidation_threshold)
  PROVE  CanLiquidate(i, price[cdps[i].borrow_token], price[cdps[i].collateral_token])
<1> DEFINE b     == cdps[i].borrow_token
           c     == cdps[i].collateral_token
           dx    == cdps[i].collateral_amount
           U     == CollateralUnderlying(i)
           S     == SupplyIndex(pools[c], Env(c))
           worth == DMul(U, price[c])
           N     == DMul(worth, Config[c].liquidation_threshold)
           D     == DMul(LiquidatedDebt(i), price[b])
<1>1. /\ i \in Ids /\ b \in Tokens /\ c \in Tokens
      /\ price[b] \in Nat \ {0} /\ price[c] \in Nat \ {0}
      /\ dx \in Int /\ U \in Int /\ Config[c].liquidation_threshold \in Nat
  BY PledgedWorth
<1>2. LiquidatedDebt(i) \in Nat /\ LiquidatedDebt(i) = Debt(i)
  BY <1>1, DebtsNat
<1>3. S \in Nat /\ S >= ONE
  BY <1>1, PoolGrows, IndicesGrow
<1>4. D > N
  BY <1>2 DEF DebtValue, CollateralValue
<1>5. D \in Nat /\ N \in Nat
  <2>1. U \in Nat /\ price[c] \in Nat
    BY <1>1
  <2>2. worth \in Nat
    BY <2>1, DMulNat
  <2>3. D \in Nat
    BY <1>1, <1>2, DMulNat
  <2> HIDE DEF worth
  <2> QED BY <1>1, <2>2, <2>3, DMulNat
<1>6. HealthFactor(i, price[b], price[c]) <= ONE /\ D # 0
  <2>1. HealthFactor(i, price[b], price[c]) = DDiv(N, D)
    BY DEF HealthFactor
  <2> HIDE DEF N, D
  <2>2. DDiv(N, D) <= ONE /\ D # 0
    BY <1>4, <1>5, QuotientAtMostOne
  <2> QED BY <2>1, <2>2
<1>7. U = DMul(dx, S)
  BY DEF CollateralUnderlying, RedemptionValue
<1> HIDE DEF dx, U, S
<1>8. dx \in Nat \ {0}
  <2> SUFFICES ASSUME dx <= 0 PROVE FALSE
    BY <1>1
  <2>1. DMul(dx, S) <= DMul(0, S)
    BY <1>1, <1>3, DMulOrder
  <2>2. DMul(0, S) = 0
    BY <1>3, DMulZero
  <2> QED BY <1>1, <1>7, <2>1, <2>2 DEF U
<1>9. DDiv(U, dx) # 0
  <2>1. U >= dx /\ U \in Nat
    BY <1>3, <1>7, <1>8, DMulGrows, DMulNat
  <2>2. /\ DDiv(U, dx) \in Nat /\ U * ONE < DDiv(U, dx) * dx + dx
    BY <1>8, <2>1, DDivBounds
  <2>3. dx * ONE <= U * ONE /\ dx * ONE \in Int /\ U * ONE \in Int
    BY <1>8, <2>1, DecimalsAssumption, TimesMonotone
  <2>4. dx <= dx * ONE
    <3>1. 1 * dx <= ONE * dx
      BY <1>8, DecimalsAssumption, TimesMonotone
    <3>2. 1 * dx = dx /\ ONE * dx = dx * ONE
      BY <1>8, DecimalsAssumption
    <3> QED BY <3>1, <3>2
  <2> SUFFICES ASSUME DDiv(U, dx) = 0 PROVE FALSE
    OBVIOUS
  <2>5. U * ONE < 0 * dx + dx
    BY <2>2
  <2>6. 0 * dx = 0
    BY <1>8
  <2> QED BY <1>8, <2>3, <2>4, <2>5, <2>6
<1>10. price[b] > 0 /\ price[c] # 0 /\ dx # 0
  BY <1>1, <1>8
<1> QED BY <1>6, <1>9, <1>10 DEF CanLiquidate, dx, U

\* A variable CDP whose debt is worth more than the threshold of its collateral
\* can be liquidated, at the price of either token and whatever index its dx have.
THEOREM UnhealthyLiquidatableHolds ==
  ASSUME Prudence
  PROVE  Spec => ([]NoStableLoans => []UnhealthyLiquidatable)
<1>1. NoStableLoans => RatesKnown
  BY DEF RatesKnown
<1>2. ASSUME IInv, Growth, NoStableLoans PROVE UnhealthyLiquidatable
  BY <1>2, PledgedToken, UnhealthyCan DEF UnhealthyLiquidatable, NoStableLoans, IInv
<1> QED BY <1>1, <1>2, GrowthHolds, InvariantHolds, PTL

-----------------------------------------------------------------------------
(* Which call lets a CDP borrow more, and which sells its collateral *)

Extended(i) ==
  i \in Pledged /\ \E amount \in Inputs["extend"] :
                      ExtendVariable(i, amount) \/ ExtendStable(i, amount)

Sold(i) ==
  /\ i \in Pledged
  /\ \E bucket \in Inputs["repay"], cover \in Inputs["cover"] :
     \E bp \in Quotes(cdps[i].borrow_token), cp \in Quotes(cdps[i].collateral_token) :
        Liquidation(i, bucket, cover, bp, cp)

TakenOut(i) ==
  /\ i \in Pledged
  /\ \E amount \in Inputs["withdraw_collateral"] : WithdrawCollateral(i, amount)

Opened ==
  \/ \E m \in Markets, dx \in Inputs["collateral"], amount \in Inputs["variable"] :
        BorrowVariable(m[1], m[2], dx, amount)
  \/ ~NoStableLoans'

Traced(i) ==
  /\ cdps'[i].total_borrow = cdps[i].total_borrow \/ Extended(i)
  /\ \/ cdps'[i].total_repay = cdps[i].total_repay
     \/ cdps'[i].collateral_amount = cdps[i].collateral_amount
     \/ Sold(i)
  /\ cdps'[i].collateral_amount < cdps[i].collateral_amount => Sold(i) \/ TakenOut(i)

AllTraced == (Ids' = Ids \/ Opened) /\ \A i \in Ids : Traced(i)

LEMMA UntouchedTraced ==
  ASSUME IInv, cdps' = cdps
  PROVE  AllTraced
<1>1. \A i \in Ids : cdps[i].collateral_amount \in Int
  BY CdpKnown, CdpType DEF IInv
<1> QED BY <1>1 DEF AllTraced, Traced, Ids

LEMMA LongerTraced ==
  ASSUME IInv, NEW x, cdps' = Append(cdps, x), Opened
  PROVE  AllTraced
<1>1. \A i \in Ids : cdps'[i] = cdps[i]
  BY DEF IInv, Books, Ids
<1>2. ASSUME NEW i \in Ids PROVE Traced(i)
  <2>1. ~(cdps'[i].collateral_amount < cdps[i].collateral_amount)
    <3>1. cdps[i].collateral_amount \in Int
      BY CdpKnown, CdpType DEF IInv
    <3>2. cdps'[i].collateral_amount = cdps[i].collateral_amount
      BY <1>1
    <3> QED BY <3>1, <3>2
  <2> QED BY <1>1, <2>1 DEF Traced
<1> QED BY <1>2 DEF AllTraced

LEMMA ChangedTraced ==
  ASSUME IInv, NEW i \in Ids, NEW x, cdps' = [cdps EXCEPT ![i] = x],
         x.total_borrow = cdps[i].total_borrow \/ Extended(i),
         \/ x.total_repay = cdps[i].total_repay
         \/ x.collateral_amount = cdps[i].collateral_amount
         \/ Sold(i),
         x.collateral_amount < cdps[i].collateral_amount => Sold(i) \/ TakenOut(i)
  PROVE  AllTraced
<1>1. /\ Ids' = Ids /\ cdps'[i] = x /\ \A j \in Ids : j # i => cdps'[j] = cdps[j]
      /\ \A j \in Ids : cdps[j].collateral_amount \in Int
  BY CdpKnown, CdpType DEF IInv, Books, Ids
<1>2. ASSUME NEW j \in Ids PROVE Traced(j)
  <2>1. CASE j = i
    BY <1>1, <2>1 DEF Traced
  <2>2. CASE j # i
    BY <1>1, <2>2 DEF Traced
  <2> QED BY <2>1, <2>2
<1> QED BY <1>1, <1>2 DEF AllTraced

LEMMA LoansTraced ==
  ASSUME IInv, LoanStep
  PROVE  AllTraced
<1>1. ASSUME NEW m \in Markets, NEW dx \in Inputs["collateral"],
             NEW amount \in Inputs["variable"], BorrowVariable(m[1], m[2], dx, amount)
      PROVE  AllTraced
  <2> DEFINE x == NewCdp(m[1], m[2], amount, dx,
                         SharesFor(pools[m[2]], Env(m[2]), amount), 0, FALSE)
  <2>1. cdps' = Append(cdps, x)
    BY <1>1 DEF BorrowVariable
  <2>2. Opened
    BY <1>1 DEF Opened
  <2> HIDE DEF x
  <2> QED BY <2>1, <2>2, LongerTraced
<1>2. ASSUME NEW m \in Markets, NEW dx \in Inputs["collateral"],
             NEW amount \in Inputs["stable"], BorrowStable(m[1], m[2], dx, amount)
      PROVE  AllTraced
  <2> DEFINE rate == InterestRate(pools[m[2]], Env(m[2]), amount).stable
             x    == NewCdp(m[1], m[2], amount, dx, 0, rate, TRUE)
  <2>1. cdps' = Append(cdps, x)
    BY <1>2 DEF BorrowStable
  <2>2. x.is_stable
    BY DEF NewCdp
  <2> HIDE DEF x
  <2>3. Len(cdps) + 1 \in Ids' /\ cdps'[Len(cdps) + 1] = x
    BY <2>1 DEF IInv, Books, Ids
  <2>4. Opened
    BY <2>2, <2>3 DEF Opened, NoStableLoans
  <2> QED BY <2>1, <2>4, LongerTraced
<1>3. ASSUME NEW i \in Pledged, NEW amount \in Inputs["extend"], ExtendVariable(i, amount)
      PROVE  AllTraced
  <2> DEFINE cdp    == cdps[i]
             shares == SharesFor(pools[cdp.borrow_token], Env(cdp.borrow_token), amount)
             x      == [cdp EXCEPT !.total_borrow = @ + amount, !.borrow_amount = @ + amount,
                                   !.normalized_borrow = @ + shares]
  <2>1. i \in Ids /\ cdp \in CollateralDebtPosition /\ cdps \in Seq(CollateralDebtPosition)
    BY PledgedToken, CdpKnown DEF IInv, Books
  <2>2. cdps' = [cdps EXCEPT ![i].total_borrow = @ + amount, ![i].borrow_amount = @ + amount,
                             ![i].normalized_borrow = @ + shares]
    BY <1>3, Zenon DEF ExtendVariable
  <2> HIDE DEF shares
  <2>3. cdps' = [cdps EXCEPT ![i] = x]
    BY <2>1, <2>2 DEF Ids, CollateralDebtPosition
  <2>4. x.total_repay = cdp.total_repay /\ ~(x.collateral_amount < cdp.collateral_amount)
    <3>1. /\ x.total_repay = cdp.total_repay /\ x.collateral_amount = cdp.collateral_amount
          /\ cdp.collateral_amount \in Int
      BY <2>1, CdpType DEF CollateralDebtPosition
    <3> HIDE DEF x, cdp
    <3> QED BY <3>1
  <2>5. Extended(i)
    BY <1>3 DEF Extended
  <2> HIDE DEF x
  <2> QED BY <2>1, <2>3, <2>4, <2>5, ChangedTraced
<1>4. ASSUME NEW i \in Pledged, NEW amount \in Inputs["extend"], ExtendStable(i, amount)
      PROVE  AllTraced
  <2> DEFINE cdp      == cdps[i]
             b        == cdp.borrow_token
             interest == StableInterest(Env(b), cdp.borrow_amount, cdp.stable_rate,
                                        cdp.last_update_epoch)
             rate     == InterestRate(pools[b], Env(b), amount).stable
             mean     == WeightRate(cdp.borrow_amount + interest, cdp.stable_rate, amount, rate)
             x        == [cdp EXCEPT !.total_borrow = @ + amount,
                                     !.borrow_amount = @ + amount + interest,
                                     !.stable_rate = mean, !.last_update_epoch = epoch]
  <2>1. i \in Ids /\ cdp \in CollateralDebtPosition /\ cdps \in Seq(CollateralDebtPosition)
    BY PledgedToken, CdpKnown DEF IInv, Books
  <2>2. cdps' = [cdps EXCEPT ![i].total_borrow = @ + amount,
                             ![i].borrow_amount = @ + amount + interest,
                             ![i].stable_rate =
                                  WeightRate(cdp.borrow_amount + interest, @, amount, rate),
                             ![i].last_update_epoch = epoch]
    BY <1>4, Zenon DEF ExtendStable
  <2> HIDE DEF interest, rate
  <2>3. cdps' = [cdps EXCEPT ![i] = x]
    BY <2>1, <2>2 DEF Ids, CollateralDebtPosition
  <2>4. x.total_repay = cdp.total_repay /\ ~(x.collateral_amount < cdp.collateral_amount)
    <3>1. /\ x.total_repay = cdp.total_repay /\ x.collateral_amount = cdp.collateral_amount
          /\ cdp.collateral_amount \in Int
      BY <2>1, CdpType DEF CollateralDebtPosition
    <3> HIDE DEF x, cdp
    <3> QED BY <3>1
  <2>5. Extended(i)
    BY <1>4 DEF Extended
  <2> HIDE DEF x
  <2> QED BY <2>1, <2>3, <2>4, <2>5, ChangedTraced
<1> QED BY <1>1, <1>2, <1>3, <1>4 DEF LoanStep

LEMMA CollateralTraced ==
  ASSUME IInv, CollateralStep
  PROVE  AllTraced
<1>1. ASSUME NEW i \in Pledged, NEW dx
      PROVE  /\ Release(cdps[i], dx).total_borrow = cdps[i].total_borrow
             /\ Release(cdps[i], dx).total_repay = cdps[i].total_repay
             /\ WithCollateral(cdps[i], dx).total_borrow = cdps[i].total_borrow
             /\ WithCollateral(cdps[i], dx).total_repay = cdps[i].total_repay
             /\ dx \in Nat => ~(WithCollateral(cdps[i], dx).collateral_amount
                                   < cdps[i].collateral_amount)
             /\ i \in Ids
  <2>1. i \in Ids /\ cdps[i] \in CollateralDebtPosition
    BY PledgedToken, CdpKnown DEF IInv
  <2> QED BY <2>1 DEF Release, WithCollateral, CollateralDebtPosition
<1>2. ASSUME NEW i \in Pledged, NEW amount \in Inputs["withdraw_collateral"],
             WithdrawCollateral(i, amount)
      PROVE  AllTraced
  <2> DEFINE c     == cdps[i].collateral_token
             dx    == CeilTo(DDiv(amount, SupplyIndex(pools[c], Env(c))), Config[c].share_unit)
             x     == Release(cdps[i], dx)
  <2>1. cdps' = [cdps EXCEPT ![i] = x]
    BY <1>2, Zenon DEF WithdrawCollateral
  <2>2. x.total_borrow = cdps[i].total_borrow /\ x.total_repay = cdps[i].total_repay /\ i \in Ids
    BY <1>1
  <2>3. TakenOut(i)
    BY <1>2 DEF TakenOut
  <2> HIDE DEF x
  <2> QED BY <2>1, <2>2, <2>3, ChangedTraced
<1>3. ASSUME NEW i \in Pledged, NEW dx \in Inputs["addition_dx"], AddCollateralDx(i, dx)
      PROVE  AllTraced
  <2> DEFINE x == WithCollateral(cdps[i], dx)
  <2>1. cdps' = [cdps EXCEPT ![i] = x]
    BY <1>3, Zenon DEF AddCollateralDx
  <2>2. dx \in Nat
    BY ManagerAssumption DEF Arguments
  <2>3. /\ x.total_borrow = cdps[i].total_borrow /\ x.total_repay = cdps[i].total_repay
        /\ ~(x.collateral_amount < cdps[i].collateral_amount) /\ i \in Ids
    BY <1>1, <2>2
  <2> HIDE DEF x
  <2> QED BY <2>1, <2>3, ChangedTraced
<1>4. ASSUME NEW i \in Pledged, NEW amount \in Inputs["addition"], AddCollateral(i, amount)
      PROVE  AllTraced
  <2> DEFINE c  == cdps[i].collateral_token
             dx == MintedDx(pools[c], Env(c), amount)
             x  == WithCollateral(cdps[i], dx)
  <2>1. cdps' = [cdps EXCEPT ![i] = x]
    BY <1>4, Zenon DEF AddCollateral
  <2>2. dx \in Nat
    <3>1. CanAddLiquidity(pools[c], Env(c), amount)
      BY <1>4, Zenon DEF AddCollateral
    <3>2. amount \in Nat
      BY ManagerAssumption DEF Arguments
    <3>3. Sound(pools[c], Env(c)) /\ Env(c) \in Environment
      BY PledgedToken, PoolSound DEF IInv
    <3> QED BY <3>1, <3>2, <3>3, AddLiquiditySound
  <2>3. /\ x.total_borrow = cdps[i].total_borrow /\ x.total_repay = cdps[i].total_repay
        /\ ~(x.collateral_amount < cdps[i].collateral_amount) /\ i \in Ids
    BY <1>1, <2>2
  <2> HIDE DEF x
  <2> QED BY <2>1, <2>3, ChangedTraced
<1> QED BY <1>2, <1>3, <1>4 DEF CollateralStep

LEMMA RepaysTraced ==
  ASSUME IInv, RepayStep
  PROVE  AllTraced
<1>1. ASSUME NEW i \in Ids, NEW bucket, NEW limit
      PROVE  /\ CdpRepaid(i, bucket, limit).total_borrow = cdps[i].total_borrow
             /\ CdpRepaid(i, bucket, limit).collateral_amount = cdps[i].collateral_amount
             /\ DOMAIN CdpRepaid(i, bucket, limit) = DOMAIN cdps[i]
  <2>1. cdps[i] \in CollateralDebtPosition
    BY CdpKnown DEF IInv
  <2> DEFINE paid   == Payment(i, bucket, limit)
             b      == cdps[i].borrow_token
             borrow == RepayInBorrow(Env(b), bucket, cdps[i].borrow_amount,
                                     cdps[i].stable_rate, cdps[i].last_update_epoch, limit)
             shares == SharesRepaid(pools[b], Env(b), paid, cdps[i].normalized_borrow)
  <2>2. CdpRepaid(i, bucket, limit) =
          IF cdps[i].is_stable THEN AfterStableRepay(cdps[i], paid, borrow)
          ELSE AfterVariableRepay(cdps[i], paid, shares)
    BY Zenon DEF CdpRepaid
  <2> HIDE DEF paid, borrow, shares
  <2> QED BY <2>1, <2>2 DEF AfterStableRepay, AfterVariableRepay, CollateralDebtPosition
<1>2. ASSUME NEW i \in Live, NEW bucket \in Inputs["repay"], Repay(i, bucket)
      PROVE  AllTraced
  <2> DEFINE x == CdpRepaid(i, bucket, bucket)
  <2>1. cdps' = [cdps EXCEPT ![i] = x]
    BY <1>2, Zenon DEF Repay
  <2>2. i \in Ids /\ cdps[i].collateral_amount \in Int
    BY CdpKnown, CdpType DEF Live, Pledged, IInv, Frame
  <2>3. /\ x.total_borrow = cdps[i].total_borrow
        /\ x.collateral_amount = cdps[i].collateral_amount
    BY <1>1, <2>2
  <2> HIDE DEF x
  <2>4. ~(x.collateral_amount < cdps[i].collateral_amount)
    BY <2>2, <2>3
  <2> QED BY <2>1, <2>2, <2>3, <2>4, ChangedTraced
<1>3. ASSUME NEW i \in Pledged, NEW bucket \in Inputs["repay"], NEW cover \in Inputs["cover"],
             NEW bp \in Quotes(cdps[i].borrow_token), NEW cp \in Quotes(cdps[i].collateral_token),
             Liquidation(i, bucket, cover, bp, cp)
      PROVE  AllTraced
  <2> DEFINE terms == LiquidationTerms(i, cover, bp, cp)
             y     == CdpRepaid(i, bucket, terms.debt)
             x     == Release(y, terms.dx)
  <2>1. cdps' = [cdps EXCEPT ![i] = x]
    BY <1>3, Zenon DEF Liquidation
  <2>2. i \in Ids
    BY DEF Pledged
  <2>3. Sold(i)
    BY <1>3 DEF Sold
  <2>4. y.total_borrow = cdps[i].total_borrow /\ DOMAIN y = DOMAIN cdps[i]
    BY <1>1, <2>2
  <2>5. cdps[i] \in CollateralDebtPosition
    BY <2>2, CdpKnown DEF IInv
  <2> HIDE DEF y, terms
  <2>6. x.total_borrow = y.total_borrow
    BY <2>4, <2>5 DEF Release, CollateralDebtPosition
  <2> HIDE DEF x
  <2> QED BY <2>1, <2>2, <2>3, <2>4, <2>6, ChangedTraced
<1> QED BY <1>2, <1>3 DEF RepayStep

LEMMA NextTraced ==
  ASSUME IInv, [Next]_vars
  PROVE  AllTraced
<1>1. DepositStep \/ PoolStep \/ WorldStep \/ UNCHANGED vars => cdps' = cdps
  BY DEF DepositStep, Supply, Withdraw, PoolStep, BorrowFlashloan, WithdrawInsurance,
         RepayFlashloan, SetCloseFactor, WorldStep, Tick, PriceMove, OnlyPools, vars
<1>2. ASSUME StakingStep PROVE AllTraced
  <2>1. ASSUME NEW amount, NEW rate, NEW claim, StakingBorrow(amount, rate, claim)
        PROVE  AllTraced
    <3> DEFINE x == NewCdp(NoDx, XRD, amount, claim, 0, rate, TRUE)
    <3>1. cdps' = Append(cdps, x)
      BY <2>1 DEF StakingBorrow
    <3>2. x.is_stable
      BY DEF NewCdp
    <3> HIDE DEF x
    <3>3. Len(cdps) + 1 \in Ids' /\ cdps'[Len(cdps) + 1] = x
      BY <3>1 DEF IInv, Books, Ids
    <3>4. Opened
      BY <3>2, <3>3 DEF Opened, NoStableLoans
    <3> QED BY <3>1, <3>4, LongerTraced
  <2>2. ASSUME NEW i, NEW bucket, StakingRepay(i, bucket)
        PROVE  AllTraced
    BY <2>2, UntouchedTraced DEF StakingRepay
  <2> QED BY <1>2, <2>1, <2>2 DEF StakingStep
<1> QED BY <1>1, <1>2, UntouchedTraced, LoansTraced, CollateralTraced, RepaysTraced DEF Next

\* Nobody's collateral is sold unless its debt has outgrown the liquidation
\* threshold: no other call, and no other liquidation, can have done it.
THEOREM OnlyUnhealthyLiquidatedHolds ==
  ASSUME Prudence
  PROVE  Spec => ([]StableRatesNotNegative => OnlyUnhealthyLiquidated)
<1>1. StableRatesNotNegative => RatesKnown
  BY DEF RatesKnown
<1>2. ASSUME IInv, Growth, [Next]_vars
      PROVE  [\A i \in Pledged : Liquidated(i) => Outgrown(i)]_vars
  <2> SUFFICES ASSUME NEW i \in Pledged, Liquidated(i)
               PROVE  Outgrown(i)
    OBVIOUS
  <2>1. i \in Ids /\ cdps[i].total_repay \in Int /\ cdps[i].collateral_amount \in Int
    BY <1>2, PledgedToken, CdpKnown, CdpType DEF IInv
  <2>2. Traced(i)
    BY <1>2, <2>1, NextTraced DEF AllTraced
  <2>3. Sold(i)
    BY <2>1, <2>2 DEF Traced, Liquidated, Paid
  <2>4. PICK bucket \in Inputs["repay"], cover \in Inputs["cover"],
             bp \in Quotes(cdps[i].borrow_token), cp \in Quotes(cdps[i].collateral_token) :
                Liquidation(i, bucket, cover, bp, cp)
    BY <2>3 DEF Sold
  <2>5. CanLiquidate(i, bp, cp)
    BY <2>4, Zenon DEF Liquidation, CanSell
  <2> QED BY <1>2, <2>5, LiquidatedOutgrown
<1> QED BY <1>1, <1>2, GrowthHolds, InvariantHolds, PTL DEF Spec, OnlyUnhealthyLiquidated

-----------------------------------------------------------------------------
(* The loan-to-value ratio *)

\* Where nobody has a stable loan, no call moves a loan index.
LEMMA IndicesHold ==
  ASSUME IInv, IInv', NoStableLoans, epoch' = epoch, NEW t \in Tokens, PoolMoved(t)
  PROVE  /\ LoanIndex(pools'[t], Env(t)) = LoanIndex(pools[t], Env(t))
         /\ SupplyIndex(pools'[t], Env(t)) \in Int
         /\ SupplyIndex(pools[t], Env(t)) \in Int
         /\ SupplyIndex(pools'[t], Env(t)) >= SupplyIndex(pools[t], Env(t))
<1> DEFINE L == LoanIndex(pools[t], Env(t))    K == LoanIndex(pools'[t], Env(t))
           S == SupplyIndex(pools[t], Env(t))  T == SupplyIndex(pools'[t], Env(t))
<1>1. ~StableRepayment(t)
  <2>1. Live \subseteq Ids
    BY DEF Live, Pledged, IInv, Frame
  <2> QED BY <2>1 DEF StableRepayment, NoStableLoans
<1>2. S \in Int /\ T \in Int
  <2>1. Env(t) \in Environment /\ Env(t).now = epoch
    BY EnvType DEF IInv, Books
  <2>2. Sound(pools[t], Env(t)) /\ Sound(pools'[t], Env(t))
    BY <2>1 DEF IInv, Books, NotInFuture, Sound
  <2> QED BY <2>1, <2>2, IndexType
<1>3. IndicesKept(t)
  BY DEF PoolMoved
<1>4. K = L /\ (T = S \/ T > S)
  BY <1>1, <1>3, IndicesNext DEF IndicesKept
<1> HIDE DEF L, K, S, T
<1>5. T >= S
  BY <1>2, <1>4
<1> QED BY <1>2, <1>4, <1>5 DEF K, L, S, T

\* WithinLtv of a variable CDP, given the pools and the prices.
LtvOf(y, Pb, Pc, eb, ec, pb, pc) ==
  LET owed    == DMul(y.normalized_borrow - (eb.cfg.share_unit - 1), LoanIndex(Pb, eb))
      pledged == DMul(y.collateral_amount + (ec.cfg.share_unit - 1), SupplyIndex(Pc, ec))
  IN  owed > 0 => DMul(owed, pb) <= DMul(DMul(pledged, pc), ec.cfg.ltv)

LEMMA WithinLtvNext ==
  ASSUME epoch' = epoch, NEW i, ~cdps'[i].is_stable, NEW b, b = cdps'[i].borrow_token,
         NEW c, c = cdps'[i].collateral_token,
         LET owed    == DMul(cdps'[i].normalized_borrow - (Config[b].share_unit - 1),
                             LoanIndex(pools'[b], Env(b)))
             pledged == DMul(cdps'[i].collateral_amount + (Config[c].share_unit - 1),
                             SupplyIndex(pools'[c], Env(c)))
         IN  owed > 0 =>
               DMul(owed, price'[b]) <= DMul(DMul(pledged, price'[c]), Config[c].ltv)
  PROVE  WithinLtv(i)'
<1> DEFINE own == cdps[i]
           nb  == own.borrow_token
           nc  == own.collateral_token
<1>1. ~(own.is_stable)' =>
        (WithinLtv(i)' <=> LtvOf(own, pools[nb], pools[nc], Env(nb), Env(nc),
                                 price[nb], price[nc])')
  BY Zenon DEF WithinLtv, LtvOf, RedemptionValue, Env
<1>2. WithinLtv(i)' <=> LtvOf(own, pools[nb], pools[nc], Env(nb), Env(nc),
                              price[nb], price[nc])'
  BY <1>1
<1>3. LtvOf(own, pools[nb], pools[nc], Env(nb), Env(nc), price[nb], price[nc])'
        <=> LtvOf(cdps'[i], pools'[b], pools'[c], Env(b), Env(c), price'[b], price'[c])
  BY DEF LtvOf, LoanIndex, SupplyIndex, Env
<1>4. LtvOf(cdps'[i], pools'[b], pools'[c], Env(b), Env(c), price'[b], price'[c])
  BY DEF LtvOf, Env
<1> QED BY <1>2, <1>3, <1>4

\* A debt of at most d, within the ratio of a, which the collateral is worth.
LEMMA LtvShown ==
  ASSUME IInv, IInv', Growth, Prudence, NoStableLoans, NoStableLoans',
         epoch' = epoch, price' = price, \A t \in Tokens : PoolMoved(t),
         NEW i, i \in Pledged', NEW b, b = cdps'[i].borrow_token,
         NEW c, c = cdps'[i].collateral_token,
         NEW d \in Int, NEW a \in Int,
         DMul(cdps'[i].normalized_borrow - (Config[b].share_unit - 1),
              LoanIndex(pools[b], Env(b))) <= d,
         a <= DMul(cdps'[i].collateral_amount + (Config[c].share_unit - 1),
                   SupplyIndex(pools[c], Env(c))),
         d <= FloorTo(DDiv(DMul(DMul(price[c], a), Config[c].ltv), price[b]), Unit(b))
  PROVE  WithinLtv(i)'
<1> DEFINE y    == cdps'[i]
           n    == y.normalized_borrow - (Config[b].share_unit - 1)
           k    == y.collateral_amount + (Config[c].share_unit - 1)
           L    == LoanIndex(pools[b], Env(b))
           S    == SupplyIndex(pools[c], Env(c))
           T    == SupplyIndex(pools'[c], Env(c))
           pb   == price[b]
           pc   == price[c]
           ltv  == Config[c].ltv
           owed == DMul(n, L)
           W    == DMul(pc, a)
           V    == DMul(W, ltv)
<1>1. i \in Ids' /\ ~y.is_stable /\ y \in CollateralDebtPosition /\ c # NoDx
  <2>1. i \in Ids' /\ c # NoDx
    BY DEF Pledged
  <2> QED BY <2>1 DEF NoStableLoans, IInv, Books, Ids
<1>2. b \in Tokens /\ c \in Tokens /\ y.normalized_borrow \in Int /\ y.collateral_amount \in Int
  BY <1>1, CdpType
<1>3. /\ Config[b].share_unit \in Nat \ {0} /\ Config[c].share_unit \in Nat \ {0}
      /\ ltv \in Nat /\ Unit(b) \in Nat \ {0} /\ pb \in Nat \ {0} /\ pc \in Nat \ {0}
      /\ ltv \in Int /\ pb \in Int /\ pc \in Int
  <2>1. Config[b] \in PoolConfig /\ Config[c] \in PoolConfig
    BY <1>2, EnvType DEF IInv, Books
  <2>2. pb \in Nat \ {0} /\ pc \in Nat \ {0}
    BY <1>2 DEF IInv, Frame
  <2> QED BY <2>1, <2>2 DEF PoolConfig, Unit
<1>4. n \in Int /\ k \in Int
  BY <1>2, <1>3
<1>5. L \in Nat /\ S \in Nat
  BY <1>2, PoolGrows, IndicesGrow
<1>6. /\ LoanIndex(pools'[b], Env(b)) = L /\ T >= S /\ T \in Nat /\ T \in Int /\ S \in Int
  <2>1. LoanIndex(pools'[b], Env(b)) = L /\ T >= S /\ T \in Int /\ S \in Int
    BY <1>2, IndicesHold
  <2> QED BY <1>5, <2>1
<1>7. owed <= d /\ a <= DMul(k, S) /\ d <= FloorTo(DDiv(V, pb), Unit(b))
  OBVIOUS
<1> HIDE DEF n, k, L, S, T, pb, pc, ltv
<1>8. W \in Int /\ V \in Int /\ owed \in Int /\ W = DMul(a, pc)
  <2>1. W \in Int /\ W = DMul(a, pc)
    BY <1>3, DMulType, DMulCommutes
  <2>2. L \in Int
    BY <1>5
  <2> HIDE DEF W
  <2>3. owed \in Int
    BY <1>4, <2>2, DMulType
  <2>4. V \in Int
    BY <1>3, <2>1, DMulType
  <2> QED BY <2>1, <2>3, <2>4
<1> HIDE DEF W, V, owed
<1>9. ASSUME owed > 0
      PROVE  DMul(owed, pb) <= DMul(DMul(DMul(k, T), pc), ltv)
  <2>1. DDiv(V, pb) \in Int /\ d <= DDiv(V, pb)
    <3>1. DDiv(V, pb) \in Int
      BY <1>3, <1>8, DDivType
    <3> DEFINE q == DDiv(V, pb)  u == Unit(b)
    <3>2. q \in Int /\ u \in Nat \ {0} /\ d <= FloorTo(q, u)
      BY <1>3, <1>7, <3>1
    <3> HIDE DEF q, u
    <3>3. d <= q
      BY <3>2, FloorToBounds
    <3> QED BY <3>1, <3>3 DEF q
  <2>2. d \in Nat \ {0}
    BY <1>7, <1>8, <1>9
  <2>3. V > 0 /\ DMul(d, pb) <= V
    BY <1>3, <1>8, <2>1, <2>2, WorthOfQuotient
  <2>4. DMul(owed, pb) <= DMul(d, pb)
    BY <1>3, <1>7, <1>8, DMulOrder
  <2>5. W > 0
    <3> SUFFICES ASSUME W <= 0 PROVE FALSE
      BY <1>8
    <3>1. DMul(W, ltv) <= DMul(0, ltv) /\ DMul(0, ltv) = 0
      BY <1>3, <1>8, DMulOrder, DMulZero
    <3> QED BY <1>8, <2>3, <3>1 DEF V
  <2>6. a > 0
    <3> SUFFICES ASSUME a <= 0 PROVE FALSE
      OBVIOUS
    <3>1. DMul(a, pc) <= DMul(0, pc) /\ DMul(0, pc) = 0
      BY <1>3, DMulOrder, DMulZero
    <3> QED BY <1>8, <2>5, <3>1
  <2>7. DMul(k, S) \in Int /\ DMul(k, T) \in Int
    BY <1>4, <1>5, <1>6, DMulType
  <2>8. k \in Nat
    <3> SUFFICES ASSUME k <= 0 PROVE FALSE
      BY <1>4
    <3>1. DMul(k, S) <= DMul(0, S) /\ DMul(0, S) = 0
      BY <1>4, <1>5, DMulOrder, DMulZero
    <3> QED BY <1>7, <2>6, <2>7, <3>1
  <2>9. DMul(k, S) <= DMul(k, T)
    <3>1. DMul(S, k) <= DMul(T, k)
      BY <1>5, <1>6, <2>8, DMulMonotone
    <3> QED BY <1>4, <1>5, <1>6, <3>1, DMulCommutes
  <2> DEFINE pledged == DMul(k, T)   worth == DMul(pledged, pc)
  <2>10. a <= pledged /\ pledged \in Int
    BY <1>7, <2>7, <2>9
  <2> HIDE DEF pledged
  <2>11. W <= worth /\ worth \in Int
    BY <1>3, <1>8, <2>10, DMulOrder, DMulType
  <2> HIDE DEF worth
  <2>12. V <= DMul(worth, ltv) /\ DMul(worth, ltv) \in Int
    BY <1>3, <1>8, <2>11, DMulOrder, DMulType DEF V
  <2>13. DMul(owed, pb) \in Int /\ DMul(d, pb) \in Int
    BY <1>3, <1>8, DMulType
  <2>14. DMul(owed, pb) <= DMul(worth, ltv)
    BY <1>8, <2>3, <2>4, <2>12, <2>13
  <2> QED BY <2>14 DEF worth, pledged
<1>10. DMul(n, LoanIndex(pools'[b], Env(b))) > 0 =>
         DMul(DMul(n, LoanIndex(pools'[b], Env(b))), price'[b])
           <= DMul(DMul(DMul(k, T), price'[c]), ltv)
  BY <1>6, <1>9 DEF owed, pb, pc
<1> QED BY <1>1, <1>10, WithinLtvNext DEF n, k, T, ltv

LEMMA BorrowLtv ==
  ASSUME IInv, IInv', Growth, Prudence, NoStableLoans, NoStableLoans', CallKept,
         NEW c \in Tokens, NEW b \in Tokens, NEW dx \in Nat, NEW amount \in Nat,
         BorrowVariable(c, b, dx, amount), NEW i \in Pledged', i \notin Ids
  PROVE  WithinLtv(i)'
<1> DEFINE shares == SharesFor(pools[b], Env(b), amount)
           x      == NewCdp(c, b, amount, dx, shares, 0, FALSE)
           L      == LoanIndex(pools[b], Env(b))
           S      == SupplyIndex(pools[c], Env(c))
           su     == Config[b].share_unit
           sc     == Config[c].share_unit
           a      == DMul(dx, S) - 0
<1>1. /\ cdps' = Append(cdps, x) /\ epoch' = epoch /\ price' = price
      /\ amount <= MaxLoan(c, dx, b, 0)
  BY DEF BorrowVariable, PoolsAndCdps
<1>2. /\ x.borrow_token = b /\ x.collateral_token = c
      /\ x.normalized_borrow = shares /\ x.collateral_amount = dx
  BY DEF NewCdp
<1>4. /\ Env(b) \in Environment /\ Env(b).cfg = Config[b]
      /\ Sound(pools[b], Env(b)) /\ Growing(pools[b])
      /\ Sound(pools[c], Env(c)) /\ Growing(pools[c]) /\ Env(c) \in Environment
      /\ su \in Nat \ {0} /\ sc \in Nat \ {0}
  BY PoolGrows, EnvType DEF IInv, Books, PoolConfig
<1>5. L \in Nat /\ S \in Nat /\ S \in Int /\ L \in Int
  BY <1>4, IndicesGrow
<1>6. shares \in Nat /\ (shares - (su - 1)) * L <= amount * ONE
  BY <1>4, SharesForBounds
<1>7. amount <= FloorTo(DDiv(DMul(DMul(price[c], a), Config[c].ltv), price[b]), Unit(b))
  BY <1>1, Zenon DEF MaxLoan, RedemptionValue
<1> HIDE DEF shares, x, L, S, su, sc
<1>3. cdps'[i] = x
  BY <1>1 DEF IInv, Books, Ids, Pledged
<1>8. DMul(shares - (su - 1), L) <= amount
  <2> DEFINE n == 0   k == shares - (su - 1)
  <2>1. n \in Nat /\ k \in Int /\ k * L <= amount * ONE /\ n = 0
    BY <1>4, <1>6
  <2>2. n + k = k
    BY <2>1
  <2>3. DMul(n, L) = 0
    BY <1>5, DMulZero
  <2> HIDE DEF n, k
  <2>4. DMul(n + k, L) <= DMul(n, L) + amount
    BY <1>5, <2>1, DMulMore
  <2> QED BY <2>2, <2>3, <2>4 DEF k
<1>9. a \in Int /\ a <= DMul(dx + (sc - 1), S)
  <2>1. dx \in Int /\ dx + (sc - 1) \in Int /\ dx <= dx + (sc - 1)
    BY <1>4
  <2>2. DMul(dx, S) <= DMul(dx + (sc - 1), S) /\ DMul(dx, S) \in Int
    BY <1>5, <2>1, DMulOrder, DMulType
  <2> QED BY <2>2
<1> HIDE DEF a
<1>10. \A t \in Tokens : PoolMoved(t)
  BY DEF CallKept
<1>11. /\ DMul(cdps'[i].normalized_borrow - (su - 1), L) <= amount
       /\ a <= DMul(cdps'[i].collateral_amount + (sc - 1), S)
       /\ b = cdps'[i].borrow_token /\ c = cdps'[i].collateral_token
       /\ amount \in Int
  BY <1>2, <1>3, <1>8, <1>9
<1> QED BY <1>1, <1>7, <1>9, <1>10, <1>11, LtvShown DEF L, S, su, sc

LEMMA ExtendLtv ==
  ASSUME IInv, IInv', Growth, Prudence, NoStableLoans, NoStableLoans', CallKept,
         NEW i \in Pledged, i \in Pledged', NEW amount \in Nat, ExtendVariable(i, amount)
  PROVE  WithinLtv(i)'
<1> DEFINE cdp    == cdps[i]
           b      == cdp.borrow_token
           c      == cdp.collateral_token
           shares == SharesFor(pools[b], Env(b), amount)
           L      == LoanIndex(pools[b], Env(b))
           S      == SupplyIndex(pools[c], Env(c))
           su     == Config[b].share_unit
           sc     == Config[c].share_unit
           n      == cdp.normalized_borrow
           dx     == cdp.collateral_amount
           d      == DMul(n, L) + amount
           a      == DMul(dx, S) - 0
           most   == DDiv(DMul(DMul(price[c], a), Config[c].ltv), price[b])
           x      == [cdp EXCEPT !.total_borrow = @ + amount, !.borrow_amount = @ + amount,
                                 !.normalized_borrow = @ + shares]
<1>1. /\ i \in Ids /\ cdp \in CollateralDebtPosition /\ b \in Tokens /\ c \in Tokens
      /\ n \in Int /\ dx \in Int
  BY PledgedToken, CdpKnown, CdpType DEF IInv
<1>2. epoch' = epoch /\ price' = price /\ d < MaxLoan(c, dx, b, 0)
  BY Zenon DEF ExtendVariable, PoolsAndCdps
<1>3. cdps' = [cdps EXCEPT ![i] = x]
  BY <1>1 DEF ExtendVariable, IInv, Books, Ids
<1>5. /\ x.borrow_token = b /\ x.collateral_token = c
      /\ x.normalized_borrow = n + shares /\ x.collateral_amount = dx
  BY <1>1 DEF CollateralDebtPosition
<1>6. /\ Env(b) \in Environment /\ Env(b).cfg = Config[b]
      /\ Sound(pools[b], Env(b)) /\ Growing(pools[b])
      /\ Sound(pools[c], Env(c)) /\ Growing(pools[c]) /\ Env(c) \in Environment
      /\ su \in Nat \ {0} /\ sc \in Nat \ {0} /\ Unit(b) \in Nat \ {0}
  BY <1>1, PoolGrows, EnvType DEF IInv, Books, PoolConfig, Unit
<1>7. L \in Nat /\ S \in Nat /\ S \in Int /\ L \in Int /\ n \in Nat
  BY <1>1, <1>6, IndicesGrow DEF Growth, Owing
<1>8. shares \in Nat /\ (shares - (su - 1)) * L <= amount * ONE
  BY <1>6, SharesForBounds
<1>9. d < FloorTo(most, Unit(b))
  <2>1. MaxLoan(c, dx, b, 0) = FloorTo(most, Unit(b))
    BY Zenon DEF MaxLoan, RedemptionValue
  <2> QED BY <1>2, <2>1
<1>10. /\ price[b] \in Nat \ {0} /\ price[c] \in Int /\ Config[c].ltv \in Int
  <2>1. Config[c] \in PoolConfig
    BY <1>1, EnvType DEF IInv, Books
  <2> QED BY <1>1, <2>1 DEF IInv, Frame, PoolConfig
<1> HIDE DEF x
<1>4. cdps'[i] = x
  BY <1>1, <1>3 DEF IInv, Books, Ids
<1> HIDE DEF shares, L, S, su, sc, n, dx, most
<1>11. d \in Int /\ DMul((n + shares) - (su - 1), L) <= d
  <2> DEFINE k == shares - (su - 1)
  <2>1. k \in Int /\ k * L <= amount * ONE
    BY <1>6, <1>8
  <2>2. (n + shares) - (su - 1) = n + k
    BY <1>6, <1>7, <1>8
  <2>3. DMul(n, L) \in Int
    BY <1>7, DMulType
  <2> HIDE DEF k
  <2>4. DMul(n + k, L) <= DMul(n, L) + amount
    BY <1>7, <2>1, DMulMore
  <2> QED BY <2>2, <2>3, <2>4
<1>12. a \in Int /\ a <= DMul(dx + (sc - 1), S)
  <2>1. dx + (sc - 1) \in Int /\ dx <= dx + (sc - 1)
    BY <1>1, <1>6
  <2>2. DMul(dx, S) <= DMul(dx + (sc - 1), S) /\ DMul(dx, S) \in Int
    BY <1>1, <1>7, <2>1, DMulOrder, DMulType
  <2> QED BY <2>2
<1> HIDE DEF a
<1>13. d <= FloorTo(DDiv(DMul(DMul(price[c], a), Config[c].ltv), price[b]), Unit(b))
  <2>1. most \in Int
    <3>1. DMul(price[c], a) \in Int
      BY <1>10, <1>12, DMulType
    <3> DEFINE w == DMul(price[c], a)
    <3>2. DMul(w, Config[c].ltv) \in Int
      BY <1>10, <3>1, DMulType
    <3>3. price[b] \in Int /\ price[b] # 0
      BY <1>10
    <3> QED BY <3>2, <3>3, DDivType DEF most
  <2>2. FloorTo(most, Unit(b)) \in Int
    BY <1>6, <2>1, FloorToBounds
  <2>3. d <= FloorTo(most, Unit(b))
    BY <1>9, <1>11, <2>2
  <2> QED BY <2>3 DEF most
<1> HIDE DEF d
<1>14. /\ DMul(cdps'[i].normalized_borrow - (su - 1), L) <= d
       /\ a <= DMul(cdps'[i].collateral_amount + (sc - 1), S)
       /\ b = cdps'[i].borrow_token /\ c = cdps'[i].collateral_token
  BY <1>4, <1>5, <1>11, <1>12
<1>15. \A t \in Tokens : PoolMoved(t)
  BY DEF CallKept
<1> HIDE DEF cdp, b, c
<1> QED BY <1>1, <1>2, <1>11, <1>12, <1>13, <1>14, <1>15, LtvShown DEF L, S, su, sc

LEMMA WithdrawLtv ==
  ASSUME IInv, IInv', Growth, Prudence, NoStableLoans, NoStableLoans', CallKept,
         NEW i \in Pledged, i \in Pledged', NEW amount \in Nat, WithdrawCollateral(i, amount)
  PROVE  WithinLtv(i)'
<1> DEFINE cdp  == cdps[i]
           b    == cdp.borrow_token
           c    == cdp.collateral_token
           L    == LoanIndex(pools[b], Env(b))
           S    == SupplyIndex(pools[c], Env(c))
           su   == Config[b].share_unit
           sc   == Config[c].share_unit
           n    == cdp.normalized_borrow
           held == cdp.collateral_amount
           q    == DDiv(amount, S)
           dx   == CeilTo(q, sc)
           d    == DMul(n, L)
           a    == DMul(held, S) - amount
           x    == Release(cdp, dx)
<1>1. /\ i \in Ids /\ cdp \in CollateralDebtPosition /\ b \in Tokens /\ c \in Tokens
      /\ n \in Int /\ held \in Int
  BY PledgedToken, CdpKnown, CdpType DEF IInv
<1>2. /\ epoch' = epoch /\ price' = price /\ cdps' = [cdps EXCEPT ![i] = x]
      /\ MaxLoan(c, held, b, amount) >= d
  BY Zenon DEF WithdrawCollateral, PoolsAndCdps
<1>3. /\ x.borrow_token = b /\ x.collateral_token = c
      /\ x.normalized_borrow = n /\ x.collateral_amount = held - dx
  BY <1>1 DEF Release, CollateralDebtPosition
<1> HIDE DEF x
<1>4. cdps'[i] = x
  BY <1>1, <1>2 DEF IInv, Books, Ids
<1>5. /\ Env(b) \in Environment /\ Sound(pools[b], Env(b)) /\ Growing(pools[b])
      /\ Sound(pools[c], Env(c)) /\ Growing(pools[c]) /\ Env(c) \in Environment
      /\ su \in Nat \ {0} /\ sc \in Nat \ {0}
  BY <1>1, PoolGrows, EnvType DEF IInv, Books, PoolConfig
<1>6. L \in Nat /\ L \in Int /\ S \in Nat \ {0} /\ S \in Int /\ n \in Nat
  BY <1>1, <1>5, IndicesGrow, DecimalsAssumption DEF Growth, Owing
<1>7. FloorTo(DDiv(DMul(DMul(price[c], a), Config[c].ltv), price[b]), Unit(b)) >= d
  <2>1. MaxLoan(c, held, b, amount)
          = FloorTo(DDiv(DMul(DMul(price[c], a), Config[c].ltv), price[b]), Unit(b))
    BY Zenon DEF MaxLoan, RedemptionValue
  <2> QED BY <1>2, <2>1
<1> HIDE DEF L, S, su, sc, n, held
<1>8. d \in Int /\ DMul(n - (su - 1), L) <= d
  <2>1. n - (su - 1) \in Int /\ n - (su - 1) <= n
    BY <1>1, <1>5
  <2> QED BY <1>1, <1>6, <2>1, DMulOrder, DMulType
<1>9. a \in Int /\ a <= DMul((held - dx) + (sc - 1), S)
  <2>1. q \in Int
    BY <1>6, DDivType
  <2> HIDE DEF q
  <2>2. dx \in Int /\ dx < q + sc
    BY <1>5, <2>1, CeilToBounds
  <2> HIDE DEF dx
  <2> DEFINE k == (held - dx) + (sc - 1)
  <2>3. k \in Int /\ k >= held - q
    BY <1>1, <1>5, <2>1, <2>2
  <2> HIDE DEF k
  <2>4. DMul(k, S) >= DMul(held, S) - amount
    BY <1>1, <1>6, <2>3, DMulLess DEF q
  <2>5. DMul(k, S) \in Int /\ DMul(held, S) \in Int
    BY <1>1, <1>6, <2>3, DMulType
  <2> QED BY <2>4, <2>5 DEF k
<1> HIDE DEF a, d, dx
<1>10. d <= FloorTo(DDiv(DMul(DMul(price[c], a), Config[c].ltv), price[b]), Unit(b))
  <2> DEFINE w == DMul(DMul(price[c], a), Config[c].ltv)
             m == DDiv(w, price[b])
  <2>1. price[b] \in Nat \ {0} /\ price[c] \in Int /\ Config[c].ltv \in Int
        /\ Unit(b) \in Nat \ {0}
    <3>1. Config[c] \in PoolConfig /\ Config[b] \in PoolConfig
      BY <1>1, EnvType DEF IInv, Books
    <3> QED BY <1>1, <3>1 DEF IInv, Frame, PoolConfig, Unit
  <2>2. DMul(price[c], a) \in Int
    BY <1>9, <2>1, DMulType
  <2>3. w \in Int
    BY <2>1, <2>2, DMulType
  <2> HIDE DEF w
  <2>4. price[b] \in Int /\ price[b] # 0
    BY <2>1
  <2>5. m \in Int
    BY <2>3, <2>4, DDivType
  <2> HIDE DEF m
  <2>6. FloorTo(m, Unit(b)) \in Int
    BY <2>1, <2>5, FloorToBounds
  <2> QED BY <1>7, <1>8, <2>6 DEF m, w
<1>11. /\ DMul(cdps'[i].normalized_borrow - (su - 1), L) <= d
       /\ a <= DMul(cdps'[i].collateral_amount + (sc - 1), S)
       /\ b = cdps'[i].borrow_token /\ c = cdps'[i].collateral_token
  BY <1>3, <1>4, <1>8, <1>9
<1>12. \A t \in Tokens : PoolMoved(t)
  BY DEF CallKept
<1> HIDE DEF cdp, b, c
<1> QED BY <1>1, <1>2, <1>8, <1>9, <1>10, <1>11, <1>12, LtvShown DEF L, S, su, sc

\* Where nobody has a stable loan, the loan-to-value ratio holds of a position
\* after every step by which its owner borrows more or takes out collateral:
\* the guards count all of the debt, and what rounding and the removal from the
\* pool take off stays within a unit of shares and of dx.
THEOREM LtvRespectedHolds ==
  ASSUME Prudence
  PROVE  Spec => ([]NoStableLoans => LtvRespected)
<1>1. NoStableLoans => RatesKnown
  BY DEF RatesKnown
<1>2. ASSUME IInv, IInv', Growth, NoStableLoans, NoStableLoans', [Next]_vars,
             [CallKept \/ TimePasses]_vars
      PROVE  [\A i \in Pledged' : MoreAtRisk(i) => WithinLtv(i)']_vars
  <2> SUFFICES ASSUME vars' # vars, NEW i \in Pledged', MoreAtRisk(i)
               PROVE  WithinLtv(i)'
    OBVIOUS
  <2>1. ASSUME NEW a \in Arguments, NEW n \in Inputs[a] PROVE n \in Nat
    BY ManagerAssumption
  <2>2. AllTraced /\ Next
    BY <1>2, NextTraced
  <2>3. i \in Ids'
    BY DEF Pledged
  <2>4. CASE i \notin Ids
    <3>1. PICK m \in Markets, dx \in Inputs["collateral"], amount \in Inputs["variable"] :
             BorrowVariable(m[1], m[2], dx, amount)
      BY <1>2, <2>2, <2>3, <2>4 DEF AllTraced, Opened
    <3>2. m[1] \in Tokens /\ m[2] \in Tokens /\ dx \in Nat /\ amount \in Nat
      BY <2>1, ManagerAssumption DEF Arguments
    <3>3. CallKept
      <4>1. Len(cdps') = Len(cdps) + 1
        BY <3>1 DEF BorrowVariable, IInv, Books
      <4>2. Len(cdps) \in Nat
        BY <1>2 DEF IInv, Books
      <4> QED BY <1>2, <4>1, <4>2 DEF TimePasses
    <3> QED BY <1>2, <2>4, <3>1, <3>2, <3>3, BorrowLtv
  <2>5. CASE i \in Ids
    <3>1. /\ Pledged \subseteq Ids /\ ~cdps[i].is_stable
          /\ cdps[i].total_borrow \in Int /\ cdps[i].collateral_amount \in Int
      BY <1>2, <2>5, CdpKnown, CdpType DEF Pledged, NoStableLoans, IInv
    <3>2. CallKept
      <4>1. cdps' # cdps
        BY <2>5, <3>1 DEF MoreAtRisk
      <4> QED BY <1>2, <4>1 DEF TimePasses
    <3>3. CASE cdps'[i].total_borrow > cdps[i].total_borrow
      <4>1. Extended(i)
        BY <2>2, <2>5, <3>1, <3>3 DEF AllTraced, Traced
      <4>2. PICK amount \in Inputs["extend"] : ExtendVariable(i, amount)
        BY <3>1, <4>1, Zenon DEF Extended, ExtendStable
      <4>3. i \in Pledged /\ amount \in Nat
        BY <2>1, <4>1 DEF Extended, Arguments
      <4> QED BY <1>2, <3>2, <4>2, <4>3, ExtendLtv
    <3>4. CASE \E amount \in Inputs["withdraw_collateral"] : WithdrawCollateral(i, amount)
      <4>1. PICK amount \in Inputs["withdraw_collateral"] : WithdrawCollateral(i, amount)
        BY <3>4
      <4>2. amount \in Nat
        BY <2>1 DEF Arguments
      <4>3. i \in Pledged
        <5> DEFINE c  == cdps[i].collateral_token
                   dx == CeilTo(DDiv(amount, SupplyIndex(pools[c], Env(c))), Config[c].share_unit)
                   x  == Release(cdps[i], dx)
        <5>1. cdps' = [cdps EXCEPT ![i] = x]
          BY <4>1, Zenon DEF WithdrawCollateral
        <5>2. x.collateral_token = cdps[i].collateral_token
          BY <1>2, <2>5, CdpKnown DEF IInv, Release, CollateralDebtPosition
        <5> HIDE DEF x
        <5>3. cdps'[i] = x
          BY <1>2, <2>5, <5>1 DEF IInv, Books, Ids
        <5> QED BY <2>5, <5>2, <5>3 DEF Pledged
      <4> QED BY <1>2, <3>2, <4>1, <4>2, <4>3, WithdrawLtv
    <3> QED BY <2>5, <3>3, <3>4 DEF MoreAtRisk
  <2> QED BY <2>4, <2>5
<1> QED BY <1>1, <1>2, StepKept, GrowthHolds, InvariantHolds, PTL DEF Spec, LtvRespected

-----------------------------------------------------------------------------
(* Solvency *)

\* What the flash loans F, numbered up to n, hold of t.
LentOf(F, n, t) ==
  [k \in 1..n |-> IF \E f \in F : f.id = k /\ f.res_addr = t
                  THEN (CHOOSE f \in F : f.id = k).amount ELSE 0]

\* Each flash loan has a number of its own.
Numbered(F, n) ==
  \A f \in F : f.id \in 1..n /\ \A g \in F : g.id = f.id => g = f

LEMMA LentOfType ==
  ASSUME NEW F \in SUBSET FlashLoanData, NEW n \in Nat, NEW t
  PROVE  LentOf(F, n, t) \in Seq(Int) /\ Len(LentOf(F, n, t)) = n
<1> DEFINE s == LentOf(F, n, t)
<1>1. ASSUME NEW k \in 1..n PROVE s[k] \in Int
  <2>1. s[k] = IF \E f \in F : f.id = k /\ f.res_addr = t
               THEN (CHOOSE f \in F : f.id = k).amount ELSE 0
    BY DEF LentOf
  <2>2. (\E f \in F : f.id = k) => (CHOOSE f \in F : f.id = k) \in F
    OBVIOUS
  <2>3. \A f \in F : f.amount \in Int
    BY DEF FlashLoanData
  <2> QED BY <2>1, <2>2, <2>3
<1>2. s = [k \in 1..n |-> s[k]]
  BY DEF LentOf
<1> HIDE DEF s
<1>3. s \in [1..n -> Int]
  BY <1>1, <1>2
<1> QED BY <1>3, IntSequence DEF s

LEMMA LentOfAt ==
  ASSUME NEW F, NEW n \in Nat, NEW t, NEW k \in 1..n
  PROVE  /\ (\A f \in F : f.id = k => f.res_addr # t) => LentOf(F, n, t)[k] = 0
         /\ \A f \in F : /\ f.id = k /\ f.res_addr = t
                         /\ \A g \in F : g.id = k => g = f
                         => LentOf(F, n, t)[k] = f.amount
<1>1. LentOf(F, n, t)[k] = IF \E f \in F : f.id = k /\ f.res_addr = t
                           THEN (CHOOSE f \in F : f.id = k).amount ELSE 0
  BY DEF LentOf
<1>2. ASSUME NEW f \in F, f.id = k, f.res_addr = t, \A g \in F : g.id = k => g = f
      PROVE  LentOf(F, n, t)[k] = f.amount
  <2>1. (CHOOSE g \in F : g.id = k) \in F /\ (CHOOSE g \in F : g.id = k).id = k
    BY <1>2
  <2>2. (CHOOSE g \in F : g.id = k) = f
    BY <1>2, <2>1
  <2> QED BY <1>1, <1>2, <2>2
<1> QED BY <1>1, <1>2

LEMMA LentOfOne ==
  ASSUME NEW F, NEW n \in Nat, NEW t, NEW k \in 1..n, NEW f \in F, f.id = k,
         \A g \in F : g.id = k => g = f
  PROVE  LentOf(F, n, t)[k] = IF f.res_addr = t THEN f.amount ELSE 0
<1>1. CASE f.res_addr = t
  BY <1>1, LentOfAt
<1>2. CASE f.res_addr # t
  <2>1. \A g \in F : g.id = k => g.res_addr # t
    BY <1>2
  <2> QED BY <1>2, <2>1, LentOfAt
<1> QED BY <1>1, <1>2

\* A number that is the same loan's in F and in G holds the same in both.
LEMMA LentOfSame ==
  ASSUME NEW F, NEW G, NEW n \in Nat, NEW m \in Nat, NEW t, NEW k \in 1..n, k \in 1..m,
         Numbered(F, n), Numbered(G, m),
         \A f : f.id = k => (f \in F <=> f \in G)
  PROVE  LentOf(F, n, t)[k] = LentOf(G, m, t)[k]
<1>1. CASE \A f \in F : f.id = k => f.res_addr # t
  <2>1. \A f \in G : f.id = k => f.res_addr # t
    BY <1>1
  <2> QED BY <1>1, <2>1, LentOfAt
<1>2. CASE \E f \in F : f.id = k /\ f.res_addr = t
  <2>1. PICK f \in F : f.id = k /\ f.res_addr = t
    BY <1>2
  <2>2. \A g \in F : g.id = k => g = f
    BY <2>1 DEF Numbered
  <2>3. f \in G /\ \A g \in G : g.id = k => g = f
    BY <2>1, <2>2
  <2> QED BY <2>1, <2>2, <2>3, LentOfAt
<1> QED BY <1>1, <1>2

LEMMA LentOneMore ==
  ASSUME NEW F \in SUBSET FlashLoanData, NEW n \in Nat, Numbered(F, n),
         NEW f \in FlashLoanData, f.id = n + 1, NEW t
  PROVE  LET G == F \cup {f}
         IN  /\ Numbered(G, n + 1)
             /\ Sum(LentOf(G, n + 1, t))
                  = Sum(LentOf(F, n, t)) + (IF f.res_addr = t THEN f.amount ELSE 0)
<1> DEFINE G == F \cup {f}
           s == LentOf(F, n, t)
           r == LentOf(G, n + 1, t)
<1>1. \A g \in F : g.id \in 1..n /\ g.id # n + 1 /\ g.id \in 1..(n + 1)
  BY DEF Numbered
<1>2. Numbered(G, n + 1)
  BY <1>1 DEF Numbered
<1>3. G \in SUBSET FlashLoanData /\ n + 1 \in Nat
  OBVIOUS
<1>4. s \in Seq(Int) /\ Len(s) = n /\ r \in Seq(Int) /\ Len(r) = n + 1
  BY <1>3, LentOfType
<1>5. ASSUME NEW k \in 1..n PROVE r[k] = s[k]
  <2>1. k \in 1..(n + 1) /\ k # n + 1
    OBVIOUS
  <2>2. \A g : g.id = k => (g \in F <=> g \in G)
    BY <2>1
  <2> HIDE DEF G
  <2> QED BY <1>2, <1>3, <2>1, <2>2, LentOfSame
<1>6. r[n + 1] = IF f.res_addr = t THEN f.amount ELSE 0
  <2>1. n + 1 \in 1..(n + 1) /\ f \in G /\ \A g \in G : g.id = n + 1 => g = f
    BY <1>1
  <2> HIDE DEF G
  <2> QED BY <1>3, <2>1, LentOfOne
<1> HIDE DEF s, r
<1>7. Sum(r) = Sum(s) + r[Len(r)]
  BY <1>4, <1>5, SumOfOneMore
<1> QED BY <1>2, <1>4, <1>6, <1>7 DEF s, r

LEMMA LentOneLess ==
  ASSUME NEW F \in SUBSET FlashLoanData, NEW n \in Nat, Numbered(F, n), NEW f \in F, NEW t
  PROVE  LET G == F \ {f}
         IN  /\ Numbered(G, n)
             /\ Sum(LentOf(G, n, t))
                  = Sum(LentOf(F, n, t)) - (IF f.res_addr = t THEN f.amount ELSE 0)
<1> DEFINE G == F \ {f}
           s == LentOf(F, n, t)
           r == LentOf(G, n, t)
           k == f.id
<1>1. Numbered(G, n) /\ G \in SUBSET FlashLoanData
  BY DEF Numbered
<1>2. s \in Seq(Int) /\ Len(s) = n /\ r \in Seq(Int) /\ Len(r) = n
  BY <1>1, LentOfType
<1>3. k \in 1..n /\ (\A g \in F : g.id = k => g = f) /\ \A g \in G : g.id # k
  BY DEF Numbered
<1>4. ASSUME NEW j \in 1..n, j # k PROVE r[j] = s[j]
  <2>1. \A g : g.id = j => (g \in F <=> g \in G)
    BY <1>4
  <2> HIDE DEF G
  <2> QED BY <1>1, <2>1, LentOfSame
<1>5. r[k] = 0
  <2> HIDE DEF G, k
  <2> QED BY <1>3, LentOfAt
<1>6. s[k] = IF f.res_addr = t THEN f.amount ELSE 0
  <2>1. f.id = k
    OBVIOUS
  <2> HIDE DEF k
  <2> QED BY <1>3, <2>1, LentOfOne
<1> HIDE DEF s, r, k
<1>7. Sum(r) = Sum(s) - s[k] + r[k]
  BY <1>2, <1>3, <1>4, SumOfOneChanged
<1>8. Sum(s) \in Int /\ s[k] \in Int
  <2>1. s[k] \in Int
    BY <1>2, <1>3
  <2> QED BY <1>2, <2>1, SumType
<1>9. Sum(r) = Sum(s) - (IF f.res_addr = t THEN f.amount ELSE 0)
  BY <1>5, <1>6, <1>7, <1>8
<1> QED BY <1>1, <1>9 DEF s, r

\* How much more than it owns a pool owes.
Short(t) == Lack(pools[t]) - Sum(Lent(t))

\* What is inductive next to IInv and Growth while nobody takes a stable loan and
\* no insurance is withdrawn.
Sufficient ==
  /\ \A t \in Tokens : /\ pools[t].stable_loan_amount = 0
                       /\ Short(t) * ONE <= ops * (pools[t].loan_index + 2 * ONE)
  /\ Numbered(flashloans, transient_id_counter)

\* What a call may add to what a pool is short of, and take off it.
Backed(Q, t) ==
  /\ Lack(Q) * ONE <= Lack(pools[t]) * ONE + Q.loan_index + 2 * ONE
  /\ (Lack(pools[t]) - Lack(Q)) * ONE <= Rounding(t)

LentKept == UNCHANGED <<flashloans, transient_id_counter>>

StepBacked ==
  /\ \A t \in Tokens : Short(t)' * ONE
       <= Short(t) * ONE + (ops' - ops) * (pools'[t].loan_index + 2 * ONE)
  /\ \A t \in Tokens : (Short(t) - Short(t)') * ONE <= Rounding(t) + FeeKept(t)
  /\ Numbered(flashloans, transient_id_counter)'

LEMMA LentNow ==
  \A t : /\ Lent(t) = LentOf(flashloans, transient_id_counter, t)
         /\ Lent(t)' = LentOf(flashloans', transient_id_counter', t)
  BY DEF Lent, LentOf

LEMMA ShortType ==
  ASSUME IInv, Growth, NEW t \in Tokens
  PROVE  /\ pools[t] \in Pool /\ Growing(pools[t]) /\ Booked(pools[t])
         /\ pools[t].loan_index \in Nat /\ Lack(pools[t]) \in Int
         /\ Sum(Lent(t)) \in Int /\ Short(t) \in Int
<1>1. /\ pools[t] \in Pool /\ Growing(pools[t]) /\ Booked(pools[t])
      /\ flashloans \in SUBSET FlashLoanData /\ transient_id_counter \in Nat
  BY DEF IInv, Books, Frame, Growth
<1>2. pools[t].loan_index \in Nat /\ Lack(pools[t]) \in Int
  BY <1>1, LackType
<1>3. Sum(Lent(t)) \in Int
  BY <1>1, LentNow, LentOfType, SumType
<1> QED BY <1>1, <1>2, <1>3 DEF Short

LEMMA ShortTypeNext ==
  ASSUME IInv', Growth', NEW t \in Tokens
  PROVE  /\ pools'[t] \in Pool /\ Growing(pools'[t]) /\ Booked(pools'[t])
         /\ pools'[t].loan_index \in Nat /\ Lack(pools'[t]) \in Int
         /\ Sum(Lent(t))' \in Int /\ Short(t)' \in Int
         /\ Short(t)' = Lack(pools'[t]) - Sum(Lent(t))'
<1>1. /\ pools'[t] \in Pool /\ Growing(pools'[t]) /\ Booked(pools'[t])
      /\ flashloans' \in SUBSET FlashLoanData /\ transient_id_counter' \in Nat
  BY DEF IInv, Books, Frame, Growth
<1>2. pools'[t].loan_index \in Nat /\ Lack(pools'[t]) \in Int
  BY <1>1, LackType
<1>3. Sum(Lent(t))' \in Int
  <2>1. Sum(Lent(t)') \in Int
    BY <1>1, LentNow, LentOfType, SumType
  <2> QED BY <2>1
<1>4. Short(t)' = Lack(pools'[t]) - Sum(Lent(t))'
  BY DEF Short
<1> QED BY <1>1, <1>2, <1>3, <1>4

\* What the roundings of a call leave to a pool has room for those of each method,
\* and for those of a repayment and a redemption.
LEMMA RoundingType ==
  ASSUME IInv, Growth, Prudence, NEW t \in Tokens,
         NEW S, S = SupplyIndex(pools[t], Env(t)), NEW L, L = LoanIndex(pools[t], Env(t)),
         NEW u, u = Env(t).cfg.unit, NEW sc, sc = Env(t).cfg.share_unit
  PROVE  /\ Rounding(t) \in Nat /\ u \in Nat \ {0} /\ sc \in Nat \ {0}
         /\ u = Unit(t) /\ u = Config[t].unit /\ sc = Config[t].share_unit
         /\ S \in Nat /\ L \in Nat /\ sc * S \in Nat /\ sc * L \in Nat
         /\ sc * S + 2 * ONE <= Rounding(t)
         /\ (sc * L + (u + 2) * ONE) + (u + 1) * ONE <= Rounding(t)
         /\ sc * L + (u + 2) * ONE <= Rounding(t) /\ sc * L + (u + 1) * ONE <= Rounding(t)
         /\ (u + 1) * ONE <= Rounding(t)
<1>1. /\ u \in Nat \ {0} /\ sc \in Nat \ {0} /\ ONE \in Nat
      /\ u = Unit(t) /\ u = Config[t].unit /\ sc = Config[t].share_unit
  BY EnvType, DecimalsAssumption DEF IInv, Books, Frame, PoolConfig, Unit
<1>2. S \in Nat /\ L \in Nat
  BY PoolGrows, IndicesGrow
<1>3. Rounding(t) = 2 * (u + 2) * ONE + sc * (S + L)
  BY <1>1 DEF Rounding
<1> DEFINE uO == u * ONE   cS == sc * S   cL == sc * L
<1>4. /\ 2 * (u + 2) * ONE = 2 * uO + 4 * ONE /\ sc * (S + L) = cS + cL
      /\ (u + 2) * ONE = uO + 2 * ONE /\ (u + 1) * ONE = uO + ONE
      /\ uO \in Nat /\ cS \in Nat /\ cL \in Nat
  <2>1. uO \in Nat
    BY <1>1
  <2>2. cS \in Nat /\ cL \in Nat /\ sc * (S + L) = cS + cL
    BY <1>1, <1>2
  <2>3. (u + 2) * ONE = uO + 2 * ONE /\ (u + 1) * ONE = uO + ONE
    BY <1>1
  <2>4. 2 * (u + 2) * ONE = 2 * uO + 4 * ONE
    BY <1>1
  <2> QED BY <2>1, <2>2, <2>3, <2>4
<1>5. /\ Rounding(t) \in Nat /\ cS + 2 * ONE <= Rounding(t)
      /\ (cL + (u + 2) * ONE) + (u + 1) * ONE <= Rounding(t)
      /\ cL + (u + 2) * ONE <= Rounding(t) /\ cL + (u + 1) * ONE <= Rounding(t)
      /\ (u + 1) * ONE <= Rounding(t)
  <2> HIDE DEF uO, cS, cL
  <2>1. Rounding(t) = 2 * uO + 4 * ONE + (cS + cL)
    BY <1>3, <1>4
  <2> QED BY <1>1, <1>4, <2>1
<1> QED BY <1>1, <1>2, <1>4, <1>5

\* No fee is kept where no flash loan is given back.
LEMMA NoFeeKept ==
  ASSUME flashloans \subseteq flashloans', NEW t
  PROVE  FeeKept(t) = 0
<1>1. {f \in flashloans \ flashloans' : f.res_addr = t} = {}
  OBVIOUS
<1> QED BY <1>1 DEF FeeKept

\* Two last digits are within what a call may add.
LEMMA BackedByTwo ==
  ASSUME IInv, Growth, NEW t \in Tokens, NEW Q, Lack(Q) \in Int, Q.loan_index \in Nat,
         Lack(Q) <= Lack(pools[t]) + 2,
         (Lack(pools[t]) - Lack(Q)) * ONE <= Rounding(t)
  PROVE  Backed(Q, t)
<1> DEFINE q == Lack(Q)   p == Lack(pools[t])
<1>1. q \in Int /\ p + 2 \in Int /\ p \in Int /\ ONE \in Nat /\ q <= p + 2
  BY DecimalsAssumption, ShortType
<1>5. (p - q) * ONE <= Rounding(t)
  OBVIOUS
<1> HIDE DEF q, p
<1>2. q * ONE <= (p + 2) * ONE
  BY <1>1, TimesMonotone
<1> DEFINE qO == q * ONE   pO == p * ONE
<1>3. (p + 2) * ONE = pO + 2 * ONE /\ qO \in Int /\ pO \in Int
  BY <1>1
<1> HIDE DEF qO, pO
<1>4. qO <= pO + Q.loan_index + 2 * ONE
  BY <1>1, <1>2, <1>3 DEF qO
<1> QED BY <1>4, <1>5 DEF Backed, qO, pO, q, p

\* A call that moves no flash loan adds to what a pool is short of what it adds
\* to what the pool lacks, and takes off it what it takes off that.
LEMMA CallBacked ==
  ASSUME IInv, IInv', Growth, Growth', Prudence, Sufficient, Call, LentKept,
         \A t \in Tokens : Backed(pools'[t], t)
  PROVE  StepBacked
<1>1. ops' - ops = 1
  BY DEF Call, IInv, Frame
<1>2. Numbered(flashloans, transient_id_counter)'
  BY DEF Sufficient, Numbered, LentKept
<1>3. ASSUME NEW t \in Tokens
      PROVE  /\ Short(t)' * ONE
                  <= Short(t) * ONE + (ops' - ops) * (pools'[t].loan_index + 2 * ONE)
             /\ (Short(t) - Short(t)') * ONE <= Rounding(t) + FeeKept(t)
  <2> DEFINE q == Lack(pools'[t])   p == Lack(pools[t])   s == Sum(Lent(t))
             l == pools'[t].loan_index
             qO == q * ONE   pO == p * ONE   sO == s * ONE
  <2>1. q \in Int /\ p \in Int /\ s \in Int /\ l \in Nat /\ ONE \in Nat
    BY ShortType, ShortTypeNext, DecimalsAssumption
  <2>2. Sum(Lent(t))' = s
    BY LentNow DEF LentKept
  <2>3. Short(t)' = q - s /\ Short(t) = p - s
    BY <2>2, ShortTypeNext DEF Short
  <2>4. qO <= pO + l + 2 * ONE /\ (p - q) * ONE <= Rounding(t)
    BY DEF Backed
  <2>7. FeeKept(t) = 0 /\ Rounding(t) \in Int
    BY NoFeeKept, RoundingType DEF LentKept
  <2> HIDE DEF q, p, s, l
  <2>5. /\ (q - s) * ONE = qO - sO /\ (p - s) * ONE = pO - sO
        /\ qO \in Int /\ pO \in Int /\ sO \in Int
        /\ (ops' - ops) * (l + 2 * ONE) = l + 2 * ONE
        /\ (p - s) - (q - s) = p - q
    BY <1>1, <2>1
  <2> HIDE DEF qO, pO, sO
  <2>6. qO - sO <= pO - sO + (l + 2 * ONE)
    BY <2>1, <2>4, <2>5
  <2>8. (Short(t) - Short(t)') * ONE <= Rounding(t) + FeeKept(t)
    BY <2>3, <2>4, <2>5, <2>7
  <2> QED BY <2>3, <2>5, <2>6, <2>8 DEF l
<1> QED BY <1>2, <1>3 DEF StepBacked

\* A step that moves nothing a pool owns or owes.
LEMMA NothingMoved ==
  ASSUME IInv, IInv', Growth, Growth', Prudence, Sufficient, LentKept, pools' = pools,
         ops' >= ops
  PROVE  StepBacked
<1>1. Numbered(flashloans, transient_id_counter)'
  BY DEF Sufficient, Numbered, LentKept
<1>2. ASSUME NEW t \in Tokens
      PROVE  /\ Short(t)' * ONE
                  <= Short(t) * ONE + (ops' - ops) * (pools'[t].loan_index + 2 * ONE)
             /\ (Short(t) - Short(t)') * ONE <= Rounding(t) + FeeKept(t)
  <2>1. Short(t)' = Short(t)
    BY LentNow DEF Short, LentKept
  <2>2. Short(t) * ONE \in Int /\ pools'[t].loan_index + 2 * ONE \in Nat /\ ops' - ops \in Nat
    <3>1. ops' \in Nat /\ ops \in Nat
      BY DEF IInv, Frame
    <3>2. Short(t) \in Int /\ pools'[t].loan_index \in Nat
      BY ShortType, ShortTypeNext
    <3> DEFINE s == Short(t)   l == pools'[t].loan_index   m == ops'   n == ops
    <3>3. s \in Int /\ l \in Nat /\ ONE \in Nat /\ m \in Nat /\ n \in Nat /\ m >= n
      BY <3>1, <3>2, DecimalsAssumption
    <3> HIDE DEF s, l, m, n
    <3>4. s * ONE \in Int /\ l + 2 * ONE \in Nat
      BY <3>3
    <3>5. m - n \in Nat
      BY <3>3
    <3> QED BY <3>4, <3>5 DEF s, l, m, n
  <2> DEFINE a == ops' - ops   b == pools'[t].loan_index + 2 * ONE   c == Short(t) * ONE
  <2>3. a \in Nat /\ b \in Nat /\ c \in Int
    BY <2>2
  <2> HIDE DEF a, b, c
  <2>4. a * b \in Nat
    BY <2>3
  <2>5. c <= c + a * b
    BY <2>3, <2>4
  <2>6. (Short(t) - Short(t)') * ONE = 0
    <3>1. Short(t) - Short(t)' = 0
      BY <2>1, ShortType
    <3> QED BY <3>1, DecimalsAssumption
  <2>7. FeeKept(t) = 0 /\ Rounding(t) \in Nat
    BY NoFeeKept, RoundingType DEF LentKept
  <2> QED BY <2>1, <2>5, <2>6, <2>7 DEF a, b, c
<1> QED BY <1>1, <1>2 DEF StepBacked

\* A call that leaves Q in the place of one pool.
LEMMA OneBacked ==
  ASSUME IInv, IInv', Growth, Growth', Prudence, Sufficient, Call, LentKept,
         NEW b \in Tokens, NEW Q, pools' = [pools EXCEPT ![b] = Q], Backed(Q, b)
  PROVE  StepBacked
<1>1. ASSUME NEW t \in Tokens PROVE Backed(pools'[t], t)
  <2>1. pools'[t] = IF t = b THEN Q ELSE pools[t]
    BY DEF IInv, Books
  <2>2. CASE t = b
    BY <2>1, <2>2
  <2>3. CASE t # b
    <3>1. Lack(pools[t]) \in Int /\ pools[t].loan_index \in Nat
      BY ShortType
    <3>2. (Lack(pools[t]) - Lack(pools[t])) * ONE = 0 /\ Rounding(t) \in Nat
      BY <3>1, RoundingType, DecimalsAssumption
    <3>3. Backed(pools[t], t)
      BY <3>1, <3>2, BackedByTwo
    <3> QED BY <2>1, <2>3, <3>3
  <2> QED BY <2>2, <2>3
<1> QED BY <1>1, CallBacked

\* Liquidity is added to one pool.
LEMMA SuppliedLack ==
  ASSUME IInv, IInv', Growth, Growth', Prudence, Sufficient,
         NEW t \in Tokens, NEW amount \in Nat, CanAddLiquidity(pools[t], Env(t), amount),
         pools' = [pools EXCEPT ![t] = AddLiquidity(pools[t], Env(t), amount)]
  PROVE  LET Q == AddLiquidity(pools[t], Env(t), amount)
         IN  /\ Lack(Q) <= Lack(pools[t]) + 1
             /\ (Lack(pools[t]) - Lack(Q)) * ONE <= Rounding(t)
<1> DEFINE Q == AddLiquidity(pools[t], Env(t), amount)
           S == SupplyIndex(pools[t], Env(t))   sc == Env(t).cfg.share_unit
<1>1. /\ Lack(Q) <= Lack(pools[t]) + 1
      /\ (Lack(pools[t]) - Lack(Q)) * ONE <= sc * S + 2 * ONE
  BY PoolGrows, AddLiquidityLack DEF Sufficient
<1>2. pools'[t] = Q
  BY DEF IInv, Books
<1>3. sc * S + 2 * ONE <= Rounding(t) /\ Rounding(t) \in Int /\ sc * S + 2 * ONE \in Int
  <2>1. sc * S + 2 * ONE <= Rounding(t) /\ Rounding(t) \in Nat /\ sc * S \in Nat
    BY RoundingType
  <2> HIDE DEF sc, S
  <2> QED BY <2>1, DecimalsAssumption
<1> HIDE DEF Q
<1>4. Lack(Q) \in Int /\ Lack(pools[t]) \in Int
  BY <1>2, ShortType, ShortTypeNext
<1> DEFINE w == (Lack(pools[t]) - Lack(Q)) * ONE   r == sc * S + 2 * ONE
<1>5. w \in Int /\ w <= r /\ r <= Rounding(t) /\ r \in Int /\ Rounding(t) \in Int
  BY <1>1, <1>3, <1>4, DecimalsAssumption
<1> HIDE DEF w, r
<1>6. w <= Rounding(t)
  BY <1>5
<1> QED BY <1>1, <1>6 DEF w, Q

LEMMA SupplyBacked ==
  ASSUME IInv, IInv', Growth, Growth', Prudence, Sufficient,
         NEW t \in Tokens, NEW amount \in Nat, Supply(t, amount)
  PROVE  StepBacked
<1> DEFINE Q == AddLiquidity(pools[t], Env(t), amount)
<1>1. /\ Call /\ CanAddLiquidity(pools[t], Env(t), amount)
      /\ pools' = [pools EXCEPT ![t] = Q] /\ LentKept
  BY DEF Supply, OnlyPools, LentKept
<1>2. Lack(Q) <= Lack(pools[t]) + 1 /\ (Lack(pools[t]) - Lack(Q)) * ONE <= Rounding(t)
  BY <1>1, SuppliedLack
<1> HIDE DEF Q
<1>3. pools'[t] = Q
  BY <1>1 DEF IInv, Books
<1>4. Lack(Q) \in Int /\ Lack(pools[t]) \in Int /\ Q.loan_index \in Nat
  BY <1>3, ShortType, ShortTypeNext
<1>5. Backed(Q, t)
  <2>1. Lack(Q) <= Lack(pools[t]) + 2
    BY <1>2, <1>4
  <2> QED BY <1>2, <1>4, <2>1, BackedByTwo
<1> QED BY <1>1, <1>5, OneBacked

\* dx are removed from one pool.
LEMMA RemovalBacked ==
  ASSUME IInv, IInv', Growth, Growth', Prudence, Sufficient, Call, LentKept,
         NEW t \in Tokens, NEW dx \in Nat, dx <= pools[t].dx_supply,
         CanRemoveLiquidity(pools[t], Env(t), dx),
         pools' = [pools EXCEPT ![t] = RemoveLiquidity(pools[t], Env(t), dx)]
  PROVE  StepBacked
<1> DEFINE Q == RemoveLiquidity(pools[t], Env(t), dx)
           more == IF Env(t).now = pools[t].last_update THEN 0 ELSE 1
           unit == Env(t).cfg.unit
<1>1. Lack(Q) <= Lack(pools[t]) + more /\ Lack(pools[t]) <= Lack(Q) + unit + 1
  BY PoolGrows, RemoveLiquidityLack DEF Sufficient
<1>2. pools' = [pools EXCEPT ![t] = Q] /\ more \in Int /\ more <= 2
  OBVIOUS
<1>6. (unit + 1) * ONE <= Rounding(t) /\ Rounding(t) \in Int /\ unit \in Nat
  BY RoundingType
<1> HIDE DEF Q, more, unit
<1>3. pools'[t] = Q
  BY <1>2 DEF IInv, Books
<1>4. Lack(Q) \in Int /\ Lack(pools[t]) \in Int /\ Q.loan_index \in Nat
  BY <1>3, ShortType, ShortTypeNext
<1>7. (Lack(pools[t]) - Lack(Q)) * ONE <= Rounding(t)
  <2>1. /\ Lack(pools[t]) - Lack(Q) \in Int /\ unit + 1 \in Int
        /\ Lack(pools[t]) - Lack(Q) <= unit + 1
    BY <1>1, <1>4, <1>6
  <2> DEFINE a == (Lack(pools[t]) - Lack(Q)) * ONE   b == (unit + 1) * ONE
  <2>2. a <= b /\ a \in Int /\ b \in Int /\ b <= Rounding(t)
    BY <1>6, <2>1, TimesMonotone, DecimalsAssumption
  <2> HIDE DEF a, b
  <2>3. a <= Rounding(t)
    BY <1>6, <2>2
  <2> QED BY <2>3 DEF a
<1>5. Backed(Q, t)
  <2>1. Lack(Q) <= Lack(pools[t]) + 2
    BY <1>1, <1>2, <1>4
  <2> QED BY <1>4, <1>7, <2>1, BackedByTwo
<1> QED BY <1>2, <1>5, OneBacked

LEMMA WithdrawBacked ==
  ASSUME IInv, IInv', Growth, Growth', Prudence, Sufficient,
         NEW t \in Tokens, NEW dx \in Nat, Withdraw(t, dx)
  PROVE  StepBacked
<1>1. /\ Call /\ CanRemoveLiquidity(pools[t], Env(t), dx) /\ dx <= FreeDx(t)
      /\ pools' = [pools EXCEPT ![t] = RemoveLiquidity(pools[t], Env(t), dx)]
      /\ LentKept
  BY DEF Withdraw, OnlyPools, LentKept
<1>2. dx <= pools[t].dx_supply
  <2>1. pools[t].dx_supply \in Nat /\ collateral_vaults[t] \in Nat
    BY BookedType DEF IInv
  <2> QED BY <1>1, <2>1 DEF FreeDx
<1> QED BY <1>1, <1>2, RemovalBacked

\* A variable loan is taken from one pool.
LEMMA LoanBacked ==
  ASSUME IInv, IInv', Growth, Growth', Prudence, Sufficient, Call, LentKept,
         NEW b \in Tokens, NEW amount \in Nat, CanBorrowVariable(pools[b], Env(b), amount),
         pools' = [pools EXCEPT ![b] = PoolBorrowVariable(pools[b], Env(b), amount)]
  PROVE  StepBacked
<1> DEFINE Q == PoolBorrowVariable(pools[b], Env(b), amount)
           u == Env(b).cfg.unit   sc == Env(b).cfg.share_unit   L == LoanIndex(pools[b], Env(b))
<1>1. /\ Lack(Q) * ONE <= Lack(pools[b]) * ONE + LoanIndex(pools[b], Env(b)) + 2 * ONE
      /\ (Lack(pools[b]) - Lack(Q)) * ONE <= sc * L + (u + 1) * ONE
  BY PoolGrows, BorrowVariableLack DEF Sufficient
<1>2. SharesFor(pools[b], Env(b), amount) \in Nat
  BY PoolGrows, SharesForBounds
<1>3. Q.loan_index = LoanIndex(pools[b], Env(b))
  BY <1>2, PoolGrows, BorrowVariableSteady DEF Steady, Settled
<1>5. sc * L + (u + 1) * ONE <= Rounding(b) /\ sc * L \in Nat /\ u \in Nat
      /\ Rounding(b) \in Nat
  BY RoundingType
<1>6. pools' = [pools EXCEPT ![b] = Q] /\ pools'[b] = Q
  BY DEF IInv, Books
<1>7. (Lack(pools[b]) - Lack(Q)) * ONE <= Rounding(b)
  <2> HIDE DEF Q, u, sc, L
  <2>1. Lack(Q) \in Int /\ Lack(pools[b]) \in Int
    BY <1>6, ShortType, ShortTypeNext
  <2> DEFINE a == (Lack(pools[b]) - Lack(Q)) * ONE   r == sc * L + (u + 1) * ONE
  <2>2. a \in Int /\ r \in Int /\ a <= r /\ r <= Rounding(b)
    BY <1>1, <1>5, <2>1, DecimalsAssumption
  <2> HIDE DEF a, r
  <2>3. a <= Rounding(b)
    BY <1>5, <2>2
  <2> QED BY <2>3 DEF a
<1>4. Backed(Q, b) /\ pools' = [pools EXCEPT ![b] = Q]
  BY <1>1, <1>3, <1>6, <1>7 DEF Backed
<1> HIDE DEF Q
<1> QED BY <1>4, OneBacked

LEMMA BorrowVariableBacked ==
  ASSUME IInv, IInv', Growth, Growth', Prudence, Sufficient,
         NEW c, NEW b \in Tokens, NEW dx, NEW amount \in Nat, BorrowVariable(c, b, dx, amount)
  PROVE  StepBacked
<1>1. /\ Call /\ CanBorrowVariable(pools[b], Env(b), amount) /\ LentKept
      /\ pools' = [pools EXCEPT ![b] = PoolBorrowVariable(pools[b], Env(b), amount)]
  BY DEF BorrowVariable, PoolsAndCdps, LentKept
<1> QED BY <1>1, LoanBacked

LEMMA ExtendVariableBacked ==
  ASSUME IInv, IInv', Growth, Growth', Prudence, Sufficient,
         NEW i \in Pledged, NEW amount \in Nat, ExtendVariable(i, amount)
  PROVE  StepBacked
<1> DEFINE b == cdps[i].borrow_token
<1>1. /\ Call /\ CanBorrowVariable(pools[b], Env(b), amount) /\ LentKept
      /\ pools' = [pools EXCEPT ![b] = PoolBorrowVariable(pools[b], Env(b), amount)]
  BY Zenon DEF ExtendVariable, PoolsAndCdps, LentKept
<1>2. b \in Tokens
  BY PledgedToken, CdpKnown, CdpType DEF IInv
<1> HIDE DEF b
<1> QED BY <1>1, <1>2, LoanBacked

LEMMA WithdrawCollateralBacked ==
  ASSUME IInv, IInv', Growth, Growth', Prudence, Sufficient,
         NEW i \in Pledged, NEW amount \in Nat, WithdrawCollateral(i, amount)
  PROVE  StepBacked
<1> DEFINE c     == cdps[i].collateral_token
           index == SupplyIndex(pools[c], Env(c))
           taken == FloorTo(DDiv(amount, index), Config[c].share_unit)
<1>1. /\ Call /\ index # 0 /\ Takeable(taken, Config[c].share_unit)
      /\ taken <= collateral_vaults[c]
      /\ CanRemoveLiquidity(pools[c], Env(c), taken)
      /\ pools' = [pools EXCEPT ![c] = RemoveLiquidity(pools[c], Env(c), taken)]
      /\ LentKept
  BY Zenon DEF WithdrawCollateral, PoolsAndCdps, LentKept
<1>2. c \in Tokens
  BY PledgedToken DEF IInv
<1>3. /\ Env(c) \in Environment /\ Sound(pools[c], Env(c))
  BY <1>2, PoolGrows
<1>4. taken \in Nat
  <2>1. index \in Int
    BY <1>3, IndexType
  <2>2. Config[c].share_unit \in Nat \ {0}
    BY <1>2, EnvType DEF IInv, Books, PoolConfig
  <2> HIDE DEF index
  <2>3. DDiv(amount, index) \in Int
    BY <1>1, <2>1, DDivType
  <2>4. taken \in Int
    BY <2>2, <2>3, FloorToBounds
  <2> QED BY <1>1, <2>4 DEF Takeable
<1> HIDE DEF taken
<1>5. taken <= pools[c].dx_supply
  <2>1. /\ pools[c].dx_supply \in Nat /\ collateral_vaults[c] \in Nat
        /\ collateral_vaults[c] <= pools[c].dx_supply
    BY <1>2, BookedType DEF IInv
  <2> QED BY <1>1, <1>4, <2>1
<1> HIDE DEF c
<1> QED BY <1>1, <1>2, <1>4, <1>5, RemovalBacked

LEMMA AddCollateralBacked ==
  ASSUME IInv, IInv', Growth, Growth', Prudence, Sufficient,
         NEW i \in Pledged, NEW amount \in Nat, AddCollateral(i, amount)
  PROVE  StepBacked
<1> DEFINE t == cdps[i].collateral_token
           Q == AddLiquidity(pools[t], Env(t), amount)
<1>1. /\ Call /\ CanAddLiquidity(pools[t], Env(t), amount)
      /\ pools' = [pools EXCEPT ![t] = Q] /\ LentKept
  BY Zenon DEF AddCollateral, PoolsAndCdps, LentKept
<1>2. t \in Tokens
  BY PledgedToken DEF IInv
<1> HIDE DEF t
<1>3. Lack(Q) <= Lack(pools[t]) + 1 /\ (Lack(pools[t]) - Lack(Q)) * ONE <= Rounding(t)
  <2>1. amount \in Nat
    OBVIOUS
  <2> QED BY <1>1, <1>2, <2>1, SuppliedLack
<1> HIDE DEF Q
<1>4. pools'[t] = Q
  BY <1>1, <1>2 DEF IInv, Books
<1>5. Lack(Q) \in Int /\ Lack(pools[t]) \in Int /\ Q.loan_index \in Nat
  BY <1>2, <1>4, ShortType, ShortTypeNext
<1>6. Backed(Q, t)
  <2>1. Lack(Q) <= Lack(pools[t]) + 2
    BY <1>3, <1>5
  <2> QED BY <1>2, <1>3, <1>5, <2>1, BackedByTwo
<1> QED BY <1>1, <1>2, <1>6, OneBacked

\* The payment for variable CDP i, before what a liquidation sells.
LEMMA RepaidLack ==
  ASSUME IInv, Growth, IInv', Growth', Prudence, Sufficient,
         NEW i \in Ids, ~cdps[i].is_stable, NEW bucket \in Int, NEW limit \in Int,
         CanRepay(i, bucket, limit),
         NEW S, S = PoolRepaid(i, bucket, limit),
         pools'[cdps[i].borrow_token].variable_loan_share_quantity
           = S.variable_loan_share_quantity
  PROVE  LET b == cdps[i].borrow_token
             e == Env(b)
         IN  /\ b \in Tokens /\ Lack(S) <= Lack(pools[b]) + 2
             /\ (Lack(pools[b]) - Lack(S)) * ONE
                  <= e.cfg.share_unit * LoanIndex(pools[b], e) + (e.cfg.unit + 2) * ONE
             /\ Steady(S, pools[b], Env(b)) /\ S.stable_loan_amount = 0
<1> DEFINE cdp == cdps[i]
           b   == cdp.borrow_token
           e   == Env(b)
           P   == pools[b]
<1>1. b \in Tokens /\ cdp.normalized_borrow \in Nat
  BY RepaidArguments
<1>2. /\ S = PoolRepayVariable(P, e, bucket, cdp.normalized_borrow, limit)
      /\ CanRepayVariable(P, e, bucket, cdp.normalized_borrow, limit)
  BY Zenon DEF PoolRepaid, CanRepay
<1>3. S.variable_loan_share_quantity >= 0
  BY <1>1, ShortTypeNext DEF Booked
<1>4. /\ e \in Environment /\ Sound(P, e) /\ Growing(P) /\ Booked(P)
      /\ Prudent(e) /\ P.stable_loan_amount = 0
  BY <1>1, PoolGrows DEF Sufficient
<1>5. /\ Lack(S) <= Lack(P) + 2
      /\ (Lack(P) - Lack(S)) * ONE
           <= e.cfg.share_unit * LoanIndex(P, e) + (e.cfg.unit + 2) * ONE
  BY <1>1, <1>2, <1>3, <1>4, RepayVariableLack
<1>6. Steady(S, P, e) /\ SameStable(S, P)
  <2>1. cdp.normalized_borrow \in Int
    BY <1>1
  <2> QED BY <1>2, <1>3, <1>4, <2>1, RepayVariableSteady
<1>7. S.stable_loan_amount = 0
  BY <1>4, <1>6 DEF SameStable
<1> QED BY <1>1, <1>5, <1>6, <1>7

LEMMA RepayBacked ==
  ASSUME IInv, IInv', Growth, Growth', Prudence, Sufficient, NoStableLoans,
         NEW i \in Live, NEW bucket \in Inputs["repay"], Repay(i, bucket)
  PROVE  StepBacked
<1> DEFINE b == cdps[i].borrow_token
           S == PoolRepaid(i, bucket, bucket)
<1>1. /\ Call /\ CanRepay(i, bucket, bucket) /\ LentKept
      /\ pools' = [pools EXCEPT ![b] = S]
  BY Zenon DEF Repay, PoolsAndCdps, LentKept
<1>2. i \in Ids /\ bucket \in Int /\ ~cdps[i].is_stable
  <2>1. i \in Ids
    BY DEF Live, Pledged, IInv, Frame
  <2>2. bucket \in Nat
    BY ManagerAssumption DEF Arguments
  <2> QED BY <2>1, <2>2 DEF NoStableLoans
<1>3. S = PoolRepaid(i, bucket, bucket)
  OBVIOUS
<1>4. b \in Tokens
  BY <1>2, RepaidArguments
<1> HIDE DEF S
<1>5. pools'[b] = S
  BY <1>1, <1>4 DEF IInv, Books
<1> DEFINE u == Env(b).cfg.unit   sc == Env(b).cfg.share_unit   L == LoanIndex(pools[b], Env(b))
<1>6. /\ Lack(S) <= Lack(pools[b]) + 2
      /\ (Lack(pools[b]) - Lack(S)) * ONE <= sc * L + (u + 2) * ONE
  BY <1>1, <1>2, <1>3, <1>5, RepaidLack
<1>8. sc * L + (u + 2) * ONE <= Rounding(b) /\ sc * L \in Nat /\ u \in Nat
      /\ Rounding(b) \in Nat
  BY <1>4, RoundingType
<1> HIDE DEF b, u, sc, L
<1>7. Lack(S) \in Int /\ Lack(pools[b]) \in Int /\ S.loan_index \in Nat
  BY <1>4, <1>5, ShortType, ShortTypeNext
<1>9. (Lack(pools[b]) - Lack(S)) * ONE <= Rounding(b)
  <2> DEFINE a == (Lack(pools[b]) - Lack(S)) * ONE   r == sc * L + (u + 2) * ONE
  <2>1. a \in Int /\ r \in Int /\ a <= r /\ r <= Rounding(b)
    BY <1>6, <1>7, <1>8, DecimalsAssumption
  <2> HIDE DEF a, r
  <2>2. a <= Rounding(b)
    BY <1>8, <2>1
  <2> QED BY <2>2 DEF a
<1> QED BY <1>1, <1>4, <1>6, <1>7, <1>9, BackedByTwo, OneBacked

LEMMA LiquidationBacked ==
  ASSUME IInv, IInv', Growth, Growth', Prudence, Sufficient, NoStableLoans,
         NEW i \in Pledged,
         NEW bucket \in Inputs["repay"], NEW cover \in Inputs["cover"],
         NEW bp \in Quotes(cdps[i].borrow_token), NEW cp \in Quotes(cdps[i].collateral_token),
         Liquidation(i, bucket, cover, bp, cp)
  PROVE  StepBacked
<1> DEFINE b      == cdps[i].borrow_token
           c      == cdps[i].collateral_token
           terms  == LiquidationTerms(i, cover, bp, cp)
           debt   == terms.debt
           dx     == terms.dx
           S      == PoolRepaid(i, bucket, debt)
           repaid == [pools EXCEPT ![b] = S]
           R      == RemoveLiquidity(repaid[c], Env(c), dx)
<1>1. /\ i \in Ids /\ c \in Tokens /\ b \in Tokens /\ ~cdps[i].is_stable
      /\ bucket \in Nat /\ cover \in Nat /\ bp \in Nat /\ cp \in Nat
  <2>1. i \in Ids /\ c \in Tokens /\ b \in Tokens
    BY PledgedToken, CdpKnown, CdpType DEF IInv
  <2>2. bp \in Nat /\ cp \in Nat
    BY <2>1, QuotesType DEF IInv
  <2>3. bucket \in Nat /\ cover \in Nat
    BY ManagerAssumption DEF Arguments
  <2> QED BY <2>1, <2>2, <2>3 DEF NoStableLoans
<1>2. /\ CanLiquidate(i, bp, cp)
      /\ CanRepay(i, bucket, debt)
      /\ Takeable(dx, Config[c].share_unit) /\ dx <= collateral_vaults[c]
      /\ CanRemoveLiquidity(repaid[c], Env(c), dx)
      /\ pools' = [repaid EXCEPT ![c] = R]
      /\ Call /\ LentKept
  <2> HIDE DEF R
  <2> QED BY DEF Liquidation, CanSell, PoolsAndCdps, LentKept, R
<1>3. debt \in Int /\ dx \in Int
  BY <1>1, <1>2, LiquidationTermsType DEF IInv, Frame
<1> HIDE DEF terms, debt, dx
<1>4. dx \in Nat /\ dx <= pools[c].dx_supply
  <2>1. dx \in Nat
    BY <1>2, <1>3 DEF Takeable
  <2> QED BY <1>1, <1>2, <2>1, BookedType DEF IInv
<1>5. Sound(S, Env(b)) /\ S.dx_supply = pools[b].dx_supply
  <2>1. bucket \in Int
    BY <1>1
  <2> QED BY <1>1, <1>2, <1>3, <2>1, RepaidSound DEF IInv
<1>6. S = PoolRepaid(i, bucket, debt)
  OBVIOUS
<1> HIDE DEF S
<1>7. /\ repaid[b] = S /\ DOMAIN repaid = Tokens
      /\ \A t \in Tokens : repaid[t] = IF t = b THEN S ELSE pools[t]
  BY <1>1 DEF IInv, Books
<1>8. R = RemoveLiquidity(repaid[c], Env(c), dx) /\ pools' = [repaid EXCEPT ![c] = R]
  BY <1>2
<1> HIDE DEF repaid, R
<1>9. \A t \in Tokens : pools'[t] = IF t = c THEN R ELSE repaid[t]
  BY <1>7, <1>8
<1>10. pools'[b].variable_loan_share_quantity = S.variable_loan_share_quantity
  <2>1. CASE b = c
    <3>1. pools'[b] = RemoveLiquidity(S, Env(b), dx)
      BY <1>1, <1>7, <1>8, <1>9, <2>1
    <3>2. CanRemoveLiquidity(S, Env(b), dx) /\ dx <= S.dx_supply
      BY <1>2, <1>4, <1>5, <1>7, <2>1
    <3>3. Env(b) \in Environment
      BY <1>1, PoolGrows
    <3> QED BY <1>4, <1>5, <3>1, <3>2, <3>3, RemoveLiquiditySound
  <2>2. CASE b # c
    BY <1>1, <1>7, <1>9, <2>2
  <2> QED BY <2>1, <2>2
<1> DEFINE ub == Env(b).cfg.unit   sb == Env(b).cfg.share_unit
           Lb == LoanIndex(pools[b], Env(b))   rb == sb * Lb + (ub + 2) * ONE
<1>11. /\ Lack(S) <= Lack(pools[b]) + 2
       /\ (Lack(pools[b]) - Lack(S)) * ONE <= rb
       /\ Steady(S, pools[b], Env(b)) /\ S.stable_loan_amount = 0
  <2>1. bucket \in Int
    BY <1>1
  <2> QED BY <1>1, <1>2, <1>3, <1>6, <1>10, <2>1, RepaidLack
<1>12. Growing(S) /\ Booked(S) /\ S.last_update = Env(b).now
  BY <1>11 DEF Steady, Settled
<1>15. /\ rb + (ub + 1) * ONE <= Rounding(b) /\ rb <= Rounding(b)
       /\ rb \in Int /\ ub \in Nat /\ Rounding(b) \in Nat
  <2>1. /\ rb + (ub + 1) * ONE <= Rounding(b) /\ rb <= Rounding(b)
        /\ sb * Lb \in Nat /\ ub \in Nat /\ Rounding(b) \in Nat
    BY <1>1, RoundingType
  <2> HIDE DEF sb, Lb, ub
  <2> QED BY <2>1, DecimalsAssumption
<1> HIDE DEF b, c, ub, rb
<1>13. Lack(S) \in Int
  <2>1. S \in Pool
    BY <1>5 DEF Sound
  <2> QED BY <1>12, <2>1, LackType
<1>14. ASSUME NEW t \in Tokens PROVE Backed(pools'[t], t)
  <2>1. /\ Lack(pools[t]) \in Int /\ Lack(pools'[t]) \in Int /\ pools'[t].loan_index \in Nat
    BY ShortType, ShortTypeNext
  <2> DEFINE q == Lack(pools'[t])   p == Lack(pools[t])   l == Lack(S)
  <2>3. ONE \in Nat /\ q \in Int /\ p \in Int /\ l \in Int
    BY <1>13, <2>1, DecimalsAssumption
  <2>2. Lack(pools'[t]) <= Lack(pools[t]) + 2 /\ (p - q) * ONE <= Rounding(t)
    <3>1. CASE t = b /\ t = c
      <4>1. pools'[t] = RemoveLiquidity(S, Env(b), dx)
        BY <1>7, <1>8, <1>9, <3>1
      <4>2. CanRemoveLiquidity(S, Env(b), dx) /\ dx <= S.dx_supply
        BY <1>2, <1>4, <1>5, <1>7, <3>1
      <4>3. Env(b) \in Environment
        BY <1>1, PoolGrows
      <4>4. /\ Lack(pools'[t]) <= Lack(S) + (IF Env(b).now = S.last_update THEN 0 ELSE 1)
            /\ Lack(S) <= Lack(pools'[t]) + ub + 1
        BY <1>4, <1>5, <1>11, <1>12, <4>1, <4>2, <4>3, RemoveLiquidityLack DEF ub
      <4>5. Lack(S) <= Lack(pools[t]) + 2 /\ (p - l) * ONE <= rb
        BY <1>11, <3>1
      <4>6. Lack(pools'[t]) <= Lack(pools[t]) + 2
        BY <1>12, <1>13, <2>1, <4>4, <4>5
      <4>7. l <= q + ub + 1 /\ rb + (ub + 1) * ONE <= Rounding(t) /\ Rounding(t) \in Int
        BY <1>15, <3>1, <4>4
      <4> HIDE DEF q, p, l
      <4>8. (l - q) * ONE <= (ub + 1) * ONE
        <5>1. l - q \in Int /\ ub + 1 \in Int /\ l - q <= ub + 1
          BY <1>15, <2>3, <4>7
        <5> QED BY <2>3, <5>1, TimesMonotone
      <4> DEFINE w == (p - q) * ONE   v == (l - q) * ONE   z == (p - l) * ONE
                 uO == (ub + 1) * ONE
      <4>9. w = z + v /\ z \in Int /\ v \in Int /\ uO \in Int
        BY <1>15, <2>3
      <4>10. z <= rb /\ v <= uO /\ rb + uO <= Rounding(t)
        BY <4>5, <4>7, <4>8
      <4> HIDE DEF w, v, z, uO
      <4>11. w <= Rounding(t)
        BY <1>15, <4>7, <4>9, <4>10
      <4> QED BY <4>6, <4>11 DEF w
    <3>2. CASE t = b /\ t # c
      <4>1. pools'[t] = S
        BY <1>7, <1>9, <3>2
      <4>2. Lack(S) <= Lack(pools[t]) + 2 /\ (p - l) * ONE <= rb /\ q = l
        BY <1>11, <3>2, <4>1
      <4>3. rb <= Rounding(t) /\ Rounding(t) \in Int
        BY <1>15, <3>2
      <4> HIDE DEF p, l, q
      <4> DEFINE w == (p - q) * ONE
      <4>4. w \in Int /\ w <= rb
        BY <2>3, <4>2
      <4> HIDE DEF w
      <4>5. w <= Rounding(t)
        BY <1>15, <4>3, <4>4
      <4> QED BY <4>1, <4>2, <4>5 DEF w
    <3>3. CASE t # b /\ t = c
      <4>1. repaid[t] = pools[t]
        BY <1>7, <3>3
      <4>2. pools'[t] = RemoveLiquidity(pools[t], Env(t), dx) /\ dx <= pools[t].dx_supply
            /\ CanRemoveLiquidity(pools[t], Env(t), dx)
        BY <1>2, <1>4, <1>8, <1>9, <3>3, <4>1
      <4> DEFINE u == Env(t).cfg.unit
      <4>3. /\ Lack(pools'[t]) <= Lack(pools[t])
                + (IF Env(t).now = pools[t].last_update THEN 0 ELSE 1)
            /\ Lack(pools[t]) <= Lack(pools'[t]) + u + 1
        BY <1>4, <4>2, PoolGrows, RemoveLiquidityLack DEF Sufficient
      <4>4. (u + 1) * ONE <= Rounding(t) /\ Rounding(t) \in Int /\ u \in Nat
        BY RoundingType
      <4>5. Lack(pools'[t]) <= Lack(pools[t]) + 2 /\ p <= q + u + 1
        BY <2>1, <4>3
      <4> HIDE DEF p, q, u
      <4>6. (p - q) * ONE <= (u + 1) * ONE
        <5>1. p - q \in Int /\ u + 1 \in Int /\ p - q <= u + 1
          BY <2>3, <4>4, <4>5
        <5> QED BY <2>3, <5>1, TimesMonotone
      <4> DEFINE w == (p - q) * ONE   uO == (u + 1) * ONE
      <4>7. w \in Int /\ uO \in Int /\ w <= uO /\ uO <= Rounding(t)
        BY <2>3, <4>4, <4>6
      <4> HIDE DEF w, uO
      <4>8. w <= Rounding(t)
        BY <4>4, <4>7
      <4> QED BY <4>5, <4>8 DEF w
    <3>4. CASE t # b /\ t # c
      <4>1. pools'[t] = pools[t]
        BY <1>7, <1>9, <3>4
      <4>2. (p - q) * ONE = 0 /\ Rounding(t) \in Nat
        <5>1. p - q = 0
          BY <2>3, <4>1
        <5> QED BY <2>3, <5>1, RoundingType
      <4> QED BY <2>1, <4>1, <4>2
    <3> QED BY <3>1, <3>2, <3>3, <3>4
  <2> QED BY <2>1, <2>2, BackedByTwo
<1> QED BY <1>2, <1>14, CallBacked

LEMMA BorrowFlashloanBacked ==
  ASSUME IInv, IInv', Growth, Growth', Prudence, Sufficient,
         NEW t \in Tokens, NEW amount \in Nat, BorrowFlashloan(t, amount)
  PROVE  StepBacked
<1> DEFINE Q    == PoolBorrowFlashloan(pools[t], Env(t), amount)
           lent == FloorTo(amount, Unit(t))
           f    == [id |-> transient_id_counter + 1, res_addr |-> t, amount |-> lent,
                    fee |-> DMul(lent, Config[t].flashloan_fee_ratio)]
           n    == transient_id_counter
<1>1. /\ Call /\ pools' = [pools EXCEPT ![t] = Q]
      /\ transient_id_counter' = n + 1 /\ flashloans' = flashloans \cup {f}
  BY DEF BorrowFlashloan
<1>2. /\ flashloans \in SUBSET FlashLoanData /\ flashloans' \in SUBSET FlashLoanData
      /\ n \in Nat /\ Numbered(flashloans, n) /\ ops' - ops = 1
  BY <1>1 DEF IInv, Frame, Sufficient, Call
<1>3. f \in FlashLoanData /\ f.id = n + 1 /\ f.res_addr = t /\ f.amount = lent
  BY <1>1, <1>2
<1>4. Unit(t) = Env(t).cfg.unit
  BY EnvType DEF IInv, Books, Unit
<1>5. Lack(Q) = Lack(pools[t]) + lent
  BY <1>4, PoolGrows, BorrowFlashloanLack
<1> HIDE DEF Q, lent, f
<1>6. lent \in Int
  BY <1>3 DEF FlashLoanData
<1>7. Numbered(flashloans, n)'
  BY <1>1, <1>2, <1>3, LentOneMore
<1>8. ASSUME NEW u \in Tokens
      PROVE  Short(u)' = Short(u)
  <2> DEFINE more == IF f.res_addr = u THEN f.amount ELSE 0
  <2>1. Sum(LentOf(flashloans', n + 1, u)) = Sum(LentOf(flashloans, n, u)) + more
    <3> DEFINE F == flashloans   m == transient_id_counter
    <3>1. F \in SUBSET FlashLoanData /\ m \in Nat /\ Numbered(F, m)
          /\ f \in FlashLoanData /\ f.id = m + 1
      BY <1>2, <1>3
    <3> HIDE DEF F, m
    <3>2. Sum(LentOf(F \cup {f}, m + 1, u))
            = Sum(LentOf(F, m, u)) + (IF f.res_addr = u THEN f.amount ELSE 0)
      BY <3>1, LentOneMore
    <3> QED BY <1>1, <3>2 DEF F, m
  <2>2. Sum(Lent(u))' = Sum(Lent(u)) + (IF t = u THEN lent ELSE 0)
    BY <1>1, <1>3, <2>1, LentNow
  <2>3. pools'[u] = IF u = t THEN Q ELSE pools[u]
    BY <1>1 DEF IInv, Books
  <2>4. /\ Short(u)' = Lack(pools'[u]) - Sum(Lent(u))' /\ Sum(Lent(u)) \in Int
        /\ Short(u) = Lack(pools[u]) - Sum(Lent(u)) /\ Lack(pools[u]) \in Int
    BY ShortType, ShortTypeNext DEF Short
  <2>5. CASE u = t
    <3>1. Lack(pools'[u]) = Lack(pools[u]) + lent
      BY <1>5, <2>3, <2>5
    <3> QED BY <1>6, <2>2, <2>4, <2>5, <3>1
  <2>6. CASE u # t
    BY <2>2, <2>3, <2>4, <2>6
  <2> QED BY <2>5, <2>6
<1>9. ASSUME NEW u \in Tokens
      PROVE  /\ Short(u)' * ONE
                  <= Short(u) * ONE + (ops' - ops) * (pools'[u].loan_index + 2 * ONE)
             /\ (Short(u) - Short(u)') * ONE <= Rounding(u) + FeeKept(u)
  <2> DEFINE s == Short(u)   l == pools'[u].loan_index
  <2>1. s \in Int /\ l \in Nat /\ ONE \in Nat /\ Short(u)' = s
    BY <1>8, ShortType, ShortTypeNext, DecimalsAssumption
  <2> HIDE DEF s, l
  <2>2. s * ONE <= s * ONE + 1 * (l + 2 * ONE)
    <3> DEFINE sO == s * ONE
    <3>1. sO \in Int /\ l + 2 * ONE \in Nat
      BY <2>1
    <3> HIDE DEF sO
    <3>2. sO <= sO + 1 * (l + 2 * ONE)
      BY <3>1
    <3> QED BY <3>2 DEF sO
  <2>3. (Short(u) - Short(u)') * ONE = 0
    <3>1. s - s = 0
      BY <2>1
    <3> QED BY <2>1, <3>1 DEF s
  <2>4. FeeKept(u) = 0 /\ Rounding(u) \in Nat
    BY <1>1, NoFeeKept, RoundingType
  <2> QED BY <1>2, <2>1, <2>2, <2>3, <2>4 DEF s, l
<1> QED BY <1>7, <1>9 DEF StepBacked

LEMMA RepayFlashloanBacked ==
  ASSUME IInv, IInv', Growth, Growth', Prudence, Sufficient,
         NEW f \in flashloans, RepayFlashloan(f)
  PROVE  StepBacked
<1> DEFINE t == f.res_addr
           n == transient_id_counter
           Q == PoolRepayFlashloan(pools[t], Env(t), f.amount, f.fee)
<1>1. /\ Call /\ CanRepayFlashloan(pools[t], Env(t), f.fee)
      /\ pools' = [pools EXCEPT ![t] = Q]
      /\ flashloans' = flashloans \ {f} /\ transient_id_counter' = n
  BY DEF RepayFlashloan
<1>2. /\ flashloans \in SUBSET FlashLoanData /\ n \in Nat /\ Numbered(flashloans, n)
      /\ ops' - ops = 1
  BY <1>1 DEF IInv, Frame, Sufficient, Call
<1>3. t \in Tokens /\ f.amount \in Nat /\ f.fee \in Nat
  BY <1>2 DEF FlashLoanData
<1> HIDE DEF t
<1> DEFINE unit == Env(t).cfg.unit   I == SupplyIndex(pools[t], Env(t))
           got  == IF f.fee > 0 THEN (f.fee - DDiv(f.fee, I)) * ONE + pools[t].dx_supply ELSE 0
<1>4. /\ Lack(Q) <= Lack(pools[t]) + 1 - f.amount
      /\ (Lack(pools[t]) - Lack(Q) - f.amount) * ONE <= (unit + 1) * ONE + got
  BY <1>1, <1>3, PoolGrows, RepayFlashloanLack DEF Sufficient
<1> HIDE DEF Q
<1>5. Numbered(flashloans, n)'
  BY <1>1, <1>2, LentOneLess
<1>8. FeeKept(t) = got /\ \A u \in Tokens : u # t => FeeKept(u) = 0
  <2>1. flashloans \ flashloans' = {f}
    BY <1>1
  <2>2. {g \in flashloans \ flashloans' : g.res_addr = t} = {f}
    BY <2>1 DEF t
  <2>3. \A u : u # t => {g \in flashloans \ flashloans' : g.res_addr = u} = {}
    BY <2>1 DEF t
  <2>4. (CHOOSE g \in {f} : TRUE) = f
    OBVIOUS
  <2>5. FeeKept(t) = got
    <3> DEFINE returned == {g \in flashloans \ flashloans' : g.res_addr = t}
               kept(g)  == g.fee - DDiv(g.fee, SupplyIndex(pools[t], Env(t)))
    <3>1. FeeKept(t) = IF \E g \in returned : g.fee > 0
                       THEN kept(CHOOSE g \in returned : TRUE) * ONE + pools[t].dx_supply
                       ELSE 0
      BY DEF FeeKept
    <3>2. returned = {f}
      BY <2>2
    <3> HIDE DEF returned
    <3>3. (CHOOSE g \in returned : TRUE) = f /\ ((\E g \in returned : g.fee > 0) <=> f.fee > 0)
      BY <2>4, <3>2
    <3> HIDE DEF kept
    <3>4. FeeKept(t) = IF f.fee > 0 THEN kept(f) * ONE + pools[t].dx_supply ELSE 0
      BY <3>1, <3>3
    <3> QED BY <3>4 DEF kept
  <2>6. ASSUME NEW u \in Tokens, u # t PROVE FeeKept(u) = 0
    <3>1. {g \in flashloans \ flashloans' : g.res_addr = u} = {}
      BY <2>3, <2>6
    <3> QED BY <3>1 DEF FeeKept
  <2> QED BY <2>5, <2>6
<1>9. /\ got \in Int /\ unit \in Nat /\ (unit + 1) * ONE <= Rounding(t)
      /\ \A u \in Tokens : Rounding(u) \in Nat
  <2>1. unit \in Nat /\ (unit + 1) * ONE <= Rounding(t) /\ \A u \in Tokens : Rounding(u) \in Nat
    BY <1>3, RoundingType
  <2>2. I \in Int /\ I # 0 /\ pools[t].dx_supply \in Int
    <3>1. I \in Nat /\ I >= ONE
      BY <1>3, PoolGrows, IndicesGrow
    <3>2. pools[t].dx_supply \in Int
      BY <1>3, PoolGrows DEF Sound, Pool
    <3> QED BY <3>1, <3>2, DecimalsAssumption
  <2>3. DDiv(f.fee, I) \in Int
    <3>1. f.fee \in Int
      BY <1>3
    <3> HIDE DEF I
    <3> QED BY <2>2, <3>1, DDivType
  <2> HIDE DEF I
  <2>4. got \in Int
    BY <1>3, <2>2, <2>3, DecimalsAssumption
  <2> HIDE DEF got, unit
  <2> QED BY <2>1, <2>4 DEF unit
<1> HIDE DEF got, unit
<1>6. ASSUME NEW u \in Tokens
      PROVE  /\ Short(u)' <= Short(u) + 1
             /\ (Short(u) - Short(u)') * ONE <= Rounding(u) + FeeKept(u)
  <2>1. Sum(LentOf(flashloans', n, u))
          = Sum(LentOf(flashloans, n, u)) - (IF f.res_addr = u THEN f.amount ELSE 0)
    BY <1>1, <1>2, LentOneLess
  <2>2. Sum(Lent(u))' = Sum(Lent(u)) - (IF t = u THEN f.amount ELSE 0)
    BY <1>1, <2>1, LentNow DEF t
  <2>3. pools'[u] = IF u = t THEN Q ELSE pools[u]
    BY <1>1, <1>3 DEF IInv, Books
  <2>4. /\ Short(u)' = Lack(pools'[u]) - Sum(Lent(u))' /\ Sum(Lent(u)) \in Int
        /\ Short(u) = Lack(pools[u]) - Sum(Lent(u)) /\ Lack(pools[u]) \in Int
        /\ Lack(pools'[u]) \in Int
    BY ShortType, ShortTypeNext DEF Short
  <2>5. CASE u = t
    <3>1. /\ Lack(pools'[u]) <= Lack(pools[u]) + 1 - f.amount
          /\ (Lack(pools[u]) - Lack(pools'[u]) - f.amount) * ONE <= (unit + 1) * ONE + got
      BY <1>4, <2>3, <2>5
    <3>2. Short(u)' <= Short(u) + 1
      BY <1>3, <2>2, <2>4, <2>5, <3>1
    <3>3. Short(u) - Short(u)' = Lack(pools[u]) - Lack(pools'[u]) - f.amount
      BY <1>3, <2>2, <2>4, <2>5
    <3> DEFINE w == (Short(u) - Short(u)') * ONE   uO == (unit + 1) * ONE
    <3>4. w \in Int /\ uO \in Int /\ w <= uO + got /\ uO <= Rounding(u)
          /\ FeeKept(u) = got /\ Rounding(u) \in Int
      <4>1. w <= uO + got
        BY <3>1, <3>3
      <4>2. Short(u) - Short(u)' \in Int /\ unit + 1 \in Int /\ ONE \in Int
        BY <1>9, ShortType, ShortTypeNext, DecimalsAssumption
      <4> HIDE DEF w, uO
      <4>3. w \in Int /\ uO \in Int
        BY <4>2 DEF w, uO
      <4> QED BY <1>8, <1>9, <2>5, <4>1, <4>3 DEF uO
    <3> HIDE DEF w, uO
    <3>5. w <= Rounding(u) + FeeKept(u)
      BY <1>9, <3>4
    <3> QED BY <3>2, <3>5 DEF w
  <2>6. CASE u # t
    <3>1. Short(u)' = Short(u) /\ Short(u) \in Int
      BY <2>2, <2>3, <2>4, <2>6, ShortType
    <3>2. (Short(u) - Short(u)') * ONE = 0
      <4>1. Short(u) - Short(u)' = 0
        BY <3>1
      <4> QED BY <4>1, DecimalsAssumption
    <3>3. FeeKept(u) = 0 /\ Rounding(u) \in Nat
      BY <1>8, <1>9, <2>6
    <3> QED BY <3>1, <3>2, <3>3
  <2> QED BY <2>5, <2>6
<1>7. ASSUME NEW u \in Tokens
      PROVE  Short(u)' * ONE <= Short(u) * ONE + (ops' - ops) * (pools'[u].loan_index + 2 * ONE)
  <2> DEFINE s == Short(u)   r == Short(u)'   l == pools'[u].loan_index
  <2>1. s \in Int /\ r \in Int /\ s + 1 \in Int /\ l \in Nat /\ ONE \in Nat /\ r <= s + 1
    BY <1>6, ShortType, ShortTypeNext, DecimalsAssumption
  <2> HIDE DEF s, r, l
  <2>2. r * ONE <= (s + 1) * ONE
    BY <2>1, TimesMonotone
  <2>3. r * ONE <= s * ONE + 1 * (l + 2 * ONE)
    <3> DEFINE sO == s * ONE   rO == r * ONE
    <3>1. sO \in Int /\ rO \in Int /\ (s + 1) * ONE = sO + ONE
      BY <2>1
    <3> HIDE DEF sO, rO
    <3>2. rO <= sO + 1 * (l + 2 * ONE)
      BY <2>1, <2>2, <3>1 DEF rO
    <3> QED BY <3>2 DEF sO, rO
  <2> QED BY <1>2, <2>3 DEF s, r, l
<1> QED BY <1>5, <1>6, <1>7 DEF StepBacked

-----------------------------------------------------------------------------
(* Solvency in every step *)

LEMMA InitSufficient == Init => Sufficient
<1> SUFFICES ASSUME Init PROVE Sufficient
  OBVIOUS
<1>1. /\ \A t \in Tokens : pools[t] = NewPool(InitialLiquidity[t])
      /\ flashloans = {} /\ transient_id_counter = 0 /\ ops = 0
  BY DEF Init
<1>2. Numbered(flashloans, transient_id_counter)
  BY <1>1 DEF Numbered
<1>3. ASSUME NEW t \in Tokens
      PROVE  /\ pools[t].stable_loan_amount = 0
             /\ Short(t) * ONE <= ops * (pools[t].loan_index + 2 * ONE)
  <2> DEFINE a == InitialLiquidity[t]
  <2>1. a \in Nat /\ ONE \in Nat
    BY ManagerAssumption, DecimalsAssumption
  <2>2. pools[t] = NewPool(a)
    BY <1>1
  <2> HIDE DEF a
  <2>3. Lack(pools[t]) = 0
    <3>1. DMul(a, ONE) = a /\ DMul(0, ONE) = 0
      BY <2>1, DMulOne
    <3> QED BY <2>1, <2>2, <3>1 DEF NewPool, Lack
  <2>4. Sum(Lent(t)) = 0
    <3>1. Lent(t) \in Seq(Int) /\ Len(Lent(t)) = 0
      BY <1>1, LentNow, LentOfType
    <3> QED BY <3>1, SumType
  <2>5. Short(t) = 0
    BY <2>3, <2>4 DEF Short
  <2>6. pools[t].loan_index = ONE /\ pools[t].stable_loan_amount = 0
    BY <2>2 DEF NewPool
  <2> QED BY <1>1, <2>1, <2>5, <2>6
<1> QED BY <1>2, <1>3 DEF Sufficient

LEMMA StableOpened ==
  ASSUME IInv, IInv', NEW c, NEW b, NEW amount, NEW dx, NEW rate,
         cdps' = Append(cdps, NewCdp(c, b, amount, dx, 0, rate, TRUE))
  PROVE  ~NoStableLoans'
<1> DEFINE x == NewCdp(c, b, amount, dx, 0, rate, TRUE)
<1>1. x.is_stable = TRUE /\ cdps' = Append(cdps, x)
  BY DEF NewCdp
<1> HIDE DEF x
<1>2. Len(cdps) + 1 \in Ids' /\ cdps'[Len(cdps) + 1] = x
  <2> DEFINE s == cdps   r == cdps'
  <2>1. s \in Seq(CollateralDebtPosition) /\ r \in Seq(CollateralDebtPosition)
        /\ r = Append(s, x)
    BY <1>1 DEF IInv, Books
  <2>2. Ids' = 1..Len(r)
    BY DEF Ids
  <2> HIDE DEF s, r
  <2>3. Len(r) = Len(s) + 1 /\ Len(s) \in Nat /\ r[Len(s) + 1] = x
    BY <2>1
  <2>4. Len(s) + 1 \in Ids'
    BY <2>2, <2>3
  <2> QED BY <2>3, <2>4 DEF s, r
<1> QED BY <1>1, <1>2 DEF NoStableLoans

LEMMA NextBacked ==
  ASSUME IInv, IInv', Growth, Growth', Prudence, Inputs["insurance"] = {},
         NoStableLoans, NoStableLoans', Sufficient, [Next]_vars
  PROVE  StepBacked
<1>1. ASSUME NEW a \in Arguments, NEW n \in Inputs[a] PROVE n \in Nat
  BY ManagerAssumption
<1>2. ops \in Nat
  BY DEF IInv, Frame
<1>3. DepositStep => StepBacked
  BY <1>1, SupplyBacked, WithdrawBacked DEF DepositStep, Arguments
<1>4. LoanStep => StepBacked
  <2>1. ASSUME NEW m \in Markets, NEW dx \in Inputs["collateral"],
               NEW amount \in Inputs["variable"], BorrowVariable(m[1], m[2], dx, amount)
        PROVE  StepBacked
    <3>1. m[2] \in Tokens
      BY ManagerAssumption
    <3>2. amount \in Nat
      BY <1>1 DEF Arguments
    <3> QED BY <2>1, <3>1, <3>2, BorrowVariableBacked
  <2>2. ASSUME NEW m, NEW dx, NEW amount, BorrowStable(m[1], m[2], dx, amount)
        PROVE  FALSE
    BY <2>2, StableOpened DEF BorrowStable
  <2>3. ASSUME NEW i \in Pledged, NEW amount \in Inputs["extend"],
               ExtendVariable(i, amount) \/ ExtendStable(i, amount)
        PROVE  StepBacked
    <3>1. amount \in Nat
      BY <1>1 DEF Arguments
    <3>2. i \in Ids
      BY PledgedToken DEF IInv
    <3>3. ~ExtendStable(i, amount)
      BY <3>2 DEF ExtendStable, NoStableLoans
    <3> QED BY <2>3, <3>1, <3>3, ExtendVariableBacked
  <2> QED BY <2>1, <2>2, <2>3 DEF LoanStep
<1>5. CollateralStep => StepBacked
  <2>1. ASSUME NEW i \in Pledged, NEW n \in Inputs["withdraw_collateral"],
               WithdrawCollateral(i, n)
        PROVE  StepBacked
    BY <1>1, <2>1, WithdrawCollateralBacked DEF Arguments
  <2>2. ASSUME NEW i \in Pledged, NEW n \in Inputs["addition_dx"], AddCollateralDx(i, n)
        PROVE  StepBacked
    <3>1. pools' = pools /\ LentKept /\ ops' >= ops
      BY <1>2, <2>2 DEF AddCollateralDx, PoolsAndCdps, LentKept, Call
    <3> QED BY <3>1, NothingMoved
  <2>3. ASSUME NEW i \in Pledged, NEW n \in Inputs["addition"], AddCollateral(i, n)
        PROVE  StepBacked
    BY <1>1, <2>3, AddCollateralBacked DEF Arguments
  <2> QED BY <2>1, <2>2, <2>3 DEF CollateralStep
<1>6. RepayStep => StepBacked
  BY RepayBacked, LiquidationBacked DEF RepayStep
<1>7. ~StakingStep
  <2>1. ASSUME NEW claim, NEW amount, NEW rate, StakingBorrow(amount, rate, claim)
        PROVE  FALSE
    BY <2>1, StableOpened DEF StakingBorrow
  <2>2. cdp_vault = {}
    BY DEF Growth, StakingVault, NoStableLoans, IInv, Frame
  <2> QED BY <2>1, <2>2 DEF StakingStep
<1>8. PoolStep => StepBacked
  <2>1. ASSUME NEW t \in Tokens, NEW n \in Inputs["flashloan"], BorrowFlashloan(t, n)
        PROVE  StepBacked
    BY <1>1, <2>1, BorrowFlashloanBacked DEF Arguments
  <2>2. ASSUME NEW percent, SetCloseFactor(percent)
        PROVE  StepBacked
    <3>1. pools' = pools /\ LentKept /\ ops' >= ops
      BY <1>2, <2>2 DEF SetCloseFactor, LentKept, Call
    <3> QED BY <3>1, NothingMoved
  <2> QED BY <2>1, <2>2, RepayFlashloanBacked DEF PoolStep
<1>9. ASSUME WorldStep \/ UNCHANGED vars PROVE StepBacked
  <2>1. pools' = pools /\ LentKept /\ ops' = ops
    BY <1>9 DEF WorldStep, Tick, PriceMove, vars, LentKept
  <2> QED BY <1>2, <2>1, NothingMoved
<1> QED BY <1>3, <1>4, <1>5, <1>6, <1>7, <1>8, <1>9 DEF Next

LEMMA SufficientKept ==
  ASSUME IInv, IInv', Growth, Growth', NoStableLoans', Sufficient, StepBacked,
         CallKept \/ TimePasses
  PROVE  Sufficient'
<1>1. ASSUME NEW t \in Tokens
      PROVE  /\ pools'[t].stable_loan_amount = 0
             /\ Short(t)' * ONE <= ops' * (pools'[t].loan_index + 2 * ONE)
  <2> DEFINE s == Short(t)   r == Short(t)'   m == ops   n == ops'
             k == pools[t].loan_index + 2 * ONE   l == pools'[t].loan_index + 2 * ONE
  <2>1. /\ pools'[t].stable_loan_amount = pools[t].stable_loan_amount
        /\ pools'[t].loan_index >= pools[t].loan_index
    <3>1. CASE CallKept
      BY <3>1 DEF CallKept, PoolMoved, SameStable, Grown
    <3>2. CASE TimePasses
      <4>1. pools'[t] = pools[t] /\ pools[t].loan_index \in Int
        BY <3>2, ShortType DEF TimePasses
      <4> QED BY <4>1
    <3> QED BY <3>1, <3>2
  <2>2. /\ s \in Int /\ r \in Int /\ m \in Nat /\ n \in Nat /\ k \in Nat /\ l \in Nat
        /\ k <= l /\ ONE \in Nat
    <3> DEFINE p == pools[t].loan_index   q == pools'[t].loan_index
    <3>1. s \in Int /\ r \in Int /\ p \in Nat /\ q \in Nat /\ q >= p
      BY <2>1, ShortType, ShortTypeNext
    <3>2. m \in Nat /\ n \in Nat /\ ONE \in Nat
      BY DecimalsAssumption DEF IInv, Frame
    <3> HIDE DEF p, q
    <3>3. p + 2 * ONE \in Nat /\ q + 2 * ONE \in Nat /\ p + 2 * ONE <= q + 2 * ONE
      BY <3>1, <3>2
    <3> QED BY <3>1, <3>2, <3>3 DEF p, q
  <2>3. s * ONE <= m * k /\ r * ONE <= s * ONE + (n - m) * l
    BY DEF Sufficient, StepBacked
  <2> HIDE DEF s, r, m, n, k, l
  <2>4. k * m <= l * m
    BY <2>2, TimesMonotone
  <2> DEFINE sO == s * ONE   rO == r * ONE   mk == m * k   ml == m * l   nl == n * l
  <2>5. /\ (n - m) * l = nl - ml /\ k * m = mk /\ l * m = ml
        /\ sO \in Int /\ rO \in Int /\ mk \in Int /\ ml \in Int /\ nl \in Int
    BY <2>2
  <2> HIDE DEF sO, rO, mk, ml, nl
  <2>6. rO <= nl
    BY <2>3, <2>4, <2>5 DEF sO, rO, mk
  <2>7. r * ONE <= n * l
    BY <2>6 DEF rO, nl
  <2>8. pools[t].stable_loan_amount = 0
    BY DEF Sufficient
  <2> QED BY <2>1, <2>7, <2>8 DEF r, n, l
<1>2. Numbered(flashloans, transient_id_counter)'
  BY DEF StepBacked
<1> QED BY <1>1, <1>2 DEF Sufficient

\* What a pool is short of is its surplus, the other way round.
LEMMA ShortIsNoSurplus ==
  ASSUME NEW t \in Tokens
  PROVE  /\ IInv /\ Growth => Surplus(t) = -Short(t)
         /\ IInv' /\ Growth' => Surplus(t)' = -Short(t)'
<1> DEFINE P == pools[t]
           d == DMul(P.dx_supply, P.deposit_index)
           v == DMul(P.variable_loan_share_quantity, P.loan_index)
<1>1. ASSUME IInv, Growth PROVE Surplus(t) = -Short(t)
  <2> DEFINE s == Sum(Lent(t))
  <2>1. /\ d \in Int /\ v \in Int /\ s \in Int /\ P.vault \in Int
        /\ P.insurance_balance \in Int
    BY <1>1, ShortType, LackType
  <2>2. /\ Surplus(t) = (P.vault + s + v) - (d + P.insurance_balance)
        /\ Short(t) = (d + P.insurance_balance - P.vault - v) - s
    BY DEF Surplus, Liabilities, Assets, Short, Lack
  <2> HIDE DEF P, d, v, s
  <2> QED BY <2>1, <2>2
<1>2. ASSUME IInv', Growth' PROVE Surplus(t)' = -Short(t)'
  <2> DEFINE s == Sum(Lent(t))'
             Q == pools'[t]
             e == DMul(Q.dx_supply, Q.deposit_index)
             w == DMul(Q.variable_loan_share_quantity, Q.loan_index)
  <2>1. /\ e \in Int /\ w \in Int /\ s \in Int /\ Q.vault \in Int
        /\ Q.insurance_balance \in Int
    BY <1>2, ShortTypeNext, LackType
  <2>2. Short(t)' = (e + Q.insurance_balance - Q.vault - w) - s
    BY <1>2, ShortTypeNext DEF Lack
  <2>3. Surplus(t)' = (Q.vault + s + w) - (e + Q.insurance_balance)
    BY DEF Surplus, Liabilities, Assets
  <2> HIDE DEF Q, e, w, s
  <2> QED BY <2>1, <2>2, <2>3
<1> QED BY <1>1, <1>2

\* A step counts one call or none.
OneCallAtMost == ops' - ops \in {0, 1}

LEMMA OpsCounted == ASSUME IInv, [Next]_vars PROVE OneCallAtMost
<1>1. ops \in Nat
  BY DEF IInv, Frame
<1>2. DepositStep => Call
  BY Zenon DEF DepositStep, Supply, Withdraw
<1>3. LoanStep => Call
  <2>1. \A c, b, dx, n : BorrowVariable(c, b, dx, n) => Call
    BY Zenon DEF BorrowVariable
  <2>2. \A c, b, dx, n : BorrowStable(c, b, dx, n) => Call
    BY Zenon DEF BorrowStable
  <2>3. \A i, n : ExtendVariable(i, n) => Call
    BY Zenon DEF ExtendVariable
  <2>4. \A i, n : ExtendStable(i, n) => Call
    BY ZenonT(60) DEF ExtendStable
  <2> QED BY <2>1, <2>2, <2>3, <2>4 DEF LoanStep
<1>4. CollateralStep => Call
  BY Zenon DEF CollateralStep, WithdrawCollateral, AddCollateral, AddCollateralDx
<1>5. RepayStep => Call
  <2>1. \A i, n : Repay(i, n) => Call
    BY Zenon DEF Repay
  <2>2. \A i, n, cover, bp, cp : Liquidation(i, n, cover, bp, cp) => Call
    BY DEF Liquidation
  <2> QED BY <2>1, <2>2 DEF RepayStep
<1>6. StakingStep => Call
  BY Zenon DEF StakingStep, StakingBorrow, StakingRepay
<1>7. PoolStep => Call
  BY Zenon DEF PoolStep, BorrowFlashloan, RepayFlashloan, WithdrawInsurance, SetCloseFactor
<1>8. WorldStep \/ UNCHANGED vars => ops' = ops
  BY DEF WorldStep, Tick, PriceMove, vars
<1>9. Call \/ ops' = ops
  BY <1>2, <1>3, <1>4, <1>5, <1>6, <1>7, <1>8 DEF Next
<1> QED BY <1>1, <1>9 DEF OneCallAtMost, Call

\* While nobody takes a stable loan and the admin leaves the insurance alone, a
\* pool owns what it owes, but for less than a loan share's worth and two last
\* digits a call: no sequence of deposits, loans, repayments, liquidations and
\* flash loans, of any amounts, pays out at the depositors' expense.
THEOREM SolventHolds ==
  ASSUME Prudence, Inputs["insurance"] = {}
  PROVE  Spec => ([]NoStableLoans => []Solvent)
<1>1. (NoStableLoans => RatesKnown) /\ (NoStableLoans' => RatesKnown')
  BY DEF RatesKnown
<1>2. /\ IInv /\ IInv' /\ Growth /\ Growth' /\ NoStableLoans /\ NoStableLoans'
      /\ Sufficient /\ [Next]_vars /\ [CallKept \/ TimePasses]_vars
      => Sufficient'
  <2> SUFFICES ASSUME IInv, IInv', Growth, Growth', NoStableLoans, NoStableLoans',
                      Sufficient, [Next]_vars
               PROVE  Sufficient'
    OBVIOUS
  <2>1. StepBacked
    BY NextBacked
  <2>2. CallKept \/ TimePasses
    BY <1>1, NextKept
  <2> QED BY <2>1, <2>2, SufficientKept
<1>3. Spec /\ []NoStableLoans => []Sufficient
  <2>1. Spec /\ []NoStableLoans => []IInv /\ []Growth /\ [][CallKept \/ TimePasses]_vars
    BY <1>1, GrowthHolds, StepKept, InvariantHolds, PTL
  <2> QED BY <1>2, <2>1, InitSufficient, PTL DEF Spec
<1>4. ASSUME IInv, Growth, Sufficient PROVE Solvent
  <2> SUFFICES ASSUME NEW t \in Tokens
               PROVE  (Liabilities(t) - Assets(t)) * ONE
                        <= ops * (pools[t].loan_index + 2 * ONE)
    BY DEF Solvent
  <2>1. Liabilities(t) - Assets(t) = Short(t)
    <3>1. Assets(t) - Liabilities(t) = -Short(t) /\ Short(t) \in Int
      BY <1>4, ShortIsNoSurplus, ShortType DEF Surplus
    <3>2. Assets(t) \in Int /\ Liabilities(t) \in Int
      BY <1>4, ShortType, LackType DEF Assets, Liabilities
    <3> QED BY <3>1, <3>2
  <2> QED BY <1>4, <2>1 DEF Sufficient
<1> QED BY <1>3, <1>4, <1>1, GrowthHolds, InvariantHolds, PTL

\* While nobody takes a stable loan and the admin leaves the insurance alone, every
\* call books what it moves once and in full: between what a pool owns and what it
\* owes nothing is lost but less than a loan share's worth and two last digits, and
\* nothing is left over but the roundings and what is not shared out of a flash
\* loan's fee, whatever the amounts, the units, the rates and the time that passed.
THEOREM BooksBalanceHolds ==
  ASSUME Prudence, Inputs["insurance"] = {}
  PROVE  Spec => ([]NoStableLoans => BooksBalance)
<1> DEFINE Balanced ==
             \A t \in Tokens :
               LET change == (Surplus(t)' - Surplus(t)) * ONE
               IN  /\ change >= -(pools'[t].loan_index + 2 * ONE)
                   /\ change <= Rounding(t) + FeeKept(t)
<1>1. ASSUME IInv, IInv', Growth, Growth', StepBacked, OneCallAtMost
      PROVE  Balanced
  <2> SUFFICES ASSUME NEW t \in Tokens
               PROVE  LET change == (Surplus(t)' - Surplus(t)) * ONE
                      IN  /\ change >= -(pools'[t].loan_index + 2 * ONE)
                          /\ change <= Rounding(t) + FeeKept(t)
    OBVIOUS
  <2> DEFINE s == Short(t)   r == Short(t)'   l == pools'[t].loan_index
             sO == s * ONE   rO == r * ONE
  <2>1. Surplus(t) = -s /\ Surplus(t)' = -r
    BY <1>1, ShortIsNoSurplus
  <2>2. s \in Int /\ r \in Int /\ l \in Nat /\ ONE \in Nat /\ ops' - ops \in {0, 1}
    BY <1>1, ShortType, ShortTypeNext, DecimalsAssumption DEF OneCallAtMost
  <2>3. /\ rO <= sO + (ops' - ops) * (l + 2 * ONE)
        /\ (s - r) * ONE <= Rounding(t) + FeeKept(t)
    BY <1>1 DEF StepBacked
  <2> HIDE DEF s, r, l
  <2>4. (s - r) * ONE = sO - rO /\ sO \in Int /\ rO \in Int
    BY <2>2
  <2>5. (ops' - ops) * (l + 2 * ONE) <= l + 2 * ONE /\ (ops' - ops) * (l + 2 * ONE) \in Int
    BY <2>2
  <2>6. sO - rO >= -(l + 2 * ONE)
    <3> DEFINE z == (ops' - ops) * (l + 2 * ONE)
    <3>1. rO <= sO + z /\ z <= l + 2 * ONE /\ z \in Int
      BY <2>3, <2>5
    <3> HIDE DEF sO, rO, z
    <3> QED BY <2>2, <2>4, <3>1
  <2>7. (-r) - (-s) = s - r
    BY <2>2
  <2> QED BY <2>1, <2>3, <2>4, <2>6, <2>7 DEF l
<1>2. (NoStableLoans => RatesKnown) /\ (NoStableLoans' => RatesKnown')
  BY DEF RatesKnown
<1>3. /\ IInv /\ IInv' /\ Growth /\ Growth' /\ NoStableLoans /\ NoStableLoans'
      /\ Sufficient /\ [Next]_vars /\ [CallKept \/ TimePasses]_vars
      => Sufficient' /\ [Balanced]_vars
  <2> SUFFICES ASSUME IInv, IInv', Growth, Growth', NoStableLoans, NoStableLoans',
                      Sufficient, [Next]_vars
               PROVE  Sufficient' /\ [Balanced]_vars
    OBVIOUS
  <2>1. StepBacked
    BY NextBacked
  <2>2. CallKept \/ TimePasses
    BY <1>2, NextKept
  <2>3. OneCallAtMost
    BY OpsCounted
  <2> HIDE DEF Balanced
  <2> QED BY <1>1, <2>1, <2>2, <2>3, SufficientKept
<1>4. Spec /\ []NoStableLoans => [][Balanced]_vars
  <2>1. Spec /\ []NoStableLoans => []IInv /\ []Growth /\ [][CallKept \/ TimePasses]_vars
    BY <1>2, GrowthHolds, StepKept, InvariantHolds, PTL
  <2> HIDE DEF Balanced
  <2> QED BY <1>3, <2>1, InitSufficient, PTL DEF Spec
<1> QED BY <1>4 DEF BooksBalance

-----------------------------------------------------------------------------
(* What the insurance pays, call by call *)

\* What is inductive next to IInv and Growth while nobody takes a stable loan: the
\* rates of every pool fit its books.
Rated == \A t \in Tokens : pools[t].stable_loan_amount = 0 /\ Matched(pools[t])

PoolsInsured == \A t \in Tokens : Insured(pools'[t], pools[t], Env(t))

LEMMA OneInsured ==
  ASSUME IInv, Growth, Prudence, Rated, NEW b \in Tokens, NEW Q,
         pools' = [pools EXCEPT ![b] = Q], Insured(Q, pools[b], Env(b))
  PROVE  PoolsInsured
<1> SUFFICES ASSUME NEW t \in Tokens PROVE Insured(pools'[t], pools[t], Env(t))
  BY DEF PoolsInsured
<1>1. pools'[t] = IF t = b THEN Q ELSE pools[t]
  BY DEF IInv, Books
<1>2. Insured(pools[t], pools[t], Env(t))
  BY PoolGrows, SelfInsured DEF Rated
<1> QED BY <1>1, <1>2

LEMMA NoneInsured ==
  ASSUME IInv, Growth, Prudence, Rated, pools' = pools
  PROVE  PoolsInsured
  BY PoolGrows, SelfInsured DEF Rated, PoolsInsured

LEMMA DepositInsured ==
  ASSUME IInv, Growth, Prudence, Rated, NEW t \in Tokens, NEW amount \in Nat,
         CanAddLiquidity(pools[t], Env(t), amount),
         pools' = [pools EXCEPT ![t] = AddLiquidity(pools[t], Env(t), amount)]
  PROVE  PoolsInsured
<1>1. Insured(AddLiquidity(pools[t], Env(t), amount), pools[t], Env(t))
  BY PoolGrows, AddLiquidityInsured DEF Rated
<1> QED BY <1>1, OneInsured

LEMMA RemovalInsured ==
  ASSUME IInv, Growth, Prudence, Rated, NEW t \in Tokens,
         NEW dx \in Nat, dx <= pools[t].dx_supply,
         CanRemoveLiquidity(pools[t], Env(t), dx),
         pools' = [pools EXCEPT ![t] = RemoveLiquidity(pools[t], Env(t), dx)]
  PROVE  PoolsInsured
<1>1. Insured(RemoveLiquidity(pools[t], Env(t), dx), pools[t], Env(t))
  BY PoolGrows, RemoveLiquidityInsured DEF Rated
<1> QED BY <1>1, OneInsured

LEMMA LoanInsured ==
  ASSUME IInv, Growth, Prudence, Rated, NEW b \in Tokens, NEW amount \in Nat,
         CanBorrowVariable(pools[b], Env(b), amount),
         pools' = [pools EXCEPT ![b] = PoolBorrowVariable(pools[b], Env(b), amount)]
  PROVE  PoolsInsured
<1>1. SharesFor(pools[b], Env(b), amount) \in Nat
  BY PoolGrows, SharesForBounds
<1>2. Insured(PoolBorrowVariable(pools[b], Env(b), amount), pools[b], Env(b))
  BY <1>1, PoolGrows, BorrowVariableInsured DEF Rated
<1> QED BY <1>2, OneInsured

LEMMA WithdrawInsured ==
  ASSUME IInv, Growth, Prudence, Rated, NEW t \in Tokens, NEW dx \in Nat, Withdraw(t, dx)
  PROVE  PoolsInsured
<1>1. /\ CanRemoveLiquidity(pools[t], Env(t), dx) /\ dx <= FreeDx(t)
      /\ pools' = [pools EXCEPT ![t] = RemoveLiquidity(pools[t], Env(t), dx)]
  BY DEF Withdraw, OnlyPools
<1>2. dx <= pools[t].dx_supply
  <2>1. pools[t].dx_supply \in Nat /\ collateral_vaults[t] \in Nat
    BY BookedType DEF IInv
  <2> QED BY <1>1, <2>1 DEF FreeDx
<1> QED BY <1>1, <1>2, RemovalInsured

LEMMA ExtendVariableInsured ==
  ASSUME IInv, Growth, Prudence, Rated,
         NEW i \in Pledged, NEW amount \in Nat, ExtendVariable(i, amount)
  PROVE  PoolsInsured
<1> DEFINE b == cdps[i].borrow_token
<1>1. /\ CanBorrowVariable(pools[b], Env(b), amount)
      /\ pools' = [pools EXCEPT ![b] = PoolBorrowVariable(pools[b], Env(b), amount)]
  BY Zenon DEF ExtendVariable, PoolsAndCdps
<1>2. b \in Tokens
  BY PledgedToken, CdpKnown, CdpType DEF IInv
<1> HIDE DEF b
<1> QED BY <1>1, <1>2, LoanInsured

LEMMA AddCollateralInsured ==
  ASSUME IInv, Growth, Prudence, Rated,
         NEW i \in Pledged, NEW amount \in Nat, AddCollateral(i, amount)
  PROVE  PoolsInsured
<1> DEFINE t == cdps[i].collateral_token
<1>1. /\ CanAddLiquidity(pools[t], Env(t), amount)
      /\ pools' = [pools EXCEPT ![t] = AddLiquidity(pools[t], Env(t), amount)]
  BY Zenon DEF AddCollateral, PoolsAndCdps
<1>2. t \in Tokens
  BY PledgedToken DEF IInv
<1> HIDE DEF t
<1> QED BY <1>1, <1>2, DepositInsured

\* The dx that a withdrawal of collateral takes out of custody are dx of the pool.
LEMMA WithdrawCollateralInsured ==
  ASSUME IInv, Growth, Prudence, Rated,
         NEW i \in Pledged, NEW amount \in Nat, WithdrawCollateral(i, amount)
  PROVE  PoolsInsured
<1> DEFINE c     == cdps[i].collateral_token
           index == SupplyIndex(pools[c], Env(c))
           taken == FloorTo(DDiv(amount, index), Config[c].share_unit)
<1>1. /\ index # 0 /\ Takeable(taken, Config[c].share_unit)
      /\ taken <= collateral_vaults[c]
      /\ CanRemoveLiquidity(pools[c], Env(c), taken)
      /\ pools' = [pools EXCEPT ![c] = RemoveLiquidity(pools[c], Env(c), taken)]
  BY Zenon DEF WithdrawCollateral, PoolsAndCdps
<1>2. c \in Tokens
  BY PledgedToken DEF IInv
<1>3. /\ Env(c) \in Environment /\ Sound(pools[c], Env(c))
  BY <1>2, PoolGrows
<1>4. taken \in Nat
  <2>1. index \in Int
    BY <1>3, IndexType
  <2>2. Config[c].share_unit \in Nat \ {0}
    BY <1>2, EnvType DEF IInv, Books, PoolConfig
  <2> HIDE DEF index
  <2>3. DDiv(amount, index) \in Int
    BY <1>1, <2>1, DDivType
  <2>4. taken \in Int
    BY <2>2, <2>3, FloorToBounds
  <2> QED BY <1>1, <2>4 DEF Takeable
<1> HIDE DEF taken
<1>5. taken <= pools[c].dx_supply
  <2>1. /\ pools[c].dx_supply \in Nat /\ collateral_vaults[c] \in Nat
        /\ collateral_vaults[c] <= pools[c].dx_supply
    BY <1>2, BookedType DEF IInv
  <2> QED BY <1>1, <1>4, <2>1
<1> HIDE DEF c
<1> QED BY <1>1, <1>2, <1>4, <1>5, RemovalInsured

\* The payment for variable CDP i, before what a liquidation sells.
LEMMA RepaidInsured ==
  ASSUME IInv, IInv', Growth, Growth', Prudence, Rated,
         NEW i \in Ids, ~cdps[i].is_stable, NEW bucket \in Int, NEW limit \in Int,
         CanRepay(i, bucket, limit),
         NEW S, S = PoolRepaid(i, bucket, limit),
         pools'[cdps[i].borrow_token].variable_loan_share_quantity
           = S.variable_loan_share_quantity
  PROVE  LET b == cdps[i].borrow_token
         IN  /\ b \in Tokens /\ Insured(S, pools[b], Env(b))
             /\ Steady(S, pools[b], Env(b)) /\ S.stable_loan_amount = 0
<1> DEFINE cdp == cdps[i]
           b   == cdp.borrow_token
           e   == Env(b)
           P   == pools[b]
<1>1. b \in Tokens /\ cdp.normalized_borrow \in Nat
  BY RepaidArguments
<1>2. /\ S = PoolRepayVariable(P, e, bucket, cdp.normalized_borrow, limit)
      /\ CanRepayVariable(P, e, bucket, cdp.normalized_borrow, limit)
  BY Zenon DEF PoolRepaid, CanRepay
<1>3. S.variable_loan_share_quantity >= 0
  BY <1>1, ShortTypeNext DEF Booked
<1>4. /\ e \in Environment /\ Sound(P, e) /\ Growing(P) /\ Booked(P)
      /\ Prudent(e) /\ P.stable_loan_amount = 0 /\ Matched(P)
  BY <1>1, PoolGrows DEF Rated
<1>5. cdp.normalized_borrow \in Int
  BY <1>1
<1>6. Insured(S, P, e)
  BY <1>2, <1>3, <1>4, <1>5, RepayVariableInsured
<1>7. Steady(S, P, e) /\ SameStable(S, P)
  BY <1>2, <1>3, <1>4, <1>5, RepayVariableSteady
<1>8. S.stable_loan_amount = 0
  BY <1>4, <1>7 DEF SameStable
<1> QED BY <1>1, <1>6, <1>7, <1>8

LEMMA RepayInsured ==
  ASSUME IInv, IInv', Growth, Growth', Prudence, Rated, NoStableLoans,
         NEW i \in Live, NEW bucket \in Inputs["repay"], Repay(i, bucket)
  PROVE  PoolsInsured
<1> DEFINE b == cdps[i].borrow_token
           S == PoolRepaid(i, bucket, bucket)
<1>1. CanRepay(i, bucket, bucket) /\ pools' = [pools EXCEPT ![b] = S]
  BY Zenon DEF Repay, PoolsAndCdps
<1>2. i \in Ids /\ bucket \in Int /\ ~cdps[i].is_stable
  <2>1. i \in Ids
    BY DEF Live, Pledged, IInv, Frame
  <2>2. bucket \in Nat
    BY ManagerAssumption DEF Arguments
  <2> QED BY <2>1, <2>2 DEF NoStableLoans
<1>3. S = PoolRepaid(i, bucket, bucket)
  OBVIOUS
<1>4. b \in Tokens
  BY <1>2, RepaidArguments
<1> HIDE DEF S
<1>5. pools'[b] = S
  BY <1>1, <1>4 DEF IInv, Books
<1>6. Insured(S, pools[b], Env(b))
  BY <1>1, <1>2, <1>3, <1>5, RepaidInsured
<1> HIDE DEF b
<1> QED BY <1>1, <1>4, <1>6, OneInsured

\* A liquidation repays to one pool and redeems from one: where it is the same, the
\* redemption finds the indices brought up and takes nothing from the insurance.
LEMMA LiquidationInsured ==
  ASSUME IInv, IInv', Growth, Growth', Prudence, Rated, NoStableLoans,
         NEW i \in Pledged,
         NEW bucket \in Inputs["repay"], NEW cover \in Inputs["cover"],
         NEW bp \in Quotes(cdps[i].borrow_token), NEW cp \in Quotes(cdps[i].collateral_token),
         Liquidation(i, bucket, cover, bp, cp)
  PROVE  PoolsInsured
<1> DEFINE b      == cdps[i].borrow_token
           c      == cdps[i].collateral_token
           terms  == LiquidationTerms(i, cover, bp, cp)
           debt   == terms.debt
           dx     == terms.dx
           S      == PoolRepaid(i, bucket, debt)
           repaid == [pools EXCEPT ![b] = S]
           R      == RemoveLiquidity(repaid[c], Env(c), dx)
<1>1. /\ i \in Ids /\ c \in Tokens /\ b \in Tokens /\ ~cdps[i].is_stable
      /\ bucket \in Nat /\ cover \in Nat /\ bp \in Nat /\ cp \in Nat
  <2>1. i \in Ids /\ c \in Tokens /\ b \in Tokens
    BY PledgedToken, CdpKnown, CdpType DEF IInv
  <2>2. bp \in Nat /\ cp \in Nat
    BY <2>1, QuotesType DEF IInv
  <2>3. bucket \in Nat /\ cover \in Nat
    BY ManagerAssumption DEF Arguments
  <2> QED BY <2>1, <2>2, <2>3 DEF NoStableLoans
<1>2. /\ CanLiquidate(i, bp, cp)
      /\ CanRepay(i, bucket, debt)
      /\ Takeable(dx, Config[c].share_unit) /\ dx <= collateral_vaults[c]
      /\ CanRemoveLiquidity(repaid[c], Env(c), dx)
      /\ pools' = [repaid EXCEPT ![c] = R]
  <2> HIDE DEF R
  <2> QED BY DEF Liquidation, CanSell, PoolsAndCdps, R
<1>3. debt \in Int /\ dx \in Int
  BY <1>1, <1>2, LiquidationTermsType DEF IInv, Frame
<1> HIDE DEF terms, debt, dx
<1>4. dx \in Nat /\ dx <= pools[c].dx_supply
  <2>1. dx \in Nat
    BY <1>2, <1>3 DEF Takeable
  <2> QED BY <1>1, <1>2, <2>1, BookedType DEF IInv
<1>5. Sound(S, Env(b)) /\ S.dx_supply = pools[b].dx_supply
  <2>1. bucket \in Int
    BY <1>1
  <2> QED BY <1>1, <1>2, <1>3, <2>1, RepaidSound DEF IInv
<1>6. S = PoolRepaid(i, bucket, debt)
  OBVIOUS
<1> HIDE DEF S
<1>7. /\ repaid[b] = S /\ DOMAIN repaid = Tokens
      /\ \A t \in Tokens : repaid[t] = IF t = b THEN S ELSE pools[t]
  BY <1>1 DEF IInv, Books
<1>8. R = RemoveLiquidity(repaid[c], Env(c), dx) /\ pools' = [repaid EXCEPT ![c] = R]
  BY <1>2
<1> HIDE DEF repaid, R
<1>9. \A t \in Tokens : pools'[t] = IF t = c THEN R ELSE repaid[t]
  BY <1>7, <1>8
<1>10. pools'[b].variable_loan_share_quantity = S.variable_loan_share_quantity
  <2>1. CASE b = c
    <3>1. pools'[b] = RemoveLiquidity(S, Env(b), dx)
      BY <1>1, <1>7, <1>8, <1>9, <2>1
    <3>2. CanRemoveLiquidity(S, Env(b), dx) /\ dx <= S.dx_supply
      BY <1>2, <1>4, <1>5, <1>7, <2>1
    <3>3. Env(b) \in Environment
      BY <1>1, PoolGrows
    <3> QED BY <1>4, <1>5, <3>1, <3>2, <3>3, RemoveLiquiditySound
  <2>2. CASE b # c
    BY <1>1, <1>7, <1>9, <2>2
  <2> QED BY <2>1, <2>2
<1>11. /\ Insured(S, pools[b], Env(b))
       /\ Steady(S, pools[b], Env(b)) /\ S.stable_loan_amount = 0
  <2>1. bucket \in Int
    BY <1>1
  <2> QED BY <1>1, <1>2, <1>3, <1>6, <1>10, <2>1, RepaidInsured
<1>12. Growing(S) /\ Booked(S) /\ S.last_update = Env(b).now /\ Matched(S)
  BY <1>11 DEF Steady, Settled, Insured
<1> HIDE DEF b, c
<1> SUFFICES ASSUME NEW t \in Tokens PROVE Insured(pools'[t], pools[t], Env(t))
  BY DEF PoolsInsured
<1>13. CASE t = b /\ t = c
  <2>1. pools'[t] = RemoveLiquidity(S, Env(b), dx)
    BY <1>7, <1>8, <1>9, <1>13
  <2>2. CanRemoveLiquidity(S, Env(b), dx) /\ dx <= S.dx_supply
    BY <1>2, <1>4, <1>5, <1>7, <1>13
  <2>3. Env(b) \in Environment /\ Prudent(Env(b))
    BY <1>1, PoolGrows
  <2>4. Insured(pools'[t], S, Env(b))
    BY <1>4, <1>5, <1>11, <1>12, <2>1, <2>2, <2>3, RemoveLiquidityInsured
  <2> DEFINE x == pools[t].insurance_balance   y == S.insurance_balance
             z == pools'[t].insurance_balance   lost == DigitsLost(pools[t], Env(t))
             xO == x * ONE   yO == y * ONE   zO == z * ONE
  <2>5. x \in Int /\ y \in Int /\ z \in Int /\ ONE \in Nat /\ lost \in Nat
    <3>1. pools[t] \in Pool /\ pools'[t] \in Pool /\ S \in Pool
      BY <1>5, ShortType, ShortTypeNext DEF Sound
    <3>2. lost \in Nat
      BY PoolGrows, SelfInsured DEF Rated
    <3> HIDE DEF lost
    <3> QED BY <3>1, <3>2, DecimalsAssumption DEF Pool
  <2>6. (y - z) * ONE <= 0
    <3>1. DigitsLost(S, Env(b)) = 0
      BY <1>12 DEF DigitsLost
    <3> QED BY <2>4, <3>1 DEF Insured
  <2>7. (x - y) * ONE <= lost
    BY <1>11, <1>13 DEF Insured
  <2> HIDE DEF x, y, z, lost
  <2>8. /\ (y - z) * ONE = yO - zO /\ (x - y) * ONE = xO - yO /\ (x - z) * ONE = xO - zO
        /\ xO \in Int /\ yO \in Int /\ zO \in Int
    BY <2>5
  <2> HIDE DEF xO, yO, zO
  <2>9. (x - z) * ONE <= lost
    BY <2>5, <2>6, <2>7, <2>8
  <2>10. Matched(pools'[t])
    BY <2>4 DEF Insured
  <2> QED BY <2>9, <2>10 DEF Insured, x, z, lost
<1>14. CASE t = b /\ t # c
  BY <1>7, <1>9, <1>11, <1>14
<1>15. CASE t # b /\ t = c
  <2>1. repaid[t] = pools[t]
    BY <1>7, <1>15
  <2>2. pools'[t] = RemoveLiquidity(pools[t], Env(t), dx) /\ dx <= pools[t].dx_supply
        /\ CanRemoveLiquidity(pools[t], Env(t), dx)
    BY <1>2, <1>4, <1>8, <1>9, <1>15, <2>1
  <2> QED BY <1>4, <2>2, PoolGrows, RemoveLiquidityInsured DEF Rated
<1>16. CASE t # b /\ t # c
  <2>1. pools'[t] = pools[t]
    BY <1>7, <1>9, <1>16
  <2> QED BY <2>1, PoolGrows, SelfInsured DEF Rated
<1> QED BY <1>13, <1>14, <1>15, <1>16

LEMMA FlashloansInsured ==
  ASSUME IInv, Growth, Prudence, Rated
  PROVE  /\ \A t \in Tokens, amount \in Nat : BorrowFlashloan(t, amount) => PoolsInsured
         /\ \A f \in flashloans : RepayFlashloan(f) => PoolsInsured
         /\ \A t \in Tokens, amount \in Nat : WithdrawInsurance(t, amount) => PoolsInsured
<1>1. ASSUME NEW t \in Tokens, NEW amount \in Nat, BorrowFlashloan(t, amount)
      PROVE  PoolsInsured
  <2>1. Insured(PoolBorrowFlashloan(pools[t], Env(t), amount), pools[t], Env(t))
    BY PoolGrows, BorrowFlashloanInsured DEF Rated
  <2> QED BY <1>1, <2>1, OneInsured DEF BorrowFlashloan
<1>2. ASSUME NEW f \in flashloans, RepayFlashloan(f)
      PROVE  PoolsInsured
  <2> DEFINE t == f.res_addr
             Q == PoolRepayFlashloan(pools[t], Env(t), f.amount, f.fee)
  <2>1. CanRepayFlashloan(pools[t], Env(t), f.fee) /\ pools' = [pools EXCEPT ![t] = Q]
    BY <1>2 DEF RepayFlashloan
  <2>2. t \in Tokens /\ f.amount \in Nat /\ f.fee \in Nat
    BY DEF IInv, Frame, FlashLoanData
  <2> HIDE DEF t
  <2>3. Insured(Q, pools[t], Env(t))
    BY <2>1, <2>2, PoolGrows, RepayFlashloanInsured DEF Rated
  <2> HIDE DEF Q
  <2> QED BY <2>1, <2>2, <2>3, OneInsured
<1>3. ASSUME NEW t \in Tokens, NEW amount \in Nat, WithdrawInsurance(t, amount)
      PROVE  PoolsInsured
  <2>1. Insured(PoolWithdrawInsurance(pools[t], Env(t), amount), pools[t], Env(t))
    BY PoolGrows, WithdrawInsuranceInsured DEF Rated
  <2> QED BY <1>3, <2>1, OneInsured DEF WithdrawInsurance, OnlyPools
<1> QED BY <1>1, <1>2, <1>3

LEMMA NextInsured ==
  ASSUME IInv, IInv', Growth, Growth', Prudence, NoStableLoans, NoStableLoans', Rated,
         [Next]_vars
  PROVE  PoolsInsured
<1>1. ASSUME NEW a \in Arguments, NEW n \in Inputs[a] PROVE n \in Nat
  BY ManagerAssumption
<1>2. DepositStep => PoolsInsured
  <2>1. ASSUME NEW t \in Tokens, NEW n \in Inputs["supply"], Supply(t, n) PROVE PoolsInsured
    <3>1. n \in Nat
      BY <1>1 DEF Arguments
    <3> QED BY <2>1, <3>1, DepositInsured DEF Supply, OnlyPools
  <2>2. ASSUME NEW t \in Tokens, NEW n \in Inputs["withdraw"], Withdraw(t, n)
        PROVE  PoolsInsured
    BY <1>1, <2>2, WithdrawInsured DEF Arguments
  <2> QED BY <2>1, <2>2 DEF DepositStep
<1>3. LoanStep => PoolsInsured
  <2>1. ASSUME NEW m \in Markets, NEW dx \in Inputs["collateral"],
               NEW amount \in Inputs["variable"], BorrowVariable(m[1], m[2], dx, amount)
        PROVE  PoolsInsured
    <3> DEFINE b == m[2]
    <3>1. b \in Tokens
      BY ManagerAssumption
    <3>2. amount \in Nat
      BY <1>1 DEF Arguments
    <3>3. /\ CanBorrowVariable(pools[b], Env(b), amount)
          /\ pools' = [pools EXCEPT ![b] = PoolBorrowVariable(pools[b], Env(b), amount)]
      BY <2>1 DEF BorrowVariable, PoolsAndCdps
    <3> HIDE DEF b
    <3> QED BY <3>1, <3>2, <3>3, LoanInsured
  <2>2. ASSUME NEW m, NEW dx, NEW amount, BorrowStable(m[1], m[2], dx, amount)
        PROVE  FALSE
    BY <2>2, StableOpened DEF BorrowStable
  <2>3. ASSUME NEW i \in Pledged, NEW amount \in Inputs["extend"],
               ExtendVariable(i, amount) \/ ExtendStable(i, amount)
        PROVE  PoolsInsured
    <3>1. amount \in Nat
      BY <1>1 DEF Arguments
    <3>2. i \in Ids
      BY PledgedToken DEF IInv
    <3>3. ~ExtendStable(i, amount)
      BY <3>2 DEF ExtendStable, NoStableLoans
    <3> QED BY <2>3, <3>1, <3>3, ExtendVariableInsured
  <2> QED BY <2>1, <2>2, <2>3 DEF LoanStep
<1>4. CollateralStep => PoolsInsured
  <2>1. ASSUME NEW i \in Pledged, NEW n \in Inputs["withdraw_collateral"],
               WithdrawCollateral(i, n)
        PROVE  PoolsInsured
    BY <1>1, <2>1, WithdrawCollateralInsured DEF Arguments
  <2>2. ASSUME NEW i \in Pledged, NEW n \in Inputs["addition_dx"], AddCollateralDx(i, n)
        PROVE  PoolsInsured
    <3>1. pools' = pools
      BY <2>2 DEF AddCollateralDx, PoolsAndCdps
    <3> QED BY <3>1, NoneInsured
  <2>3. ASSUME NEW i \in Pledged, NEW n \in Inputs["addition"], AddCollateral(i, n)
        PROVE  PoolsInsured
    BY <1>1, <2>3, AddCollateralInsured DEF Arguments
  <2> QED BY <2>1, <2>2, <2>3 DEF CollateralStep
<1>5. RepayStep => PoolsInsured
  BY RepayInsured, LiquidationInsured DEF RepayStep
<1>6. ~StakingStep
  <2>1. ASSUME NEW claim, NEW amount, NEW rate, StakingBorrow(amount, rate, claim)
        PROVE  FALSE
    BY <2>1, StableOpened DEF StakingBorrow
  <2>2. cdp_vault = {}
    BY DEF Growth, StakingVault, NoStableLoans, IInv, Frame
  <2> QED BY <2>1, <2>2 DEF StakingStep
<1>7. PoolStep => PoolsInsured
  <2>1. ASSUME NEW t \in Tokens, NEW n \in Inputs["flashloan"], BorrowFlashloan(t, n)
        PROVE  PoolsInsured
    <3>1. n \in Nat
      BY <1>1 DEF Arguments
    <3> QED BY <2>1, <3>1, FlashloansInsured
  <2>2. ASSUME NEW t \in Tokens, NEW n \in Inputs["insurance"], WithdrawInsurance(t, n)
        PROVE  PoolsInsured
    <3>1. n \in Nat
      BY <1>1 DEF Arguments
    <3> QED BY <2>2, <3>1, FlashloansInsured
  <2>3. ASSUME NEW percent, SetCloseFactor(percent) PROVE PoolsInsured
    <3>1. pools' = pools
      BY <2>3 DEF SetCloseFactor
    <3> QED BY <3>1, NoneInsured
  <2> QED BY <2>1, <2>2, <2>3, FlashloansInsured DEF PoolStep
<1>8. ASSUME WorldStep \/ UNCHANGED vars PROVE PoolsInsured
  <2>1. pools' = pools
    BY <1>8 DEF WorldStep, Tick, PriceMove, vars
  <2> QED BY <2>1, NoneInsured
<1> QED BY <1>2, <1>3, <1>4, <1>5, <1>6, <1>7, <1>8 DEF Next

LEMMA InitRated == Init => Rated
<1> SUFFICES ASSUME Init, NEW t \in Tokens
             PROVE  pools[t].stable_loan_amount = 0 /\ Matched(pools[t])
  BY DEF Rated
<1> DEFINE a == InitialLiquidity[t]
<1>1. a \in Nat /\ ONE \in Nat
  BY ManagerAssumption, DecimalsAssumption
<1>2. pools[t] = NewPool(a)
  BY DEF Init
<1> HIDE DEF a
<1>3. DMul(a, ONE) = a /\ DMul(0, ONE) = 0
  BY <1>1, DMulOne
<1>4. 0 * a <= 0 * 0
  BY <1>1
<1> QED BY <1>2, <1>3, <1>4 DEF NewPool, Matched

\* While nobody takes a stable loan, no call makes a pool pay its depositors more than
\* its borrowers owe: what the insurance balance falls by is within the last digits
\* that the interest of the borrowers, compounded from truncated rates over the
\* epochs since the last update, is short of.  It is so because every call leaves
\* rates that fit the books it leaves, and compound interest is never below linear.
THEOREM InsuranceCoveredHolds ==
  ASSUME Prudence
  PROVE  Spec => ([]NoStableLoans => InsuranceCovered)
<1> DEFINE WithinDigits ==
             \A t \in Tokens :
               (pools[t].insurance_balance - pools'[t].insurance_balance) * ONE
                 <= LastDigits(pools[t])
<1>1. ASSUME IInv, IInv', Growth, Growth', Rated, PoolsInsured
      PROVE  WithinDigits
  <2> SUFFICES ASSUME NEW t \in Tokens
               PROVE  (pools[t].insurance_balance - pools'[t].insurance_balance) * ONE
                        <= LastDigits(pools[t])
    OBVIOUS
  <2> DEFINE P == pools[t]   R == pools'[t]
             b == DMul(P.variable_loan_share_quantity, P.loan_index)
             n == P.variable_loan_share_quantity   r == P.deposit_interest_rate
             delta == epoch - P.last_update   due == delta * (b + r)
             fall == (P.insurance_balance - R.insurance_balance) * ONE
             lost == DigitsLost(P, Env(t))
  <2>1. P \in Pool /\ R \in Pool /\ Growing(P) /\ Booked(P) /\ P.loan_index \in Nat
    BY <1>1, ShortType, ShortTypeNext
  <2>2. Sound(P, Env(t)) /\ Env(t) \in Environment
    BY <1>1, PoolGrows
  <2>3. Env(t).now = epoch
    BY DEF Env
  <2>4. epoch \in Nat /\ ONE \in Nat
    <3> DEFINE e == Env(t)
    <3>1. e \in Environment /\ e.now = epoch
      BY <2>2, <2>3
    <3> HIDE DEF e
    <3>2. e.now \in Nat
      BY <3>1 DEF Environment
    <3> QED BY <3>1, <3>2, DecimalsAssumption
  <2>5. P.last_update <= epoch
    BY <2>2, <2>3 DEF Sound
  <2>6. fall <= lost
    BY <1>1 DEF PoolsInsured, Insured
  <2>7. LastDigits(P) = n + ONE + due
    BY DEF LastDigits
  <2>8. lost = IF epoch = P.last_update THEN 0 ELSE n + ONE + due
    BY <2>3 DEF DigitsLost
  <2> HIDE DEF P, R, lost
  <2>9. n \in Nat /\ r \in Nat /\ delta \in Nat /\ b \in Nat /\ fall \in Int
    <3>1. n \in Nat /\ r \in Nat /\ P.last_update \in Int
      BY <2>1 DEF Pool, Growing, Booked
    <3>2. delta \in Nat
      BY <3>1, <2>4, <2>5
    <3>3. b \in Nat
      BY <3>1, <2>1, DMulNat
    <3>4. P.insurance_balance \in Int /\ R.insurance_balance \in Int
      BY <2>1 DEF Pool
    <3>5. fall \in Int
      BY <3>4, <2>4
    <3> QED BY <3>1, <3>2, <3>3, <3>5
  <2> HIDE DEF n, r, delta, b, fall
  <2>10. due \in Nat
    BY <2>9
  <2> HIDE DEF due
  <2>11. n + ONE + due \in Nat
    BY <2>4, <2>9, <2>10
  <2>12. fall <= n + ONE + due
    BY <2>6, <2>8, <2>9, <2>11
  <2> QED BY <2>7, <2>12 DEF fall, P, R
<1>2. (NoStableLoans => RatesKnown) /\ (NoStableLoans' => RatesKnown')
  BY DEF RatesKnown
<1>3. /\ IInv /\ IInv' /\ Growth /\ Growth' /\ NoStableLoans /\ NoStableLoans'
      /\ Rated /\ [Next]_vars /\ [CallKept \/ TimePasses]_vars
      => Rated' /\ [WithinDigits]_vars
  <2> SUFFICES ASSUME IInv, IInv', Growth, Growth', NoStableLoans, NoStableLoans',
                      Rated, [Next]_vars
               PROVE  Rated' /\ [WithinDigits]_vars
    OBVIOUS
  <2>1. PoolsInsured
    BY NextInsured
  <2>2. CallKept \/ TimePasses
    BY <1>2, NextKept
  <2>3. ASSUME NEW t \in Tokens
        PROVE  pools'[t].stable_loan_amount = 0 /\ Matched(pools'[t])
    <3>1. pools'[t].stable_loan_amount = pools[t].stable_loan_amount
      BY <2>2 DEF CallKept, TimePasses, PoolMoved, SameStable
    <3> QED BY <2>1, <3>1 DEF Rated, PoolsInsured, Insured
  <2>4. Rated'
    BY <2>3 DEF Rated
  <2> HIDE DEF WithinDigits
  <2> QED BY <1>1, <2>1, <2>4
<1>4. Spec /\ []NoStableLoans => [][WithinDigits]_vars
  <2>1. Spec /\ []NoStableLoans => []IInv /\ []Growth /\ [][CallKept \/ TimePasses]_vars
    BY <1>2, GrowthHolds, StepKept, InvariantHolds, PTL
  <2> HIDE DEF WithinDigits
  <2> QED BY <1>3, <2>1, InitRated, PTL DEF Spec
<1> QED BY <1>4 DEF InsuranceCovered

-----------------------------------------------------------------------------
(* What a liquidator gets *)

LEMMA QuotientTimes ==
  ASSUME NEW a \in Nat, NEW b \in Nat \ {0}
  PROVE  DMul(DDiv(a, b), b) <= a
<1> DEFINE q == DDiv(a, b)   m == DMul(q, b)   qb == q * b   aO == a * ONE   mO == m * ONE
<1>1. q \in Nat /\ qb \in Nat /\ aO \in Nat /\ qb <= aO
  BY DDivBounds
<1>2. m \in Nat /\ mO \in Nat /\ mO <= qb
  <2>1. b \in Nat
    OBVIOUS
  <2> HIDE DEF q
  <2> QED BY <1>1, <2>1, DMulBounds
<1> HIDE DEF q, m, qb
<1>3. m * ONE < a * ONE + ONE
  <2>1. mO < aO + ONE
    <3> HIDE DEF aO, mO
    <3> QED BY <1>1, <1>2, DecimalsAssumption
  <2> QED BY <2>1
<1>4. m <= a
  BY <1>2, <1>3, DecimalsAssumption, TimesCancel
<1> QED BY <1>4 DEF m, q

\* The worth of some dx, divided by their number, is their index but for the
\* last digits of the product and of the quotient.
LEMMA IndexOfDx ==
  ASSUME NEW dx \in Nat \ {0}, NEW S \in Nat
  PROVE  /\ ONE \div dx \in Nat
         /\ DDiv(DMul(dx, S), dx) >= S - 1 - (ONE \div dx)
<1> DEFINE u == DMul(dx, S)   q == DDiv(u, dx)   k == ONE \div dx
           uO == u * ONE   qd == q * dx   Sd == S * dx   kd == k * dx
<1>1. u \in Nat /\ uO \in Nat /\ Sd \in Nat /\ Sd < uO + ONE
  <2>1. dx \in Nat /\ dx * S = Sd
    OBVIOUS
  <2> QED BY <2>1, DMulBounds
<1>2. q \in Nat /\ qd \in Nat /\ uO < qd + dx
  <2> HIDE DEF u
  <2> QED BY <1>1, DDivBounds
<1>3. k \in Nat /\ kd \in Nat /\ ONE < kd + dx
  <2>1. ONE \in Nat
    BY DecimalsAssumption
  <2> QED BY <2>1
<1> HIDE DEF u, q, k
<1>4. S * dx < (q + k + 1) * dx + dx
  <2>1. (q + k + 1) * dx = qd + kd + dx
    BY <1>2, <1>3
  <2>2. Sd < qd + kd + dx + dx
    <3> HIDE DEF uO, qd, Sd, kd
    <3> QED BY <1>1, <1>2, <1>3, DecimalsAssumption
  <2> QED BY <2>1, <2>2
<1>5. S <= q + k + 1
  <2>1. q + k + 1 \in Int
    BY <1>2, <1>3
  <2> HIDE DEF qd, Sd, kd
  <2> QED BY <1>4, <2>1, TimesCancel
<1>6. k \in Nat /\ q >= S - 1 - k
  BY <1>2, <1>3, <1>5
<1> QED BY <1>6 DEF q, k, u

\* What the debt was set to so that it takes W of collateral, one digit more
\* of it takes at least W.
LEMMA DebtForWorth ==
  ASSUME NEW W \in Nat, NEW p \in Nat \ {0}, NEW bonus \in Nat, bonus >= ONE
  PROVE  LET d == DDiv(W, DMul(p, bonus))
         IN  d \in Nat /\ W <= DMul(DMul(d + 1, p) + 1, bonus)
<1> DEFINE B  == DMul(p, bonus)
           d  == DDiv(W, B)
           m  == DMul(d + 1, p)
           r  == DMul(m + 1, bonus)
           BO == B * ONE   WO == W * ONE   mO == m * ONE   rO == r * ONE
           pb == p * bonus
<1>1. B \in Nat \ {0} /\ BO \in Nat /\ pb \in Nat /\ BO <= pb
  <2>1. p \in Nat
    OBVIOUS
  <2>2. B \in Nat /\ BO \in Nat /\ pb \in Nat /\ BO <= pb /\ B >= p
    BY <2>1, DMulBounds, DMulGrows
  <2> HIDE DEF B, BO, pb
  <2> QED BY <2>2
<1> HIDE DEF B
<1>2. d \in Nat /\ d * B \in Nat /\ WO \in Nat /\ WO < d * B + B
  BY <1>1, DDivBounds
<1> HIDE DEF d
<1>3. d + 1 \in Nat /\ p \in Nat
  BY <1>2
<1>4. m \in Nat /\ mO \in Nat /\ (d + 1) * p \in Nat /\ (d + 1) * p < mO + ONE
  BY <1>3, DMulBounds
<1> HIDE DEF m
<1>5. m + 1 \in Nat
  BY <1>4
<1>6. r \in Nat /\ rO \in Nat /\ (m + 1) * bonus \in Nat /\ (m + 1) * bonus < rO + ONE
  BY <1>5, DMulBounds
<1> HIDE DEF r
<1> DEFINE dB == (d + 1) * B   mb == (m + 1) * bonus   dp == (d + 1) * p   n == m + 1
<1>7. dB \in Nat /\ WO < dB
  <2>1. dB = d * B + B
    BY <1>1, <1>2
  <2> QED BY <1>1, <1>2, <2>1
<1>8. dB * ONE <= dp * bonus
  <2>1. BO * (d + 1) <= pb * (d + 1)
    <3> HIDE DEF BO, pb
    <3> QED BY <1>1, <1>3, TimesMonotone
  <2>2. BO * (d + 1) = dB * ONE /\ pb * (d + 1) = dp * bonus
    <3>1. d + 1 \in Int /\ B \in Int /\ ONE \in Int /\ p \in Int /\ bonus \in Int
      BY <1>1, <1>3, DecimalsAssumption
    <3> DEFINE e == d + 1
    <3> HIDE DEF e
    <3>2. B * ONE * e = e * B * ONE /\ p * bonus * e = e * p * bonus
      BY <3>1 DEF e
    <3> QED BY <3>2 DEF e
  <2> QED BY <2>1, <2>2
<1>9. dp * bonus <= mb * ONE
  <2>1. dp \in Nat /\ n * ONE \in Nat /\ dp <= n * ONE
    <3>1. n * ONE = mO + ONE
      BY <1>4, DecimalsAssumption
    <3> HIDE DEF n, dp, mO
    <3> QED BY <1>4, <3>1, DecimalsAssumption DEF dp
  <2>2. dp * bonus <= (n * ONE) * bonus
    <3> HIDE DEF dp, n
    <3> QED BY <2>1, TimesMonotone
  <2>3. (n * ONE) * bonus = mb * ONE
    <3>1. n \in Int /\ ONE \in Int /\ bonus \in Int
      BY <1>5, DecimalsAssumption
    <3> HIDE DEF n
    <3>2. (n * ONE) * bonus = (n * bonus) * ONE
      BY <3>1
    <3> QED BY <3>2 DEF n
  <2> QED BY <2>2, <2>3
<1>10. WO < mb
  <2> DEFINE dBO == dB * ONE   mbO == mb * ONE   db == dp * bonus
  <2>1. dBO <= mbO
    <3>1. dBO \in Int /\ mbO \in Int /\ db \in Int
      BY <1>3, <1>4, <1>5, <1>6, <1>7, DecimalsAssumption
    <3>2. dBO <= db /\ db <= mbO
      BY <1>8, <1>9
    <3> HIDE DEF dBO, mbO, db
    <3> QED BY <3>1, <3>2
  <2>2. dB \in Int /\ mb \in Int /\ ONE \in Nat \ {0}
    BY <1>6, <1>7, DecimalsAssumption
  <2> HIDE DEF dB, mb
  <2>3. dB <= mb
    <3>1. dB * ONE < mb * ONE + ONE
      <4>1. dBO \in Int /\ mbO \in Int /\ dBO = dB * ONE /\ mbO = mb * ONE
        BY <2>2
      <4> HIDE DEF dBO, mbO
      <4>2. dBO < mbO + ONE
        BY <2>1, <2>2, <4>1
      <4> QED BY <4>1, <4>2
    <3> QED BY <2>2, <3>1, TimesCancel
  <2> HIDE DEF WO
  <2> QED BY <1>2, <1>7, <2>2, <2>3
<1>11. W * ONE < r * ONE + ONE
  <2>1. WO < rO + ONE
    <3> HIDE DEF WO, mb, rO
    <3> QED BY <1>2, <1>6, <1>10, DecimalsAssumption DEF mb
  <2> QED BY <2>1
<1>12. W <= r
  BY <1>6, <1>11, DecimalsAssumption, TimesCancel
<1> QED BY <1>2, <1>12 DEF r, m, d, B

LEMMA CoveredNat ==
  ASSUME IInv, Growth, Prudence, NEW i \in Ids, NEW cover \in Nat
  PROVE  Covered(i, cover) \in Nat
<1> DEFINE owed == LiquidatedDebt(i)
           part == DMul(owed, close_factor_percent)
           most == PercentMul(owed, close_factor_percent)
<1>1. owed \in Nat /\ close_factor_percent \in Nat
  BY DebtsNat DEF IInv, Frame
<1>2. part \in Nat
  <2> HIDE DEF owed
  <2> QED BY <1>1, DMulNat
<1>3. most = Trunc(part, 100)
  BY DEF PercentMul
<1> HIDE DEF part
<1>4. Trunc(part, 100) \in Nat
  BY <1>2 DEF Trunc
<1>5. Covered(i, cover) = IF cover > 0 /\ most > cover THEN cover ELSE most
  BY DEF Covered
<1> HIDE DEF most
<1> QED BY <1>3, <1>4, <1>5

\* The terms of a liquidation that repays something and sells something.
LEMMA TermsFair ==
  ASSUME IInv, Growth, Prudence, NEW i \in Pledged, NEW cover \in Nat,
         NEW bp \in Nat \ {0}, NEW cp \in Nat \ {0}, CanLiquidate(i, bp, cp),
         NEW debt, NEW dx, debt \in Nat \ {0}, dx \in Nat \ {0},
         debt = LiquidationTerms(i, cover, bp, cp).debt,
         dx = LiquidationTerms(i, cover, bp, cp).dx
  PROVE  DMul(DMul(dx, LeastIndex(i)), cp)
           <= DMul(DMul(debt + 1, bp) + 1,
                   ONE + Config[cdps[i].collateral_token].liquidation_bonus)
<1> DEFINE c       == cdps[i].collateral_token
           all     == cdps[i].collateral_amount
           S       == SupplyIndex(pools[c], Env(c))
           U       == CollateralUnderlying(i)
           bonus   == ONE + Config[c].liquidation_bonus
           wanted  == Covered(i, cover)
           B       == DMul(bp, bonus)
           V       == DMul(DMul(wanted, bp), bonus)
           seized  == DDiv(V, cp)
           index   == DDiv(U, all)
           W       == DMul(U, cp)
           least   == LeastIndex(i)
           most    == DMul(DMul(debt + 1, bp) + 1, bonus)
<1>1. i \in Ids /\ c \in Tokens /\ all \in Int /\ U \in Int
  BY PledgedWorth
<1>2. S \in Nat /\ S >= ONE
  BY <1>1, PoolGrows, IndicesGrow
<1>3. U = DMul(all, S)
  BY DEF CollateralUnderlying, RedemptionValue
<1>4. bonus \in Nat /\ bonus >= ONE
  BY <1>1, ManagerAssumption, DecimalsAssumption DEF PoolConfig
<1>5. wanted \in Nat
  BY <1>1, CoveredNat
<1>6. IF seized > U THEN debt = DDiv(W, B) /\ dx = DDiv(U, index)
                    ELSE debt = wanted /\ dx = DDiv(seized, index)
  <2>1. LiquidationTerms(i, cover, bp, cp) =
          IF seized > U
          THEN [debt |-> DDiv(W, B), dx |-> DDiv(U, index)]
          ELSE [debt |-> wanted, dx |-> DDiv(seized, index)]
    BY Zenon DEF LiquidationTerms
  <2> HIDE DEF seized, U, W, B, index, wanted
  <2> QED BY <2>1
<1>7. index # 0 /\ all # 0
  BY DEF CanLiquidate
<1>8. least = S - 1 - (ONE \div all)
  BY DEF LeastIndex
<1> HIDE DEF c, all, S, U, bonus, wanted, least
<1>9. V \in Nat /\ seized \in Nat /\ DMul(seized, cp) <= V
  <2>1. V \in Nat
    <3>1. DMul(wanted, bp) \in Nat
      BY <1>5, DMulNat
    <3> QED BY <1>4, <3>1, DMulNat
  <2> HIDE DEF V
  <2> QED BY <2>1, DDivBounds, QuotientTimes
<1>10. B \in Nat \ {0}
  <2>1. B >= bp /\ B \in Nat
    BY <1>4, DMulGrows, DMulNat
  <2> HIDE DEF B
  <2> QED BY <2>1
<1> HIDE DEF B, V, seized
\* There is collateral: of less than none nothing is sold.
<1>11. all \in Nat \ {0}
  <2> SUFFICES ASSUME all <= 0 PROVE FALSE
    BY <1>1, <1>7
  <2>1. U <= 0
    <3>1. DMul(all, S) <= DMul(0, S) /\ DMul(0, S) = 0
      BY <1>1, <1>2, DMulOrder, DMulZero
    <3> QED BY <1>3, <3>1
  <2>2. W \in Int /\ W <= 0
    <3>1. cp \in Nat /\ cp \in Int /\ 0 \in Int
      OBVIOUS
    <3>2. DMul(U, cp) <= DMul(0, cp)
      BY <1>1, <2>1, <3>1, DMulOrder
    <3>3. DMul(0, cp) = 0 /\ DMul(U, cp) \in Int
      BY <1>1, <3>1, DMulZero, DMulType
    <3> QED BY <3>2, <3>3
  <2> HIDE DEF W
  <2>3. CASE seized > U
    <3>1. debt <= DDiv(W, B)
      BY <1>6, <2>3
    <3> QED BY <1>10, <2>2, <3>1, WorthOfQuotient
  <2>4. CASE ~(seized > U)
    <3>1. seized = 0 /\ dx = DDiv(seized, index)
      BY <1>1, <1>6, <1>9, <2>1, <2>4
    <3>2. index \in Int
      BY <1>1, <1>7, DDivType
    <3>3. DDiv(0, index) = 0
      <4> HIDE DEF index
      <4>1. 0 * ONE = 0 /\ (-0) * ONE = 0 /\ (index > 0 \/ -index > 0)
        BY <1>7, <3>2, DecimalsAssumption
      <4>2. index > 0 => 0 \div index = 0
        BY <3>2
      <4>3. -index > 0 => 0 \div (-index) = 0
        BY <3>2
      <4> QED BY <3>2, <4>1, <4>2, <4>3 DEF DDiv, Trunc
    <3> QED BY <3>1, <3>3
  <2> QED BY <2>3, <2>4
<1>12. U \in Nat /\ index \in Nat \ {0} /\ least \in Int /\ least <= index
  <2>1. all \in Nat /\ U \in Nat
    BY <1>2, <1>3, <1>11, DMulNat
  <2>2. index \in Nat
    BY <1>11, <2>1, DDivBounds
  <2>3. ONE \div all \in Nat /\ index >= S - 1 - (ONE \div all)
    BY <1>2, <1>3, <1>11, IndexOfDx
  <2> HIDE DEF index
  <2> QED BY <1>2, <1>7, <1>8, <2>1, <2>2, <2>3
<1> HIDE DEF index
<1>13. DMul(dx, least) <= DMul(dx, index) /\ DMul(dx, least) \in Int /\ DMul(dx, index) \in Int
  <2>1. DMul(least, dx) <= DMul(index, dx)
    BY <1>12, DMulOrder
  <2>2. DMul(dx, least) = DMul(least, dx) /\ DMul(dx, index) = DMul(index, dx)
    BY <1>12, DMulCommutes
  <2>3. DMul(least, dx) \in Int /\ DMul(index, dx) \in Int
    <3>1. dx \in Int /\ least \in Int /\ index \in Int
      BY <1>12
    <3> QED BY <3>1, DMulType
  <2> QED BY <2>1, <2>2, <2>3
\* What is sold, at the index taken for it, is worth no more than what the
\* debt pays for.
<1>14. ASSUME NEW a \in Nat, dx = DDiv(a, index)
       PROVE  DMul(DMul(dx, least), cp) <= DMul(a, cp) /\ DMul(a, cp) \in Nat
  <2>1. DMul(dx, index) <= a
    BY <1>12, <1>14, QuotientTimes
  <2>2. DMul(dx, least) <= a
    BY <1>13, <2>1
  <2> QED BY <1>13, <2>2, DMulOrder, DMulNat
<1>15. debt + 1 \in Nat /\ DMul(debt + 1, bp) \in Nat /\ DMul(debt + 1, bp) + 1 \in Nat /\ most \in Nat
  <2>1. debt + 1 \in Nat
    OBVIOUS
  <2>2. DMul(debt + 1, bp) \in Nat
    BY <2>1, DMulNat
  <2> DEFINE m == DMul(debt + 1, bp)
  <2>3. m + 1 \in Nat
    BY <2>2
  <2>4. most \in Nat
    <3> HIDE DEF m
    <3> QED BY <1>4, <2>3, DMulNat DEF m
  <2> QED BY <2>1, <2>2, <2>3, <2>4
<1> DEFINE got == DMul(DMul(dx, least), cp)
<1>16. got \in Int
  BY <1>13, DMulType
<1>17. CASE seized > U
  <2>1. got <= W /\ W \in Nat
    BY <1>6, <1>12, <1>14, <1>17
  <2>2. W <= most
    <3> HIDE DEF W
    <3> QED BY <1>4, <1>6, <1>17, <2>1, DebtForWorth DEF B
  <2> HIDE DEF W, most, got
  <2> QED BY <1>15, <1>16, <2>1, <2>2 DEF most, got, bonus, c, least
<1>18. CASE ~(seized > U)
  <2>1. got <= DMul(seized, cp) /\ DMul(seized, cp) \in Nat
    BY <1>6, <1>9, <1>14, <1>18
  <2>2. V <= most
    <3> DEFINE v == DMul(wanted, bp)   w == DMul(debt + 1, bp)
    <3>1. v <= w /\ v \in Nat /\ w \in Nat
      <4>1. wanted <= debt + 1
        BY <1>5, <1>6, <1>18
      <4> QED BY <1>5, <1>15, <4>1, DMulMonotone, DMulNat
    <3>2. V = DMul(v, bonus) /\ most = DMul(w + 1, bonus)
      BY DEF V
    <3> HIDE DEF v, w, most
    <3>3. w + 1 \in Nat /\ v <= w + 1
      BY <3>1
    <3> QED BY <1>4, <3>1, <3>2, <3>3, DMulMonotone
  <2> HIDE DEF most, got
  <2>3. got <= most
    BY <1>9, <1>15, <1>16, <2>1, <2>2
  <2> QED BY <2>3 DEF most, got, bonus, c, least
<1> QED BY <1>17, <1>18

\* A liquidator never gets more collateral than what was repaid plus the bonus
\* pays for, whether the debt, the close factor, the caller or the collateral
\* sets the amount.
THEOREM LiquidationFairHolds ==
  ASSUME Prudence
  PROVE  Spec => ([]StableRatesNotNegative => LiquidationFair)
<1> DEFINE Fair(i) ==
      DMul(DMul(cdps[i].collateral_amount - cdps'[i].collateral_amount, LeastIndex(i)),
           price[cdps[i].collateral_token])
        <= DMul(DMul(Paid(i) + 1, price[cdps[i].borrow_token]) + 1,
                ONE + Config[cdps[i].collateral_token].liquidation_bonus)
<1>1. StableRatesNotNegative => RatesKnown
  BY DEF RatesKnown
<1>2. ASSUME IInv, Growth, [Next]_vars
      PROVE  [\A i \in Pledged : Liquidated(i) => Fair(i)]_vars
  <2> SUFFICES ASSUME NEW i \in Pledged, Liquidated(i)
               PROVE  Fair(i)
    OBVIOUS
  <2>1. /\ i \in Ids /\ cdps[i] \in CollateralDebtPosition
        /\ cdps[i].total_repay \in Int /\ cdps[i].collateral_amount \in Int
        /\ cdps[i].borrow_token \in Tokens /\ cdps[i].collateral_token \in Tokens
    BY <1>2, PledgedToken, CdpKnown, CdpType DEF IInv
  <2>2. Traced(i)
    BY <1>2, <2>1, NextTraced DEF AllTraced
  <2>3. Sold(i)
    BY <2>1, <2>2 DEF Traced, Liquidated, Paid
  <2>4. PICK bucket \in Inputs["repay"], cover \in Inputs["cover"],
             bp \in Quotes(cdps[i].borrow_token), cp \in Quotes(cdps[i].collateral_token) :
                Liquidation(i, bucket, cover, bp, cp)
    BY <2>3 DEF Sold
  <2> DEFINE debt == LiquidationTerms(i, cover, bp, cp).debt
             dx   == LiquidationTerms(i, cover, bp, cp).dx
             y    == CdpRepaid(i, bucket, debt)
             paid == Payment(i, bucket, debt)
  <2>5. CanLiquidate(i, bp, cp) /\ paid = debt
    BY <2>4, Zenon DEF Liquidation, CanSell
  <2>6. cdps' = [cdps EXCEPT ![i] = Release(y, dx)]
    BY <2>4, Zenon DEF Liquidation
  <2>7. cover \in Nat /\ bp \in Nat /\ cp \in Nat
    BY <1>2, <2>1, QuotesType, ManagerAssumption DEF Arguments, IInv
  <2>8. debt \in Int /\ dx \in Int
    BY <1>2, <2>5, <2>7, LiquidationTermsType DEF IInv, Frame
  <2>9. bp = price[cdps[i].borrow_token] /\ cp = price[cdps[i].collateral_token]
        /\ bp # 0 /\ cp # 0
    <3>1. DMul(LiquidatedDebt(i), bp) # 0 /\ cp # 0 /\ LiquidatedDebt(i) \in Int
      BY <1>2, <2>1, <2>5, DebtsNat DEF CanLiquidate
    <3>2. bp # 0
      BY <3>1, ValueAtZero
    <3> QED BY <1>2, <2>1, <3>1, <3>2, QuoteIsPrice
  <2>10. /\ y.total_repay = cdps[i].total_repay + debt
         /\ y.collateral_amount = cdps[i].collateral_amount
         /\ DOMAIN y = DOMAIN cdps[i]
    <3> DEFINE b      == cdps[i].borrow_token
               borrow == RepayInBorrow(Env(b), bucket, cdps[i].borrow_amount,
                                       cdps[i].stable_rate, cdps[i].last_update_epoch, debt)
               shares == SharesRepaid(pools[b], Env(b), paid, cdps[i].normalized_borrow)
    <3>1. y = IF cdps[i].is_stable THEN AfterStableRepay(cdps[i], paid, borrow)
              ELSE AfterVariableRepay(cdps[i], paid, shares)
      BY Zenon DEF CdpRepaid
    <3> HIDE DEF y, paid, borrow, shares, debt
    <3> QED BY <2>1, <2>5, <3>1
            DEF AfterStableRepay, AfterVariableRepay, CollateralDebtPosition
  <2> HIDE DEF debt, dx, y, paid
  <2>11. /\ cdps'[i].total_repay = cdps[i].total_repay + debt
         /\ cdps'[i].collateral_amount = cdps[i].collateral_amount - dx
    <3>1. cdps'[i] = Release(y, dx)
      BY <1>2, <2>1, <2>6 DEF IInv, Books, Ids
    <3> QED BY <2>1, <2>10, <3>1 DEF Release, CollateralDebtPosition
  <2>12. /\ Paid(i) = debt /\ cdps[i].collateral_amount - cdps'[i].collateral_amount = dx
         /\ debt \in Nat \ {0} /\ dx \in Nat \ {0}
    <3>1. Paid(i) = debt
      BY <2>1, <2>8, <2>11 DEF Paid
    <3>2. debt > 0 /\ cdps'[i].collateral_amount < cdps[i].collateral_amount
      BY <3>1 DEF Liquidated
    <3> QED BY <2>1, <2>8, <2>11, <3>1, <3>2
  <2>13. DMul(DMul(dx, LeastIndex(i)), cp)
           <= DMul(DMul(debt + 1, bp) + 1,
                   ONE + Config[cdps[i].collateral_token].liquidation_bonus)
    BY <1>2, <2>5, <2>7, <2>9, <2>12, TermsFair DEF debt, dx
  <2> QED BY <2>9, <2>12, <2>13
<1> QED BY <1>1, <1>2, GrowthHolds, InvariantHolds, PTL DEF Spec, LiquidationFair

-----------------------------------------------------------------------------
(* What may be short of a CDP's collateral *)

LEMMA QuotientOfNone ==
  ASSUME NEW a \in Int, a <= 0, NEW p \in Nat \ {0}
  PROVE  DDiv(a, p) <= 0
<1>1. a * ONE <= 0 * ONE /\ a * ONE \in Int /\ 0 * ONE = 0
  BY DecimalsAssumption, TimesMonotone
<1>2. Trunc(a * ONE, p) <= Trunc(0, p) /\ Trunc(0, p) = 0
  <2>1. 0 \div p = 0
    OBVIOUS
  <2> QED BY <1>1, <2>1, TruncMonotone DEF Trunc
<1> QED BY <1>2 DEF DDiv

\* What a liquidation sells beyond the collateral is worth less than a last digit
\* of each of its dx, and of no collateral nothing is sold.
LEMMA SaleShort ==
  ASSUME IInv, Growth, Prudence, NEW i \in Pledged, NEW cover \in Nat,
         NEW bp \in Nat \ {0}, NEW cp \in Nat \ {0}, CanLiquidate(i, bp, cp),
         NEW dx \in Nat \ {0}, dx = LiquidationTerms(i, cover, bp, cp).dx
  PROVE  LET all == cdps[i].collateral_amount
         IN  all > 0 /\ (dx - all) * DDiv(CollateralUnderlying(i), all) < all
<1> DEFINE c      == cdps[i].collateral_token
           all    == cdps[i].collateral_amount
           S      == SupplyIndex(pools[c], Env(c))
           U      == CollateralUnderlying(i)
           bonus  == ONE + Config[c].liquidation_bonus
           wanted == Covered(i, cover)
           V      == DMul(DMul(wanted, bp), bonus)
           seized == DDiv(V, cp)
           index  == DDiv(U, all)
<1>1. i \in Ids /\ c \in Tokens /\ all \in Int /\ U \in Int
  BY PledgedWorth
<1>2. S \in Nat /\ S >= ONE
  BY <1>1, PoolGrows, IndicesGrow
<1>3. U = DMul(all, S)
  BY DEF CollateralUnderlying, RedemptionValue
<1>4. bonus \in Nat
  BY <1>1, ManagerAssumption, DecimalsAssumption DEF PoolConfig
<1>5. wanted \in Nat
  BY <1>1, CoveredNat
<1>6. \E a \in {U, seized} : a <= U /\ dx = DDiv(a, index)
  <2>1. LiquidationTerms(i, cover, bp, cp) =
          IF seized > U
          THEN [debt |-> DDiv(DMul(U, cp), DMul(bp, bonus)), dx |-> DDiv(U, index)]
          ELSE [debt |-> wanted, dx |-> DDiv(seized, index)]
    BY Zenon DEF LiquidationTerms
  <2>2. seized \in Int
    <3>1. DMul(wanted, bp) \in Nat
      BY <1>5, DMulNat
    <3>2. V \in Nat
      BY <1>4, <3>1, DMulNat
    <3> HIDE DEF V
    <3> QED BY <3>2, DDivBounds
  <2> HIDE DEF seized, U, index, wanted, bonus
  <2>3. CASE seized > U
    BY <1>1, <2>1, <2>3
  <2>4. CASE ~(seized > U)
    BY <1>1, <2>1, <2>2, <2>4
  <2> QED BY <2>3, <2>4
<1>7. seized \in Nat
  <2>1. DMul(wanted, bp) \in Nat
    BY <1>5, DMulNat
  <2>2. V \in Nat
    BY <1>4, <2>1, DMulNat
  <2> HIDE DEF V
  <2> QED BY <2>2, DDivBounds
<1>8. index # 0 /\ all # 0
  BY DEF CanLiquidate
<1> HIDE DEF S, U, bonus, wanted, seized
<1>9. PICK a \in Int : a \in {U, seized} /\ a <= U /\ dx = DDiv(a, index)
  BY <1>1, <1>6, <1>7
<1>10. all \in Nat \ {0}
  <2> SUFFICES ASSUME all < 0 PROVE FALSE
    BY <1>1, <1>8
  <2>1. U <= 0
    <3>1. DMul(all, S) <= DMul(0, S) /\ DMul(0, S) = 0
      BY <1>1, <1>2, DMulOrder, DMulZero
    <3> QED BY <1>3, <3>1
  <2>2. index \in Nat \ {0}
    <3>1. -U \in Nat /\ -all \in Nat \ {0}
      BY <1>1, <2>1
    <3>2. DDiv(-U, -all) \in Nat
      BY <3>1, DDivBounds
    <3>3. index = DDiv(-U, -all)
      BY <1>1, <3>1 DEF DDiv
    <3> QED BY <1>8, <3>2, <3>3
  <2> HIDE DEF index
  <2>3. a <= 0
    BY <1>1, <1>9, <2>1
  <2> QED BY <1>9, <2>2, <2>3, QuotientOfNone
<1>11. U \in Nat /\ a \in Nat
  <2>1. all \in Nat
    BY <1>10
  <2> QED BY <1>2, <1>3, <1>7, <1>9, <2>1, DMulNat
<1>12. index \in Nat \ {0} /\ U * ONE < index * all + all /\ U * ONE \in Nat
  <2>1. /\ U * ONE \in Nat /\ DDiv(U, all) \in Nat
        /\ U * ONE < DDiv(U, all) * all + all
    BY <1>10, <1>11, DDivBounds
  <2> QED BY <1>8, <2>1
<1> HIDE DEF index
<1>13. dx * index <= a * ONE /\ dx * index \in Nat /\ a * ONE <= U * ONE /\ a * ONE \in Int
  <2>1. dx * index <= a * ONE /\ dx * index \in Nat
    BY <1>9, <1>11, <1>12, DDivBounds
  <2>2. ONE \in Nat
    BY DecimalsAssumption
  <2> QED BY <1>9, <1>11, <2>1, <2>2, TimesMonotone
<1>14. (dx - all) * index < all
  <2> DEFINE uO == U * ONE   aO == a * ONE   di == dx * index   ia == index * all
  <2>1. (dx - all) * index = di - ia /\ ia \in Int
    BY <1>10, <1>12
  <2>2. /\ uO < ia + all /\ di <= aO /\ aO <= uO
        /\ uO \in Int /\ aO \in Int /\ di \in Int
    BY <1>12, <1>13
  <2> HIDE DEF uO, aO, di, ia
  <2>3. di - ia < all
    BY <1>10, <2>1, <2>2
  <2> QED BY <2>1, <2>3
<1> QED BY <1>10, <1>14 DEF index, U

\* What a withdrawal takes beyond the collateral lends nothing.
LEMMA WithdrawalShort ==
  ASSUME IInv, Growth, Prudence, NEW i \in Pledged, NEW amount \in Nat,
         WithdrawCollateral(i, amount)
  PROVE  LET c == cdps[i].collateral_token
         IN  Lends(i, RedemptionValue(pools[c], Env(c),
                        -cdps'[i].collateral_amount - (Config[c].share_unit - 1))) <= 0
<1> DEFINE cdp   == cdps[i]
           b     == cdp.borrow_token
           c     == cdp.collateral_token
           L     == LoanIndex(pools[b], Env(b))
           S     == SupplyIndex(pools[c], Env(c))
           sc    == Config[c].share_unit
           ltv   == Config[c].ltv
           pc    == price[c]
           pb    == price[b]
           n     == cdp.normalized_borrow
           held  == cdp.collateral_amount
           q     == DDiv(amount, S)
           dx    == CeilTo(q, sc)
           d     == DMul(n, L)
           a     == DMul(held, S) - amount
           x     == Release(cdp, dx)
           k     == (held - dx) + (sc - 1)
           worth == DMul(-k, S)
<1>1. /\ i \in Ids /\ cdp \in CollateralDebtPosition /\ b \in Tokens /\ c \in Tokens
      /\ n \in Int /\ held \in Int
  BY PledgedToken, CdpKnown, CdpType DEF IInv
<1>2. /\ cdps' = [cdps EXCEPT ![i] = x] /\ MaxLoan(c, held, b, amount) >= d
  BY Zenon DEF WithdrawCollateral, PoolsAndCdps
<1>3. cdps'[i].collateral_amount = held - dx
  <2>1. x.collateral_amount = held - dx
    BY <1>1 DEF Release, CollateralDebtPosition
  <2> HIDE DEF x
  <2> QED BY <1>1, <1>2, <2>1 DEF IInv, Books, Ids
<1>4. /\ Env(b) \in Environment /\ Sound(pools[b], Env(b)) /\ Growing(pools[b])
      /\ Sound(pools[c], Env(c)) /\ Growing(pools[c]) /\ Env(c) \in Environment
      /\ sc \in Nat \ {0} /\ ltv \in Nat /\ Unit(b) \in Nat \ {0}
      /\ pb \in Nat \ {0} /\ pc \in Nat \ {0}
  BY <1>1, PoolGrows, EnvType DEF IInv, Books, Frame, PoolConfig, Unit
<1>5. L \in Nat /\ S \in Nat \ {0} /\ n \in Nat
  BY <1>1, <1>4, IndicesGrow, DecimalsAssumption DEF Growth, Owing
<1>6. d \in Nat
  BY <1>5, DMulNat
<1>7. FloorTo(DDiv(DMul(DMul(pc, a), ltv), pb), Unit(b)) >= d
  <2>1. MaxLoan(c, held, b, amount) = FloorTo(DDiv(DMul(DMul(pc, a), ltv), pb), Unit(b))
    BY Zenon DEF MaxLoan, RedemptionValue
  <2> QED BY <1>2, <2>1
<1>8. /\ Lends(i, worth) = DDiv(DMul(DMul(pc, worth), ltv), pb)
      /\ RedemptionValue(pools[c], Env(c), -(held - dx) - (sc - 1))
           = DMul(-(held - dx) - (sc - 1), S)
  BY Zenon DEF Lends, RedemptionValue
<1> HIDE DEF L, S, sc, ltv, pc, pb, n, held, d
<1>9. dx \in Int /\ dx < q + sc /\ q \in Int
  <2>1. q \in Int
    BY <1>5, DDivType
  <2> HIDE DEF q
  <2> QED BY <1>4, <2>1, CeilToBounds
<1>10. a \in Int /\ worth \in Int /\ worth <= -a
  <2> HIDE DEF dx
  <2>1. k \in Int /\ k >= held - q
    BY <1>1, <1>4, <1>9
  <2> HIDE DEF k
  <2>2. DMul(k, S) >= a /\ DMul(k, S) \in Int /\ DMul(held, S) \in Int
    BY <1>1, <1>5, <2>1, DMulLess, DMulType DEF q
  <2>3. worth = -DMul(k, S)
    BY <1>5, <2>1, DMulNegative
  <2> HIDE DEF worth
  <2> QED BY <2>2, <2>3
<1>11. -(held - dx) - (sc - 1) = -k
  BY <1>1, <1>4, <1>9
<1> HIDE DEF a, worth, k
<1> DEFINE v(y) == DMul(DMul(pc, y), ltv)
<1>12. \A y \in Int : v(y) \in Int /\ v(-y) = -v(y)
  <2> TAKE y \in Int
  <2>0. pc \in Int /\ ltv \in Int /\ -y \in Int
    BY <1>4
  <2>1. DMul(pc, y) = DMul(y, pc) /\ DMul(pc, -y) = DMul(-y, pc) /\ DMul(y, pc) \in Int
    BY <2>0, DMulCommutes, DMulType
  <2>2. DMul(-y, pc) = -DMul(y, pc)
    BY <2>0, DMulNegative
  <2>3. DMul(-DMul(y, pc), ltv) = -DMul(DMul(y, pc), ltv) /\ DMul(DMul(y, pc), ltv) \in Int
    BY <2>0, <2>1, DMulNegative, DMulType
  <2> QED BY <2>1, <2>2, <2>3
<1>13. v(worth) <= -v(a)
  <2>0. pc \in Int /\ -a \in Int
    BY <1>4, <1>10
  <2>1. DMul(worth, pc) <= DMul(-a, pc)
    BY <1>4, <1>10, <2>0, DMulOrder
  <2>2. DMul(worth, pc) \in Int /\ DMul(-a, pc) \in Int
    BY <1>10, <2>0, DMulType
  <2>3. DMul(DMul(worth, pc), ltv) <= DMul(DMul(-a, pc), ltv)
    BY <1>4, <2>1, <2>2, DMulOrder
  <2>4. DMul(pc, worth) = DMul(worth, pc) /\ DMul(pc, -a) = DMul(-a, pc)
    BY <1>10, <2>0, DMulCommutes
  <2>5. v(worth) <= v(-a)
    BY <2>3, <2>4
  <2> QED BY <1>10, <1>12, <2>5
<1>14. v(a) \in Int /\ v(worth) \in Int
  BY <1>10, <1>12
<1> DEFINE va == v(a)   vw == v(worth)
<1>15. FloorTo(DDiv(va, pb), Unit(b)) >= d /\ vw <= -va /\ va \in Int /\ vw \in Int
       /\ Lends(i, worth) = DDiv(vw, pb)
  BY <1>7, <1>8, <1>13, <1>14
<1> HIDE DEF va, vw
<1>16. DDiv(va, pb) \in Int /\ DDiv(va, pb) >= 0
  <2>1. DDiv(va, pb) \in Int
    BY <1>4, <1>15, DDivType
  <2>2. FloorTo(DDiv(va, pb), Unit(b)) <= DDiv(va, pb) /\ FloorTo(DDiv(va, pb), Unit(b)) \in Int
    BY <1>4, <2>1, FloorToBounds
  <2> QED BY <1>6, <1>15, <2>1, <2>2
<1>17. DDiv(vw, pb) <= -DDiv(va, pb) /\ DDiv(vw, pb) \in Int
  <2>1. vw * ONE <= (-va) * ONE /\ vw * ONE \in Int /\ (-va) * ONE \in Int
    <3>1. -va \in Int /\ ONE \in Nat
      BY <1>15, DecimalsAssumption
    <3> QED BY <1>15, <3>1, TimesMonotone
  <2>2. Trunc(vw * ONE, pb) <= Trunc((-va) * ONE, pb)
    BY <1>4, <2>1, TruncMonotone
  <2>3. DDiv(vw, pb) <= DDiv(-va, pb)
    BY <1>4, <2>2 DEF DDiv
  <2>4. DDiv(-va, pb) = -DDiv(va, pb)
    BY <1>4, <1>15, DDivNegative
  <2>5. DDiv(vw, pb) \in Int
    BY <1>4, <1>15, DDivType
  <2> QED BY <2>3, <2>4, <2>5
<1>18. Lends(i, worth) <= 0
  BY <1>15, <1>16, <1>17
<1> QED BY <1>3, <1>8, <1>11, <1>18 DEF worth, S, sc, held, c, cdp

\* No call takes more than there is out of a CDP's collateral but for what is
\* too little to count: only withdrawals and liquidations take any, the first
\* by less than lends a last digit, the second by less than the index is off.
THEOREM CollateralNotNegativeHolds ==
  ASSUME Prudence
  PROVE  Spec => ([]StableRatesNotNegative => CollateralNotNegative)
<1> DEFINE Kept(i) ==
      LET c     == cdps[i].collateral_token
          all   == cdps[i].collateral_amount
          left  == cdps'[i].collateral_amount
          worth == RedemptionValue(pools[c], Env(c), -left - (Config[c].share_unit - 1))
      IN  left < 0 /\ left < all =>
            \/ all > 0 /\ (-left) * DDiv(CollateralUnderlying(i), all) < all
            \/ Lends(i, worth) <= 0
<1>1. StableRatesNotNegative => RatesKnown
  BY DEF RatesKnown
<1>2. ASSUME IInv, Growth, [Next]_vars
      PROVE  [\A i \in Pledged : Kept(i)]_vars
  <2> SUFFICES ASSUME NEW i \in Pledged,
                      cdps'[i].collateral_amount < cdps[i].collateral_amount
               PROVE  Kept(i)
    OBVIOUS
  <2>1. /\ i \in Ids /\ cdps[i] \in CollateralDebtPosition /\ cdps[i].collateral_amount \in Int
        /\ cdps[i].borrow_token \in Tokens /\ cdps[i].collateral_token \in Tokens
    BY <1>2, PledgedToken, CdpKnown, CdpType DEF IInv
  <2>2. Traced(i)
    BY <1>2, <2>1, NextTraced DEF AllTraced
  <2>3. Sold(i) \/ TakenOut(i)
    BY <2>2 DEF Traced
  <2>4. CASE TakenOut(i)
    <3>1. PICK amount \in Inputs["withdraw_collateral"] : WithdrawCollateral(i, amount)
      BY <2>4 DEF TakenOut
    <3>2. amount \in Nat
      BY ManagerAssumption DEF Arguments
    <3> QED BY <1>2, <3>1, <3>2, WithdrawalShort
  <2>5. CASE Sold(i)
    <3>1. PICK bucket \in Inputs["repay"], cover \in Inputs["cover"],
               bp \in Quotes(cdps[i].borrow_token), cp \in Quotes(cdps[i].collateral_token) :
                  Liquidation(i, bucket, cover, bp, cp)
      BY <2>5 DEF Sold
    <3> DEFINE debt == LiquidationTerms(i, cover, bp, cp).debt
               dx   == LiquidationTerms(i, cover, bp, cp).dx
               y    == CdpRepaid(i, bucket, debt)
    <3>2. CanLiquidate(i, bp, cp)
      BY <3>1, Zenon DEF Liquidation, CanSell
    <3>3. cdps' = [cdps EXCEPT ![i] = Release(y, dx)]
      BY <3>1, Zenon DEF Liquidation
    <3>4. cover \in Nat /\ bp \in Nat /\ cp \in Nat
      BY <1>2, <2>1, QuotesType, ManagerAssumption DEF Arguments, IInv
    <3>5. debt \in Int /\ dx \in Int
      BY <1>2, <3>2, <3>4, LiquidationTermsType DEF IInv, Frame
    <3>6. bp # 0 /\ cp # 0
      <4>1. DMul(LiquidatedDebt(i), bp) # 0 /\ cp # 0 /\ LiquidatedDebt(i) \in Int
        BY <1>2, <2>1, <3>2, DebtsNat DEF CanLiquidate
      <4> QED BY <4>1, ValueAtZero
    <3>7. y.collateral_amount = cdps[i].collateral_amount /\ DOMAIN y = DOMAIN cdps[i]
      <4> DEFINE b      == cdps[i].borrow_token
                 paid   == Payment(i, bucket, debt)
                 borrow == RepayInBorrow(Env(b), bucket, cdps[i].borrow_amount,
                                         cdps[i].stable_rate, cdps[i].last_update_epoch, debt)
                 shares == SharesRepaid(pools[b], Env(b), paid, cdps[i].normalized_borrow)
      <4>1. y = IF cdps[i].is_stable THEN AfterStableRepay(cdps[i], paid, borrow)
                ELSE AfterVariableRepay(cdps[i], paid, shares)
        BY Zenon DEF CdpRepaid
      <4> HIDE DEF y, paid, borrow, shares, debt
      <4> QED BY <2>1, <4>1 DEF AfterStableRepay, AfterVariableRepay, CollateralDebtPosition
    <3> HIDE DEF debt, dx, y
    <3>8. cdps'[i].collateral_amount = cdps[i].collateral_amount - dx
      <4>1. cdps'[i] = Release(y, dx)
        BY <1>2, <2>1, <3>3 DEF IInv, Books, Ids
      <4> QED BY <2>1, <3>7, <4>1 DEF Release, CollateralDebtPosition
    <3>9. dx \in Nat \ {0} /\ -cdps'[i].collateral_amount = dx - cdps[i].collateral_amount
      BY <2>1, <3>5, <3>8
    <3>10. LET all == cdps[i].collateral_amount
           IN  all > 0 /\ (dx - all) * DDiv(CollateralUnderlying(i), all) < all
      BY <1>2, <3>2, <3>4, <3>6, <3>9, SaleShort DEF dx
    <3> QED BY <3>9, <3>10
  <2> QED BY <2>3, <2>4, <2>5
<1> QED BY <1>1, <1>2, GrowthHolds, InvariantHolds, PTL DEF Spec, CollateralNotNegative

-----------------------------------------------------------------------------
(* What can be liquidated can be sold *)

\* What is worth no more than w at the price p is no more than w of them.
LEMMA SeizedWithin ==
  ASSUME NEW x \in Nat, NEW w \in Int, NEW p \in Nat \ {0}, x <= DMul(w, p)
  PROVE  DDiv(x, p) \in Nat /\ (DDiv(x, p) <= w \/ DDiv(x, p) = 0)
<1> DEFINE q == DDiv(x, p)   qp == q * p   wp == w * p   xO == x * ONE
<1>1. q \in Nat /\ qp \in Nat /\ qp <= xO /\ xO \in Nat
  BY DDivBounds
<1>2. CASE w >= 0
  <2>1. wp \in Nat /\ DMul(w, p) \in Nat /\ DMul(w, p) * ONE <= wp /\ DMul(w, p) * ONE \in Nat
    BY <1>2, DMulBounds
  <2>2. xO <= DMul(w, p) * ONE
    BY <2>1, DecimalsAssumption, TimesMonotone
  <2>3. SUFFICES ASSUME q >= w + 1 PROVE FALSE
    BY <1>1
  <2>4. (w + 1) * p <= qp /\ (w + 1) * p = wp + p
    <3> HIDE DEF q
    <3> QED BY <1>1, <2>3, TimesMonotone DEF qp
  <2> HIDE DEF q, qp, wp, xO
  <2> QED BY <1>1, <2>1, <2>2, <2>4
<1>3. CASE w < 0
  <2>1. DMul(w, p) <= DMul(0, p) /\ DMul(0, p) = 0 /\ DMul(w, p) \in Int
    BY <1>3, DMulOrder, DMulZero, DMulType
  <2>2. q <= 0
    BY <2>1, QuotientOfNone
  <2> QED BY <1>1, <2>2
<1> QED BY <1>2, <1>3

\* What is worth U less what the quotient may be off is no more than all of them.
LEMMA SoldWithin ==
  ASSUME NEW all \in Nat \ {0}, NEW U \in Nat, DDiv(U, all) # 0, NEW a \in Nat,
         a <= U - (all \div ONE) - 1 \/ a = 0
  PROVE  DDiv(a, DDiv(U, all)) \in Nat /\ DDiv(a, DDiv(U, all)) <= all
<1> DEFINE index == DDiv(U, all)   UO == U * ONE   aO == a * ONE   ia == index * all
           dx == DDiv(a, index)    di == dx * index   k == all \div ONE   kO == k * ONE
<1>1. index \in Nat \ {0} /\ UO \in Nat /\ ia \in Nat /\ UO < ia + all
  BY DDivBounds
<1>2. dx \in Nat /\ di \in Nat /\ di <= aO /\ aO \in Nat
  <2> HIDE DEF index
  <2> QED BY <1>1, DDivBounds
<1>3. k \in Nat /\ kO \in Nat /\ all < kO + ONE
  BY DecimalsAssumption
<1>4. aO + all <= UO \/ aO = 0
  <2>1. CASE a <= U - k - 1
    <3>1. aO <= (U - k - 1) * ONE
      BY <1>3, <2>1, DecimalsAssumption, TimesMonotone
    <3>2. (U - k - 1) * ONE = UO - kO - ONE
      BY <1>3, DecimalsAssumption
    <3> DEFINE w == (U - k - 1) * ONE
    <3>3. aO <= w /\ w = UO - kO - ONE /\ ONE \in Nat
      BY <3>1, <3>2, DecimalsAssumption
    <3> HIDE DEF w, UO, aO, kO, k, ia, di
    <3> QED BY <1>1, <1>2, <1>3, <3>3
  <2>2. CASE a = 0
    BY <2>2, DecimalsAssumption
  <2> QED BY <2>1, <2>2
<1>5. ASSUME dx >= all + 1 PROVE FALSE
  <2>1. (all + 1) * index <= di /\ (all + 1) * index = ia + index
    <3> HIDE DEF index, dx
    <3> QED BY <1>1, <1>2, <1>5, TimesMonotone DEF di, ia
  <2> HIDE DEF index, UO, aO, ia, dx, di, k, kO
  <2> QED BY <1>1, <1>2, <1>4, <2>1
<1>6. dx <= all
  <2> HIDE DEF dx
  <2> QED BY <1>2, <1>5
<1> QED BY <1>2, <1>6

\* Where no CDP is short of collateral, the custody has all of i's.
LEMMA CustodyOfOne ==
  ASSUME IInv, NEW i \in Pledged, \A j \in Pledged : cdps[j].collateral_amount >= 0
  PROVE  cdps[i].collateral_amount <= collateral_vaults[cdps[i].collateral_token]
<1> DEFINE c == cdps[i].collateral_token   s == DxIn(cdps, c)
<1>1. i \in Ids /\ c \in Tokens /\ cdps \in Seq(CollateralDebtPosition)
  BY PledgedToken DEF IInv, Books
<1>2. s \in Seq(Int) /\ Len(s) = Len(cdps)
  BY <1>1, ClaimsType
<1>3. \A j \in 1..Len(cdps) : s[j] = IF cdps[j].collateral_token = c
                                     THEN cdps[j].collateral_amount ELSE 0
  BY DEF DxIn
<1>4. NoDx # c
  BY <1>1, ManagerAssumption
<1>5. \A j \in 1..Len(s) : s[j] >= 0
  <2> TAKE j \in 1..Len(s)
  <2>1. j \in 1..Len(cdps)
    BY <1>2
  <2>2. cdps[j].collateral_token = c => j \in Pledged
    BY <1>4, <2>1 DEF Pledged, Ids
  <2>3. s[j] = IF cdps[j].collateral_token = c THEN cdps[j].collateral_amount ELSE 0
    BY <1>3, <2>1
  <2> HIDE DEF s, c
  <2> QED BY <2>2, <2>3
<1>6. s[i] <= Sum(s) /\ s[i] = cdps[i].collateral_amount
  <2>1. i \in 1..Len(s) /\ i \in 1..Len(cdps)
    BY <1>1, <1>2 DEF Ids
  <2> HIDE DEF s
  <2> QED BY <1>2, <1>3, <1>5, <2>1, SumElement
<1>7. Sum(s) <= collateral_vaults[c]
  BY <1>1, BooksOfClaims DEF IInv, Books
<1>8. Sum(s) \in Int /\ collateral_vaults[c] \in Nat /\ cdps[i].collateral_amount \in Int
  BY <1>1, <1>2, SumType, CdpKnown, CdpType DEF IInv, Books
<1> QED BY <1>6, <1>7, <1>8

\* A payment changes nothing of what a dx is worth.
LEMMA RepaidKeepsWorth ==
  ASSUME NEW e \in Environment, NEW P \in Pool, NEW bucket, NEW shares, NEW limit
  PROVE  LET Q == PoolRepayVariable(P, e, bucket, shares, limit)
         IN  /\ SupplyIndex(Q, e) = SupplyIndex(P, e)
             /\ Q.vault = P.vault + VariablePayment(P, e, bucket, shares, limit)
<1> DEFINE U == UpdateIndex(P, e)
           paid == VariablePayment(P, e, bucket, shares, limit)
           gone == SharesRepaid(P, e, paid, shares)
           R == [U EXCEPT !.variable_loan_share_quantity = @ - gone, !.vault = @ + paid]
           Q == UpdateInterestRate(R, e)
<1>1. PoolRepayVariable(P, e, bucket, shares, limit) = Q
  BY Zenon DEF PoolRepayVariable
<1>2. /\ U.deposit_index = SupplyIndex(P, e) /\ U.last_update = e.now /\ U.vault = P.vault
      /\ DOMAIN U = DOMAIN P
  BY DEF UpdateIndex, SupplyIndex, Pool
<1> HIDE DEF U, paid, gone
<1>3. /\ R.deposit_index = SupplyIndex(P, e) /\ R.last_update = e.now
      /\ R.vault = P.vault + paid /\ DOMAIN R = DOMAIN P
  BY <1>2 DEF Pool
<1> HIDE DEF R
<1>4. Q.deposit_index = SupplyIndex(P, e) /\ Q.last_update = e.now /\ Q.vault = P.vault + paid
  BY <1>3 DEF UpdateInterestRate, Pool
<1> HIDE DEF Q
<1>5. SupplyIndex(Q, e) = SupplyIndex(P, e)
  BY <1>4 DEF SupplyIndex
<1> QED BY <1>1, <1>4, <1>5 DEF paid

\* The terms of a liquidation that covers a part of the debt: that part, for no
\* more dx than there is.
LEMMA TermsOfCover ==
  ASSUME IInv, Growth, Prudence, NEW i \in Pledged, NEW cover \in Nat \ {0},
         CanLiquidate(i, price[cdps[i].borrow_token], price[cdps[i].collateral_token]),
         cdps[i].collateral_amount >= 0,
         cover < PercentMul(LiquidatedDebt(i), close_factor_percent),
         DMul(DMul(cover, price[cdps[i].borrow_token]),
              ONE + Config[cdps[i].collateral_token].liquidation_bonus)
           <= DMul(CollateralUnderlying(i) - (cdps[i].collateral_amount \div ONE) - 1,
                   price[cdps[i].collateral_token])
  PROVE  LET terms == LiquidationTerms(i, cover, price[cdps[i].borrow_token],
                                       price[cdps[i].collateral_token])
         IN  /\ terms.debt = cover
             /\ terms.dx \in Nat /\ terms.dx <= cdps[i].collateral_amount
             /\ CollateralUnderlying(i) \in Nat \ {0}
<1> DEFINE b      == cdps[i].borrow_token
           c      == cdps[i].collateral_token
           bp     == price[b]
           cp     == price[c]
           all    == cdps[i].collateral_amount
           U      == CollateralUnderlying(i)
           bonus  == ONE + Config[c].liquidation_bonus
           secure == U - (all \div ONE) - 1
           V      == DMul(DMul(cover, bp), bonus)
           seized == DDiv(V, cp)
           index  == DDiv(U, all)
<1>1. /\ i \in Ids /\ c \in Tokens /\ all \in Int /\ U \in Int
      /\ bp \in Nat \ {0} /\ cp \in Nat \ {0}
  BY PledgedWorth
<1>2. bonus \in Nat
  BY <1>1, ManagerAssumption, DecimalsAssumption DEF PoolConfig
<1>3. index # 0 /\ all # 0
  BY Zenon DEF CanLiquidate
<1>4. all \in Nat \ {0}
  BY <1>1, <1>3
<1>5. U \in Nat \ {0}
  <2>1. SupplyIndex(pools[c], Env(c)) \in Nat
    BY <1>1, PoolGrows, IndicesGrow
  <2>2. U \in Nat
    BY <1>4, <2>1, DMulNat DEF CollateralUnderlying, RedemptionValue
  <2>3. U # 0
    <3> SUFFICES ASSUME U = 0 PROVE FALSE
      OBVIOUS
    <3> HIDE DEF U, all
    <3>1. DDiv(U, all) \in Nat
      BY <1>4, <2>2, DDivBounds
    <3>2. DDiv(U, all) <= 0
      BY <1>4, <2>2, QuotientOfNone
    <3> QED BY <1>3, <3>1, <3>2 DEF index
  <2> QED BY <2>2, <2>3
<1>6. Covered(i, cover) = cover
  <2> DEFINE most == PercentMul(LiquidatedDebt(i), close_factor_percent)
  <2>1. cover > 0 /\ most > cover
    <3>1. cover < most
      OBVIOUS
    <3> HIDE DEF most
    <3> QED BY <3>1
  <2> HIDE DEF most
  <2> QED BY <2>1 DEF Covered, most
<1>7. LiquidationTerms(i, cover, bp, cp) =
        IF seized > U
        THEN [debt |-> DDiv(DMul(U, cp), DMul(bp, bonus)), dx |-> DDiv(U, index)]
        ELSE [debt |-> cover, dx |-> DDiv(seized, index)]
  BY <1>6, Zenon DEF LiquidationTerms
<1>8. secure \in Int /\ secure < U
  <2>1. all \div ONE \in Nat
    BY <1>4, DecimalsAssumption
  <2> HIDE DEF U, all
  <2> QED BY <1>5, <2>1
<1>9. V \in Nat /\ V <= DMul(secure, cp)
  <2>1. DMul(cover, bp) \in Nat
    BY <1>1, DMulNat
  <2>2. V \in Nat
    <3> HIDE DEF bonus, bp
    <3> QED BY <1>2, <2>1, DMulNat
  <2> QED BY <2>2
<1>10. seized \in Nat /\ (seized <= secure \/ seized = 0)
  <2> HIDE DEF V, secure, cp
  <2> QED BY <1>1, <1>8, <1>9, SeizedWithin
<1> HIDE DEF V, seized, U, all, bonus, bp, cp
<1>11. ~(seized > U)
  <2> HIDE DEF secure
  <2> QED BY <1>5, <1>8, <1>10
<1>12. DDiv(seized, index) \in Nat /\ DDiv(seized, index) <= all
  BY <1>3, <1>4, <1>5, <1>10, SoldWithin
<1> QED BY <1>5, <1>7, <1>11, <1>12 DEF U, all, bp, cp, b, c

\* Such a part of a variable debt can be sold for, if it is of whole units.
LEMMA CoverSells ==
  ASSUME IInv, Growth, Prudence, NEW i \in Pledged, NEW cover \in Nat \ {0},
         ~cdps[i].is_stable, cover <= LiquidatedDebt(i),
         CanLiquidate(i, price[cdps[i].borrow_token], price[cdps[i].collateral_token]),
         Takeable(cover, Unit(cdps[i].borrow_token)),
         Takeable(100 * cover, Unit(cdps[i].borrow_token)),
         LiquidationTerms(i, cover, price[cdps[i].borrow_token],
                          price[cdps[i].collateral_token]).debt = cover,
         NEW dx \in Nat, dx <= cdps[i].collateral_amount,
         LiquidationTerms(i, cover, price[cdps[i].borrow_token],
                          price[cdps[i].collateral_token]).dx = dx,
         CollateralUnderlying(i) \in Nat \ {0},
         CollateralUnderlying(i) <= pools[cdps[i].collateral_token].vault,
         Config[cdps[i].collateral_token].share_unit = 1,
         \A j \in Pledged : cdps[j].collateral_amount >= 0
  PROVE  CanSell(i, 100 * cover, cover, price[cdps[i].borrow_token],
                 price[cdps[i].collateral_token])
<1> DEFINE b      == cdps[i].borrow_token
           c      == cdps[i].collateral_token
           all    == cdps[i].collateral_amount
           U      == CollateralUnderlying(i)
           n      == cdps[i].normalized_borrow
           bucket == 100 * cover
           owed   == VariableDebt(pools[b], Env(b), n)
           S      == SupplyIndex(pools[c], Env(c))
           R      == [pools EXCEPT ![b] = PoolRepaid(i, bucket, cover)][c]
<1>1. /\ i \in Ids /\ b \in Tokens /\ c \in Tokens /\ all \in Int /\ U \in Int /\ n \in Int
  BY PledgedWorth, CdpKnown, CdpType DEF IInv
<1>2. /\ Env(b) \in Environment /\ pools[b] \in Pool /\ pools[c] \in Pool
      /\ Sound(pools[b], Env(b)) /\ Growing(pools[b])
      /\ S \in Nat /\ LoanIndex(pools[b], Env(b)) \in Nat
      /\ LoanIndex(pools[b], Env(b)) >= ONE /\ pools[c].vault \in Nat
      /\ Config[b].unit \in Nat \ {0} /\ Config[c].unit \in Nat \ {0}
      /\ Env(b).cfg = Config[b] /\ Env(c).cfg = Config[c] /\ pools \in [Tokens -> Pool]
  <2>1. /\ Sound(pools[b], Env(b)) /\ Growing(pools[b]) /\ Env(b) \in Environment
        /\ Sound(pools[c], Env(c)) /\ Growing(pools[c]) /\ Env(c) \in Environment
    BY <1>1, PoolGrows
  <2>2. Config[b] \in PoolConfig /\ Config[c] \in PoolConfig
    BY <1>1, ManagerAssumption
  <2>3. pools[b] \in Pool /\ pools[c] \in Pool /\ pools \in [Tokens -> Pool]
    BY <1>1 DEF IInv, Books
  <2>4. pools[c].vault \in Nat
    BY <2>3 DEF Pool
  <2> QED BY <2>1, <2>2, <2>3, <2>4, IndicesGrow DEF PoolConfig, Env
<1>3. Payment(i, bucket, cover) = cover
  <2>1. LiquidatedDebt(i) = DMul(n, LoanIndex(pools[b], Env(b)))
    BY Zenon DEF LiquidatedDebt
  <2>2. owed \in Int /\ LiquidatedDebt(i) <= owed /\ LiquidatedDebt(i) \in Int
    <3> DEFINE d == DMul(n, LoanIndex(pools[b], Env(b)))
    <3>1. d \in Int
      BY <1>1, <1>2, DMulType
    <3>2. owed = CeilTo(d, Config[b].unit)
      BY <1>2 DEF VariableDebt
    <3> HIDE DEF d, owed
    <3>3. owed \in Int /\ d <= owed
      BY <1>2, <3>1, <3>2, CeilToBounds
    <3> QED BY <2>1, <3>1, <3>3 DEF d
  <2>3. Payment(i, bucket, cover) = AtMost(cover, AtMost(bucket, owed))
    BY Zenon DEF Payment, VariablePayment
  <2> HIDE DEF owed
  <2> QED BY <2>2, <2>3 DEF AtMost
<1>4. CanRepay(i, bucket, cover)
  <2>1. Payment(i, bucket, cover) = VariablePayment(pools[b], Env(b), bucket, n, cover)
    BY Zenon DEF Payment
  <2>2. LoanIndex(pools[b], Env(b)) # 0
    BY <1>2, DecimalsAssumption
  <2>3. Takeable(cover, Env(b).cfg.unit)
    BY <1>2, Zenon DEF Unit
  <2>4. CanRepayVariable(pools[b], Env(b), bucket, n, cover)
    BY <1>3, <2>1, <2>2, <2>3, Zenon DEF CanRepayVariable
  <2> QED BY <2>4, Zenon DEF CanRepay
<1>5. dx <= collateral_vaults[c] /\ Takeable(dx, Config[c].share_unit)
  <2>1. all <= collateral_vaults[c] /\ collateral_vaults[c] \in Nat
    BY <1>1, CustodyOfOne DEF IInv, Books
  <2>2. dx % 1 = 0
    OBVIOUS
  <2> QED BY <1>1, <2>1, <2>2 DEF Takeable
<1>6. SupplyIndex(R, Env(c)) = S /\ R.vault \in Nat /\ R.vault >= pools[c].vault
  <2>1. CASE b # c
    BY <1>1, <1>2, <2>1
  <2>2. CASE b = c
    <3> DEFINE Q == PoolRepayVariable(pools[b], Env(b), bucket, n, cover)
    <3>1. R = Q
      <4>1. PoolRepaid(i, bucket, cover) = Q
        BY Zenon DEF PoolRepaid
      <4> HIDE DEF Q
      <4> QED BY <1>1, <1>2, <2>2, <4>1
    <3>2. /\ SupplyIndex(Q, Env(b)) = SupplyIndex(pools[b], Env(b))
          /\ Q.vault = pools[b].vault + VariablePayment(pools[b], Env(b), bucket, n, cover)
      BY <1>2, RepaidKeepsWorth
    <3>3. VariablePayment(pools[b], Env(b), bucket, n, cover) = cover
      BY <1>3, Zenon DEF Payment
    <3> HIDE DEF Q, R
    <3> QED BY <1>2, <2>2, <3>1, <3>2, <3>3
  <2> QED BY <2>1, <2>2
<1> HIDE DEF R
<1>7. CanRemoveLiquidity(R, Env(c), dx)
  <2>1. DMul(dx, S) \in Int /\ DMul(dx, S) <= U
    <3>1. U = DMul(all, S)
      BY DEF CollateralUnderlying, RedemptionValue
    <3>2. dx <= all /\ dx \in Int
      OBVIOUS
    <3> HIDE DEF U, S, all
    <3>3. DMul(dx, S) <= DMul(all, S)
      BY <1>1, <1>2, <3>2, DMulOrder
    <3> QED BY <1>2, <3>1, <3>2, <3>3, DMulType
  <2>2. FloorTo(DMul(dx, S), Config[c].unit) <= DMul(dx, S)
        /\ FloorTo(DMul(dx, S), Config[c].unit) \in Int
    BY <1>2, <2>1, FloorToBounds
  <2>3. RemovedAmount(R, Env(c), dx) = FloorTo(DMul(dx, S), Config[c].unit)
    BY <1>2, <1>6 DEF RemovedAmount, RedemptionValue
  <2> DEFINE out == FloorTo(DMul(dx, S), Config[c].unit)
  <2>4. out \in Int /\ out <= U /\ U > 0 /\ U <= R.vault /\ R.vault \in Nat
    <3> DEFINE w == DMul(dx, S)
    <3>1. out <= w /\ w <= U /\ w \in Int /\ out \in Int
      BY <2>1, <2>2
    <3> HIDE DEF w, out
    <3> QED BY <1>1, <1>2, <1>6, <3>1
  <2> HIDE DEF out, U
  <2> QED BY <1>1, <2>3, <2>4 DEF CanRemoveLiquidity, VaultCovers, out
<1>8. bucket >= cover
  OBVIOUS
<1> QED BY <1>3, <1>4, <1>5, <1>7, <1>8, Zenon DEF CanSell, R

\* Whatever is sold, of any token and for any part of the debt that the caller
\* names, the checks between a liquidation's first and its last pass together:
\* the terms are what was asked for, and no vault is short of them.
THEOREM AnyCoverSellsHolds ==
  ASSUME Prudence
  PROVE  Spec => ([]StableRatesNotNegative => []AnyCoverSells)
<1>1. StableRatesNotNegative => RatesKnown
  BY DEF RatesKnown
<1>2. ASSUME IInv, Growth PROVE AnyCoverSells
  <2> DEFINE Sells(i, cover) ==
        LET b      == cdps[i].borrow_token
            c      == cdps[i].collateral_token
            bp     == price[b]
            cp     == price[c]
            secure == CollateralUnderlying(i) - (cdps[i].collateral_amount \div ONE) - 1
        IN  /\ ~cdps[i].is_stable
            /\ CanLiquidate(i, bp, cp)
            /\ cover <= LiquidatedDebt(i)
            /\ cover < PercentMul(LiquidatedDebt(i), close_factor_percent)
            /\ DMul(DMul(cover, bp), ONE + Config[c].liquidation_bonus) <= DMul(secure, cp)
            /\ CollateralUnderlying(i) <= pools[c].vault
            /\ Config[c].share_unit = 1
            /\ \A j \in Pledged : cdps[j].collateral_amount >= 0
            => CanSell(i, 100 * cover, cover, bp, cp)
  <2> SUFFICES ASSUME NEW i \in Pledged,
                      NEW cover \in {Unit(cdps[i].borrow_token), 100 * Unit(cdps[i].borrow_token)}
               PROVE  Sells(i, cover)
    BY Zenon DEF AnyCoverSells
  <2> DEFINE unit == Unit(cdps[i].borrow_token)
  <2>1. unit \in Nat \ {0}
    <3>1. cdps[i].borrow_token \in Tokens
      BY <1>2, PledgedWorth
    <3> QED BY <3>1, ManagerAssumption DEF Unit, PoolConfig
  <2>2. cover \in {unit, 100 * unit}
    OBVIOUS
  <2>3. cover \in Nat \ {0} /\ Takeable(cover, unit) /\ Takeable(100 * cover, unit)
    <3> HIDE DEF unit
    <3>1. PICK m \in {1, 100} : cover = m * unit
      BY <2>1, <2>2
    <3>2. 100 * cover = (100 * m) * unit /\ 100 * m \in Nat /\ m \in Nat
      BY <2>1, <3>1
    <3>3. Takeable(m * unit, unit) /\ Takeable((100 * m) * unit, unit)
      BY <2>1, <3>2, UnitsTakeable
    <3>4. cover \in Nat \ {0}
      BY <2>1, <3>1
    <3> QED BY <3>1, <3>2, <3>3, <3>4
  <2> SUFFICES ASSUME ~cdps[i].is_stable,
                      CanLiquidate(i, price[cdps[i].borrow_token], price[cdps[i].collateral_token]),
                      cover <= LiquidatedDebt(i),
                      cover < PercentMul(LiquidatedDebt(i), close_factor_percent),
                      DMul(DMul(cover, price[cdps[i].borrow_token]),
                           ONE + Config[cdps[i].collateral_token].liquidation_bonus)
                        <= DMul(CollateralUnderlying(i)
                                  - (cdps[i].collateral_amount \div ONE) - 1,
                                price[cdps[i].collateral_token]),
                      CollateralUnderlying(i) <= pools[cdps[i].collateral_token].vault,
                      Config[cdps[i].collateral_token].share_unit = 1,
                      \A j \in Pledged : cdps[j].collateral_amount >= 0
               PROVE  CanSell(i, 100 * cover, cover, price[cdps[i].borrow_token],
                              price[cdps[i].collateral_token])
    BY Zenon
  <2> DEFINE terms == LiquidationTerms(i, cover, price[cdps[i].borrow_token],
                                       price[cdps[i].collateral_token])
  <2>4. /\ terms.debt = cover /\ terms.dx \in Nat /\ terms.dx <= cdps[i].collateral_amount
        /\ CollateralUnderlying(i) \in Nat \ {0}
    BY <1>2, <2>3, TermsOfCover
  <2> QED BY <1>2, <2>3, <2>4, CoverSells
<1> QED BY <1>1, <1>2, GrowthHolds, InvariantHolds, PTL

-----------------------------------------------------------------------------
(* The principal that the stable CDPs owe, and what the pools have of it *)

\* What a CDP has in the stable principal of t, and what it has while it is alive.
PrincipalOf(cdp, t) ==
  IF cdp.borrow_token = t /\ cdp.is_stable THEN cdp.borrow_amount ELSE 0

PrincipalIn(cdp, alive, t) == IF alive THEN PrincipalOf(cdp, t) ELSE 0

Alive(s, V, i) == s[i].collateral_token # NoDx \/ i \in V

\* StableClaims(t), of any CDPs s of which those in V are in the manager's vault.
StableIn(s, V, t) == [i \in 1..Len(s) |-> PrincipalIn(s[i], Alive(s, V, i), t)]

\* A stable CDP owes no negative amount, nor a negative rate.
StablyOwing(cdp) == cdp.is_stable => cdp.borrow_amount >= 0 /\ cdp.stable_rate >= 0

\* What is inductive next to IInv of the stable loans and books, whatever becomes
\* of the mean rates, since every loan is given at a rate that is not negative.
Debtors ==
  /\ \A i \in Ids : StablyOwing(cdps[i])
  /\ StakingVault
  /\ \A t \in Tokens : pools[t].stable_loan_amount >= 0

\* Principal in the book of t that no CDP owes.
Orphan(t) == pools[t].stable_loan_amount - Sum(StableClaims(t))

\* No principal of t loses its CDP.
NoneOrphaned(t) == Orphan(t)' <= Orphan(t) \/ Orphan(t)' <= 0

\* What a step does to the stable loans and books.
LoansFollow == Debtors' /\ \A t \in Tokens : NoneOrphaned(t)

LEMMA StableInType ==
  ASSUME NEW s \in Seq(CollateralDebtPosition), NEW V, NEW t
  PROVE  /\ StableIn(s, V, t) \in Seq(Int) /\ Len(StableIn(s, V, t)) = Len(s)
         /\ Sum(StableIn(s, V, t)) \in Int
         /\ \A i \in 1..Len(s) :
              StableIn(s, V, t)[i] = PrincipalIn(s[i], Alive(s, V, i), t)
<1>1. \A i \in 1..Len(s) : PrincipalIn(s[i], Alive(s, V, i), t) \in Int
  <2> SUFFICES ASSUME NEW i \in 1..Len(s)
               PROVE  PrincipalIn(s[i], Alive(s, V, i), t) \in Int
    OBVIOUS
  <2>1. s[i].borrow_amount \in Int
    BY CdpType
  <2> QED BY <2>1 DEF PrincipalIn, PrincipalOf
<1>2. Len(s) \in Nat
  OBVIOUS
<1>3. StableIn(s, V, t) \in Seq(Int) /\ Len(StableIn(s, V, t)) = Len(s)
  BY <1>1, <1>2, IntSequence DEF StableIn
<1> QED BY <1>3, SumType DEF StableIn

LEMMA StableInOneMore ==
  ASSUME NEW s \in Seq(CollateralDebtPosition), NEW x \in CollateralDebtPosition,
         NEW V, NEW W, NEW t,
         \A i \in 1..Len(s) : i \in W <=> i \in V
  PROVE  Sum(StableIn(Append(s, x), W, t))
           = Sum(StableIn(s, V, t))
             + PrincipalIn(x, x.collateral_token # NoDx \/ Len(s) + 1 \in W, t)
<1> DEFINE r == Append(s, x)
           n == Len(s) + 1
<1>1. /\ r \in Seq(CollateralDebtPosition) /\ Len(r) = n /\ Len(s) \in Nat
      /\ r[n] = x /\ \A i \in 1..Len(s) : r[i] = s[i] /\ i \in 1..Len(r)
  OBVIOUS
<1>2. n \in 1..Len(r)
  BY <1>1
<1> HIDE DEF r, n
<1>3. /\ StableIn(s, V, t) \in Seq(Int) /\ Len(StableIn(s, V, t)) = Len(s)
      /\ \A i \in 1..Len(s) : StableIn(s, V, t)[i] = PrincipalIn(s[i], Alive(s, V, i), t)
  BY StableInType
<1>4. /\ StableIn(r, W, t) \in Seq(Int) /\ Len(StableIn(r, W, t)) = Len(r)
      /\ \A i \in 1..Len(r) : StableIn(r, W, t)[i] = PrincipalIn(r[i], Alive(r, W, i), t)
  BY <1>1, StableInType
<1>5. \A i \in 1..Len(s) : StableIn(r, W, t)[i] = StableIn(s, V, t)[i]
  BY <1>1, <1>3, <1>4, ZenonT(40) DEF Alive
<1>6. Sum(StableIn(r, W, t)) = Sum(StableIn(s, V, t)) + StableIn(r, W, t)[Len(r)]
  BY <1>1, <1>3, <1>4, <1>5, SumOfOneMore DEF n
<1>7. StableIn(r, W, t)[n] = PrincipalIn(x, x.collateral_token # NoDx \/ n \in W, t)
  BY <1>1, <1>2, <1>4 DEF Alive
<1> QED BY <1>1, <1>6, <1>7 DEF r, n

LEMMA StableInOneChanged ==
  ASSUME NEW s \in Seq(CollateralDebtPosition), NEW r \in Seq(CollateralDebtPosition),
         Len(r) = Len(s), NEW i \in 1..Len(s), NEW V, NEW W, NEW t,
         \A j \in 1..Len(s) : j # i => r[j] = s[j] /\ (j \in W <=> j \in V)
  PROVE  Sum(StableIn(r, W, t))
           = Sum(StableIn(s, V, t)) - PrincipalIn(s[i], Alive(s, V, i), t)
             + PrincipalIn(r[i], Alive(r, W, i), t)
<1>1. /\ StableIn(s, V, t) \in Seq(Int) /\ Len(StableIn(s, V, t)) = Len(s)
      /\ \A j \in 1..Len(s) : StableIn(s, V, t)[j] = PrincipalIn(s[j], Alive(s, V, j), t)
  BY StableInType
<1>2. /\ StableIn(r, W, t) \in Seq(Int) /\ Len(StableIn(r, W, t)) = Len(s)
      /\ \A j \in 1..Len(s) : StableIn(r, W, t)[j] = PrincipalIn(r[j], Alive(r, W, j), t)
  BY StableInType
<1>3. \A j \in 1..Len(s) : j # i => StableIn(r, W, t)[j] = StableIn(s, V, t)[j]
  <2> SUFFICES ASSUME NEW j \in 1..Len(s), j # i
               PROVE  StableIn(r, W, t)[j] = StableIn(s, V, t)[j]
    OBVIOUS
  <2>1. r[j] = s[j] /\ Alive(r, W, j) = Alive(s, V, j)
    BY DEF Alive
  <2> QED BY <1>1, <1>2, <2>1 DEF PrincipalIn
<1>4. Sum(StableIn(r, W, t))
        = Sum(StableIn(s, V, t)) - StableIn(s, V, t)[i] + StableIn(r, W, t)[i]
  <2>1. i \in 1..Len(StableIn(s, V, t)) /\ Len(StableIn(r, W, t)) = Len(StableIn(s, V, t))
    BY <1>1, <1>2
  <2> QED BY <1>1, <1>2, <1>3, <2>1, SumOfOneChanged
<1> QED BY <1>1, <1>2, <1>4

\* The principal that the CDPs owe, as a sum over them, now and after a step.
LEMMA StableClaimsNow ==
  ASSUME IInv, NEW t \in Tokens
  PROVE  /\ StableClaims(t) = StableIn(cdps, cdp_vault, t)
         /\ Orphan(t) = pools[t].stable_loan_amount - Sum(StableIn(cdps, cdp_vault, t))
         /\ Sum(StableIn(cdps, cdp_vault, t)) \in Int /\ pools[t].stable_loan_amount \in Int
         /\ cdps \in Seq(CollateralDebtPosition)
<1>1. cdps \in Seq(CollateralDebtPosition) /\ pools[t].stable_loan_amount \in Int
  BY DEF IInv, Books, Pool
<1>2. StableClaims(t) = StableIn(cdps, cdp_vault, t)
  BY DEF StableClaims, StableIn, PrincipalIn, PrincipalOf, Alive, Live, Pledged, Ids
<1> QED BY <1>1, <1>2, StableInType DEF Orphan

LEMMA StableClaimsNext ==
  ASSUME IInv', NEW t \in Tokens
  PROVE  /\ Orphan(t)' = pools'[t].stable_loan_amount - Sum(StableIn(cdps', cdp_vault', t))
         /\ Sum(StableIn(cdps', cdp_vault', t)) \in Int /\ pools'[t].stable_loan_amount \in Int
         /\ cdps' \in Seq(CollateralDebtPosition)
<1>1. cdps' \in Seq(CollateralDebtPosition) /\ pools'[t].stable_loan_amount \in Int
  BY DEF IInv, Books, Pool
<1>2. StableClaims(t)' = StableIn(cdps', cdp_vault', t)
  BY DEF StableClaims, StableIn, PrincipalIn, PrincipalOf, Alive, Live, Pledged, Ids
<1>3. Orphan(t)' = pools'[t].stable_loan_amount - Sum(StableClaims(t)')
  BY DEF Orphan, Sum
<1> QED BY <1>1, <1>2, <1>3, StableInType

\* While nobody owes a negative amount, nor does the sum of all.
LEMMA StableClaimsNatNext ==
  ASSUME IInv', Debtors', NEW t \in Tokens
  PROVE  Sum(StableIn(cdps', cdp_vault', t)) >= 0
<1>1. cdps' \in Seq(CollateralDebtPosition)
  BY StableClaimsNext
<1>2. \A i \in 1..Len(cdps') : cdps'[i].is_stable => cdps'[i].borrow_amount >= 0
  BY DEF Debtors, StablyOwing, Ids
<1>3. \A i \in 1..Len(cdps') : PrincipalIn(cdps'[i], Alive(cdps', cdp_vault', i), t) >= 0
  BY <1>2 DEF PrincipalIn, PrincipalOf
<1> QED BY <1>1, <1>3, StableInType, SumNat

\* The stable book of a pool is a field that only stable loans change.
HasBook(P) == "stable_loan_amount" \in DOMAIN P

SameBook(Q, P) == HasBook(Q) /\ Q.stable_loan_amount = P.stable_loan_amount

LEMMA UpdatesKeepBook ==
  ASSUME NEW P, HasBook(P), NEW e
  PROVE  SameBook(UpdateIndex(P, e), P) /\ SameBook(UpdateInterestRate(P, e), P)
<1>1. SameBook(UpdateIndex(P, e), P)
  BY Zenon DEF UpdateIndex, HasBook, SameBook
<1>2. SameBook(UpdateInterestRate(P, e), P)
  BY Zenon DEF UpdateInterestRate, HasBook, SameBook
<1> QED BY <1>1, <1>2

LEMMA PoolHasBook ==
  ASSUME NEW P \in Pool
  PROVE  HasBook(P)
  BY DEF Pool, HasBook

LEMMA DepositsKeepBook ==
  ASSUME NEW P, HasBook(P), NEW e, NEW amount
  PROVE  /\ SameBook(AddLiquidity(P, e, amount), P)
         /\ SameBook(RemoveLiquidity(P, e, amount), P)
<1> DEFINE Q == UpdateIndex(P, e)
<1>1. SameBook(Q, P)
  BY UpdatesKeepBook
<1> HIDE DEF Q
<1>2. SameBook(AddLiquidity(P, e, amount), P)
  <2> DEFINE R == [Q EXCEPT !.vault = @ + amount, !.dx_supply = @ + MintedDx(P, e, amount)]
  <2>1. SameBook(R, P)
    BY <1>1 DEF SameBook, HasBook
  <2>2. AddLiquidity(P, e, amount) = UpdateInterestRate(R, e)
    BY DEF AddLiquidity, Q
  <2> HIDE DEF R
  <2> QED BY <2>1, <2>2, UpdatesKeepBook DEF SameBook
<1>3. SameBook(RemoveLiquidity(P, e, amount), P)
  <2> DEFINE R == [Q EXCEPT !.dx_supply = @ - amount]
             S == UpdateInterestRate(R, e)
  <2>1. SameBook(R, P)
    BY <1>1 DEF SameBook, HasBook
  <2>2. RemoveLiquidity(P, e, amount) = [S EXCEPT !.vault = @ - RemovedAmount(P, e, amount)]
    BY DEF RemoveLiquidity, Q
  <2> HIDE DEF R
  <2>3. SameBook(S, P)
    BY <2>1, UpdatesKeepBook DEF SameBook
  <2> HIDE DEF S
  <2> QED BY <2>2, <2>3 DEF SameBook, HasBook
<1> QED BY <1>2, <1>3

LEMMA VariableLoansKeepBook ==
  ASSUME NEW P, HasBook(P), NEW e, NEW amount, NEW shares, NEW limit
  PROVE  /\ SameBook(PoolBorrowVariable(P, e, amount), P)
         /\ SameBook(PoolRepayVariable(P, e, amount, shares, limit), P)
<1> DEFINE Q == UpdateIndex(P, e)
<1>1. SameBook(Q, P)
  BY UpdatesKeepBook
<1>2. SameBook(PoolBorrowVariable(P, e, amount), P)
  <2> DEFINE R == [Q EXCEPT !.variable_loan_share_quantity = @ + SharesFor(P, e, amount)]
             S == UpdateInterestRate(R, e)
  <2>1. PoolBorrowVariable(P, e, amount) = [S EXCEPT !.vault = @ - FloorTo(amount, e.cfg.unit)]
    BY DEF PoolBorrowVariable
  <2> HIDE DEF Q
  <2>2. SameBook(R, P)
    BY <1>1 DEF SameBook, HasBook
  <2> HIDE DEF R
  <2>3. SameBook(S, P)
    BY <2>2, UpdatesKeepBook DEF SameBook
  <2> HIDE DEF S
  <2> QED BY <2>1, <2>3 DEF SameBook, HasBook
<1>3. SameBook(PoolRepayVariable(P, e, amount, shares, limit), P)
  <2> DEFINE paid == VariablePayment(P, e, amount, shares, limit)
             gone == SharesRepaid(P, e, paid, shares)
             R == [Q EXCEPT !.variable_loan_share_quantity = @ - gone, !.vault = @ + paid]
  <2>1. PoolRepayVariable(P, e, amount, shares, limit) = UpdateInterestRate(R, e)
    BY DEF PoolRepayVariable
  <2> HIDE DEF Q, paid, gone
  <2>2. SameBook(R, P)
    BY <1>1 DEF SameBook, HasBook
  <2> HIDE DEF R
  <2> QED BY <2>1, <2>2, UpdatesKeepBook DEF SameBook
<1> QED BY <1>2, <1>3

LEMMA FlashloansKeepBook ==
  ASSUME NEW P, HasBook(P), NEW e, NEW amount, NEW fee
  PROVE  /\ SameBook(PoolBorrowFlashloan(P, e, amount), P)
         /\ SameBook(PoolRepayFlashloan(P, e, amount, fee), P)
         /\ SameBook(PoolWithdrawInsurance(P, e, amount), P)
<1>1. /\ SameBook(PoolBorrowFlashloan(P, e, amount), P)
      /\ SameBook(PoolWithdrawInsurance(P, e, amount), P)
  BY DEF PoolBorrowFlashloan, PoolWithdrawInsurance, SameBook, HasBook
<1>2. SameBook(PoolRepayFlashloan(P, e, amount, fee), P)
  <2> DEFINE V == [P EXCEPT !.vault = @ + FlashloanDue(e, amount, fee)]
             Q == UpdateIndex(V, e)
             insurance == DMul(fee, e.cfg.insurance_ratio)
             R == [Q EXCEPT !.insurance_balance = @ + insurance,
                            !.deposit_index =
                               @ + DDiv(fee - insurance, DMul(Q.dx_supply, Q.deposit_index))]
  <2>1. PoolRepayFlashloan(P, e, amount, fee) = IF fee > 0 THEN UpdateInterestRate(R, e) ELSE V
    BY DEF PoolRepayFlashloan
  <2>2. SameBook(V, P)
    BY DEF SameBook, HasBook
  <2> HIDE DEF V, insurance
  <2>3. SameBook(Q, P)
    BY <2>2, UpdatesKeepBook DEF SameBook
  <2> HIDE DEF Q
  <2>4. SameBook(R, P)
    BY <2>3 DEF SameBook, HasBook
  <2> HIDE DEF R
  <2>5. SameBook(UpdateInterestRate(R, e), P)
    BY <2>4, UpdatesKeepBook DEF SameBook
  <2> QED BY <2>1, <2>2, <2>5
<1> QED BY <1>1, <1>2

\* borrow_stable adds the amount to the book,
LEMMA StableLoanBook ==
  ASSUME NEW P, HasBook(P), NEW e, NEW amount, NEW rate
  PROVE  PoolBorrowStable(P, e, amount, rate).stable_loan_amount
           = P.stable_loan_amount + amount
<1> DEFINE Q == UpdateIndex(P, e)
           R == [Q EXCEPT !.stable_loan_interest_rate =
                               WeightRate(Q.stable_loan_amount, @, amount, rate),
                          !.stable_loan_amount = @ + amount]
           S == UpdateInterestRate(R, e)
<1>1. PoolBorrowStable(P, e, amount, rate) = [S EXCEPT !.vault = @ - FloorTo(amount, e.cfg.unit)]
  BY DEF PoolBorrowStable
<1>2. SameBook(Q, P)
  BY UpdatesKeepBook
<1> HIDE DEF Q
<1>3. HasBook(R) /\ R.stable_loan_amount = P.stable_loan_amount + amount
  BY <1>2 DEF SameBook, HasBook
<1> HIDE DEF R
<1>4. HasBook(S) /\ S.stable_loan_amount = P.stable_loan_amount + amount
  BY <1>3, UpdatesKeepBook DEF SameBook
<1> HIDE DEF S
<1> QED BY <1>1, <1>4 DEF HasBook

\* ... and repay_stable takes off what lowers the principal, down to nothing.
LEMMA StableRepaymentBook ==
  ASSUME NEW P, HasBook(P), NEW e, NEW bucket, NEW loan, NEW rate, NEW since, NEW limit
  PROVE  LET left == P.stable_loan_amount
                     - RepayInBorrow(e, bucket, loan, rate, since, limit)
         IN  PoolRepayStable(P, e, bucket, loan, rate, since, limit).stable_loan_amount
               = IF left > 0 THEN left ELSE 0
<1> DEFINE borrow == RepayInBorrow(e, bucket, loan, rate, since, limit)
           left == P.stable_loan_amount - borrow
           a == IF left > 0 THEN left ELSE 0
           m == IF left > 0
                THEN DDiv(DMul(P.stable_loan_amount, P.stable_loan_interest_rate)
                          - DMul(borrow, rate), left)
                ELSE 0
           v == StablePayment(e, bucket, loan, rate, since, limit)
           R == [P EXCEPT !.stable_loan_amount = a, !.stable_loan_interest_rate = m,
                          !.vault = @ + v]
<1>1. PoolRepayStable(P, e, bucket, loan, rate, since, limit) = UpdateInterestRate(R, e)
  BY Zenon DEF PoolRepayStable
<1> HIDE DEF a, m, v
<1>2. HasBook(R) /\ R.stable_loan_amount = a
  BY DEF HasBook
<1> HIDE DEF R
<1>3. UpdateInterestRate(R, e).stable_loan_amount = a
  BY <1>2, UpdatesKeepBook DEF SameBook
<1> QED BY <1>1, <1>3 DEF a

-----------------------------------------------------------------------------
(* The stable book under the manager's steps *)

BooksLeft == \A t \in Tokens : pools'[t].stable_loan_amount = pools[t].stable_loan_amount

LEMMA OneBookLeft ==
  ASSUME IInv, NEW b \in Tokens, NEW Q, SameBook(Q, pools[b]), pools' = [pools EXCEPT ![b] = Q]
  PROVE  BooksLeft
<1>1. \A t \in Tokens : pools'[t] = IF t = b THEN Q ELSE pools[t]
  BY DEF IInv, Books
<1> QED BY <1>1 DEF BooksLeft, SameBook

LEMMA CdpsLeftBook ==
  ASSUME IInv, IInv', Debtors, cdps' = cdps, cdp_vault' = cdp_vault, BooksLeft
  PROVE  LoansFollow
<1>0. Debtors'
  BY DEF Debtors, StakingVault, BooksLeft, Ids
<1> SUFFICES ASSUME NEW t \in Tokens PROVE NoneOrphaned(t)
  BY <1>0 DEF LoansFollow
<1>1. /\ Orphan(t) = pools[t].stable_loan_amount - Sum(StableIn(cdps, cdp_vault, t))
      /\ Sum(StableIn(cdps, cdp_vault, t)) \in Int /\ pools[t].stable_loan_amount \in Int
  BY StableClaimsNow
<1>2. Orphan(t)' = pools'[t].stable_loan_amount - Sum(StableIn(cdps', cdp_vault', t))
  BY StableClaimsNext
<1> QED BY <1>1, <1>2 DEF NoneOrphaned, BooksLeft

LEMMA CdpOpenedBook ==
  ASSUME IInv, IInv', Debtors, NEW x, cdps' = Append(cdps, x), StablyOwing(x),
         \A i \in Ids : i \in cdp_vault' <=> i \in cdp_vault,
         x.collateral_token # NoDx \/ Len(cdps) + 1 \in cdp_vault',
         Len(cdps) + 1 \in cdp_vault' => x.is_stable /\ x.borrow_token = XRD,
         \A t \in Tokens : pools'[t].stable_loan_amount
                             = pools[t].stable_loan_amount + PrincipalOf(x, t)
  PROVE  LoansFollow
<1>0. Debtors'
  <2>1. /\ Len(cdps) \in Nat /\ cdps \in Seq(CollateralDebtPosition)
        /\ cdps' \in Seq(CollateralDebtPosition) /\ cdp_vault' \subseteq Ids'
    BY DEF IInv, Books, Frame
  <2>2. /\ Ids' = Ids \cup {Len(cdps) + 1}
        /\ cdps'[Len(cdps) + 1] = x /\ \A i \in Ids : cdps'[i] = cdps[i]
    BY <2>1 DEF Ids
  <2>3. \A i \in Ids' : StablyOwing(cdps'[i])
    BY <2>2 DEF Debtors
  <2>4. StakingVault'
    BY <2>1, <2>2 DEF Debtors, StakingVault
  <2>5. ASSUME NEW t \in Tokens PROVE pools'[t].stable_loan_amount >= 0
    <3>1. x \in CollateralDebtPosition
      BY <2>1, <2>2 DEF Ids
    <3>2. PrincipalOf(x, t) \in Int /\ PrincipalOf(x, t) >= 0
      BY <3>1, CdpType DEF PrincipalOf, StablyOwing
    <3>3. pools[t].stable_loan_amount \in Int /\ pools[t].stable_loan_amount >= 0
      BY DEF IInv, Books, Pool, Debtors
    <3>4. pools'[t].stable_loan_amount = pools[t].stable_loan_amount + PrincipalOf(x, t)
      OBVIOUS
    <3> QED BY <3>2, <3>3, <3>4
  <2> QED BY <2>3, <2>4, <2>5 DEF Debtors, StablyOwing
<1> SUFFICES ASSUME NEW t \in Tokens PROVE NoneOrphaned(t)
  BY <1>0 DEF LoansFollow
<1>1. x \in CollateralDebtPosition
  <2>1. /\ cdps \in Seq(CollateralDebtPosition) /\ cdps' \in Seq(CollateralDebtPosition)
        /\ Len(cdps) \in Nat
    BY DEF IInv, Books
  <2>2. Len(cdps') = Len(cdps) + 1 /\ cdps'[Len(cdps) + 1] = x
    BY <2>1
  <2>3. Len(cdps) + 1 \in 1..Len(cdps')
    BY <2>1, <2>2
  <2> QED BY <2>1, <2>2, <2>3
<1> DEFINE S == Sum(StableIn(cdps, cdp_vault, t))
           T == Sum(StableIn(cdps', cdp_vault', t))
           A == pools[t].stable_loan_amount
           B == pools'[t].stable_loan_amount
           p == PrincipalOf(x, t)
<1>2. Orphan(t) = A - S /\ S \in Int /\ A \in Int /\ cdps \in Seq(CollateralDebtPosition)
  BY StableClaimsNow
<1>3. Orphan(t)' = B - T
  BY StableClaimsNext
<1>4. \A i \in 1..Len(cdps) : i \in cdp_vault' <=> i \in cdp_vault
  BY DEF Ids
<1>5. T = S + PrincipalIn(x, x.collateral_token # NoDx \/ Len(cdps) + 1 \in cdp_vault', t)
  BY <1>1, <1>2, <1>4, StableInOneMore
<1>6. T = S + p /\ B = A + p
  BY <1>5 DEF PrincipalIn, PrincipalOf
<1>7. p \in Int
  BY <1>1, CdpType DEF PrincipalIn, PrincipalOf
<1> HIDE DEF S, T, A, B, p
<1>8. Orphan(t)' = Orphan(t) /\ Orphan(t) \in Int
  BY <1>2, <1>3, <1>6, <1>7
<1> QED BY <1>8 DEF NoneOrphaned

LEMMA LiveKnown ==
  ASSUME IInv, NEW i \in Live
  PROVE  i \in Ids /\ Alive(cdps, cdp_vault, i) /\ cdps[i] \in CollateralDebtPosition
<1>1. i \in Ids
  BY DEF Live, Pledged, IInv, Frame
<1> QED BY <1>1, CdpKnown DEF Live, Pledged, Alive, IInv

LEMMA StableArguments ==
  ASSUME IInv, Debtors, NEW i \in Ids, cdps[i].is_stable
  PROVE  LET cdp == cdps[i]
         IN  /\ cdp \in CollateralDebtPosition /\ cdp.borrow_token \in Tokens
             /\ cdp.borrow_amount \in Nat /\ cdp.stable_rate \in Nat
             /\ cdp.last_update_epoch \in Nat /\ cdp.last_update_epoch <= epoch
             /\ epoch \in Nat /\ Env(cdp.borrow_token).now = epoch
             /\ Env(cdp.borrow_token).cfg = Config[cdp.borrow_token]
<1>1. /\ cdps[i] \in CollateralDebtPosition /\ cdps[i].last_update_epoch <= epoch
      /\ epoch \in Nat /\ cdps[i].borrow_amount >= 0 /\ cdps[i].stable_rate >= 0
  BY CdpKnown DEF IInv, Books, Debtors, StablyOwing
<1>2. cdps[i].borrow_token \in Tokens
  BY <1>1, CdpType
<1> QED BY <1>1, <1>2, CdpType, EnvType

LEMMA CdpChangedBook ==
  ASSUME IInv, IInv', Debtors, NEW i \in Live, NEW x, cdps' = [cdps EXCEPT ![i] = x],
         StablyOwing(x), cdp_vault' = cdp_vault,
         x.collateral_token = cdps[i].collateral_token,
         x.is_stable = cdps[i].is_stable, x.borrow_token = cdps[i].borrow_token,
         \A t \in Tokens :
           /\ \/ pools'[t].stable_loan_amount
                   <= pools[t].stable_loan_amount
                      + (PrincipalOf(x, t) - PrincipalOf(cdps[i], t))
              \/ pools'[t].stable_loan_amount = 0
           /\ pools'[t].stable_loan_amount >= 0
  PROVE  LoansFollow
<1>0. Debtors'
  <2>1. i \in Ids /\ Ids' = Ids /\ \A j \in Ids : cdps'[j] = IF j = i THEN x ELSE cdps[j]
    BY LiveKnown DEF IInv, Books, Ids
  <2>2. cdp_vault \subseteq Ids
    BY DEF IInv, Frame
  <2> QED BY <2>1, <2>2 DEF Debtors, StakingVault
<1> SUFFICES ASSUME NEW t \in Tokens PROVE NoneOrphaned(t)
  BY <1>0 DEF LoansFollow
<1>1. i \in Ids /\ Alive(cdps, cdp_vault, i) /\ cdps[i] \in CollateralDebtPosition
  BY LiveKnown
<1>2. /\ Len(cdps') = Len(cdps) /\ i \in 1..Len(cdps) /\ cdps'[i] = x
      /\ \A j \in 1..Len(cdps) : j # i => cdps'[j] = cdps[j]
  BY <1>1 DEF IInv, Books, Ids
<1>3. cdps \in Seq(CollateralDebtPosition) /\ cdps' \in Seq(CollateralDebtPosition)
  BY DEF IInv, Books
<1>4. x \in CollateralDebtPosition
  BY <1>2, <1>3
<1>5. Alive(cdps', cdp_vault', i)
  BY <1>1, <1>2 DEF Alive
<1> DEFINE s == cdps
           r == cdps'
           V == cdp_vault
           W == cdp_vault'
<1>6. Sum(StableIn(r, W, t))
        = Sum(StableIn(s, V, t)) - PrincipalIn(s[i], Alive(s, V, i), t)
          + PrincipalIn(r[i], Alive(r, W, i), t)
  <2>1. /\ Len(r) = Len(s) /\ i \in 1..Len(s)
        /\ s \in Seq(CollateralDebtPosition) /\ r \in Seq(CollateralDebtPosition)
    BY <1>2, <1>3
  <2>2. \A j \in 1..Len(s) : j # i => r[j] = s[j] /\ (j \in W <=> j \in V)
    BY <1>2
  <2> HIDE DEF s, r, V, W
  <2> QED BY <2>1, <2>2, StableInOneChanged
<1>7. Alive(s, V, i) /\ Alive(r, W, i) /\ r[i] = x
  BY <1>1, <1>2, <1>5
<1>8. Sum(StableIn(r, W, t)) >= 0
  BY <1>0, StableClaimsNatNext
<1> HIDE DEF s, r, V, W
<1>9. /\ Orphan(t) = pools[t].stable_loan_amount - Sum(StableIn(s, V, t))
      /\ Sum(StableIn(s, V, t)) \in Int /\ pools[t].stable_loan_amount \in Int
  BY StableClaimsNow DEF s, V
<1>10. /\ Orphan(t)' = pools'[t].stable_loan_amount - Sum(StableIn(r, W, t))
       /\ Sum(StableIn(r, W, t)) \in Int /\ pools'[t].stable_loan_amount \in Int
  BY StableClaimsNext DEF r, W
<1> DEFINE S == Sum(StableIn(s, V, t))
           T == Sum(StableIn(r, W, t))
           p == PrincipalOf(s[i], t)
           q == PrincipalOf(x, t)
<1>11. T = S - p + q
  <2>1. PrincipalIn(s[i], Alive(s, V, i), t) = p
    BY <1>7 DEF PrincipalIn, PrincipalOf
  <2>2. PrincipalIn(r[i], Alive(r, W, i), t) = q
    BY <1>7 DEF PrincipalIn, PrincipalOf
  <2> QED BY <1>6, <2>1, <2>2
<1>12. p \in Int /\ q \in Int
  BY <1>1, <1>4, CdpType DEF PrincipalOf, s
<1>13. \/ pools'[t].stable_loan_amount <= pools[t].stable_loan_amount + (q - p)
       \/ pools'[t].stable_loan_amount = 0
  BY DEF s
<1> HIDE DEF S, T, p, q
<1>14. Orphan(t)' <= Orphan(t) \/ Orphan(t)' <= 0
  BY <1>8, <1>9, <1>10, <1>11, <1>12, <1>13 DEF S, T
<1> QED BY <1>14 DEF NoneOrphaned

LEMMA DepositsOrphanNone ==
  ASSUME IInv, IInv', Debtors,
         \/ \E t \in Tokens, n \in Nat : Supply(t, n) \/ Withdraw(t, n)
         \/ \E t \in Tokens, n \in Nat : BorrowFlashloan(t, n) \/ WithdrawInsurance(t, n)
         \/ \E f \in flashloans : RepayFlashloan(f)
  PROVE  LoansFollow
<1>1. UNCHANGED <<cdps, cdp_vault>>
  BY DEF Supply, Withdraw, BorrowFlashloan, WithdrawInsurance, RepayFlashloan, OnlyPools
<1>2. ASSUME NEW b \in Tokens
      PROVE  HasBook(pools[b])
  <2>1. pools[b] \in Pool
    BY DEF IInv, Books
  <2> QED BY <2>1, PoolHasBook
<1>3. \E b \in Tokens : \E Q : SameBook(Q, pools[b]) /\ pools' = [pools EXCEPT ![b] = Q]
  <2>1. ASSUME NEW t \in Tokens, NEW n \in Nat, Supply(t, n) \/ Withdraw(t, n)
        PROVE  \E b \in Tokens : \E Q : SameBook(Q, pools[b]) /\ pools' = [pools EXCEPT ![b] = Q]
    BY <1>2, <2>1, DepositsKeepBook DEF Supply, Withdraw
  <2>2. ASSUME NEW t \in Tokens, NEW n \in Nat, BorrowFlashloan(t, n) \/ WithdrawInsurance(t, n)
        PROVE  \E b \in Tokens : \E Q : SameBook(Q, pools[b]) /\ pools' = [pools EXCEPT ![b] = Q]
    BY <1>2, <2>2, FlashloansKeepBook DEF BorrowFlashloan, WithdrawInsurance
  <2>3. ASSUME NEW f \in flashloans, RepayFlashloan(f)
        PROVE  \E b \in Tokens : \E Q : SameBook(Q, pools[b]) /\ pools' = [pools EXCEPT ![b] = Q]
    <3>1. f.res_addr \in Tokens
      BY DEF IInv, Frame, FlashLoanData
    <3> QED BY <1>2, <2>3, <3>1, FlashloansKeepBook DEF RepayFlashloan
  <2> QED BY <2>1, <2>2, <2>3
<1>4. BooksLeft
  BY <1>3, OneBookLeft
<1> QED BY <1>1, <1>4, CdpsLeftBook

LEMMA WorldOrphansNone ==
  ASSUME IInv, IInv', Debtors, UNCHANGED <<pools, cdps, cdp_vault>>
  PROVE  LoansFollow
  BY CdpsLeftBook DEF BooksLeft

LEMMA BorrowVariableOrphansNone ==
  ASSUME IInv, IInv', Debtors, NEW c \in Tokens, NEW b \in Tokens, NEW dx \in Nat,
         NEW amount \in Nat, BorrowVariable(c, b, dx, amount)
  PROVE  LoansFollow
<1> DEFINE x == NewCdp(c, b, amount, dx, SharesFor(pools[b], Env(b), amount), 0, FALSE)
           Q == PoolBorrowVariable(pools[b], Env(b), amount)
<1>1. /\ pools' = [pools EXCEPT ![b] = Q]
      /\ cdps' = Append(cdps, x) /\ cdp_vault' = cdp_vault
  BY DEF BorrowVariable, PoolsAndCdps
<1>2. x.collateral_token # NoDx /\ ~x.is_stable
  BY ManagerAssumption DEF NewCdp
<1> HIDE DEF x
<1>3. \A t \in Tokens : pools[t] \in Pool /\ pools[t].stable_loan_amount \in Int
  BY DEF IInv, Books, Pool
<1>4. SameBook(Q, pools[b])
  BY <1>3, PoolHasBook, VariableLoansKeepBook
<1> HIDE DEF Q
<1>5. BooksLeft
  BY <1>1, <1>4, OneBookLeft
<1>6. \A t \in Tokens : pools'[t].stable_loan_amount
                          = pools[t].stable_loan_amount + PrincipalOf(x, t)
  BY <1>2, <1>3, <1>5 DEF BooksLeft, PrincipalOf
<1>7. Len(cdps) + 1 \notin cdp_vault'
  BY <1>1 DEF IInv, Books, Frame, Ids
<1> QED BY <1>1, <1>2, <1>6, <1>7, CdpOpenedBook DEF StablyOwing

\* A stable loan of b to a new CDP, as BorrowStable and StakingBorrow make it.
LEMMA StableLoanOrphansNone ==
  ASSUME IInv, IInv', Debtors, NEW b \in Tokens, NEW amount \in Nat, NEW rate,
         pools' = [pools EXCEPT ![b] = PoolBorrowStable(@, Env(b), amount, rate)],
         NEW x, cdps' = Append(cdps, x),
         x.borrow_token = b, x.is_stable, x.borrow_amount = amount, x.stable_rate >= 0,
         \A i \in Ids : i \in cdp_vault' <=> i \in cdp_vault,
         x.collateral_token # NoDx \/ Len(cdps) + 1 \in cdp_vault',
         Len(cdps) + 1 \in cdp_vault' => b = XRD
  PROVE  LoansFollow
<1> DEFINE Q == PoolBorrowStable(pools[b], Env(b), amount, rate)
<1>1. \A t \in Tokens : pools[t] \in Pool /\ pools[t].stable_loan_amount \in Int
  BY DEF IInv, Books, Pool
<1>2. Q.stable_loan_amount = pools[b].stable_loan_amount + amount
  BY <1>1, PoolHasBook, StableLoanBook
<1> HIDE DEF Q
<1>3. \A t \in Tokens : pools'[t] = IF t = b THEN Q ELSE pools[t]
  BY DEF IInv, Books, Q
<1>4. \A t \in Tokens : pools'[t].stable_loan_amount
                          = pools[t].stable_loan_amount + PrincipalOf(x, t)
  <2> SUFFICES ASSUME NEW t \in Tokens
               PROVE  pools'[t].stable_loan_amount
                        = pools[t].stable_loan_amount + PrincipalOf(x, t)
    OBVIOUS
  <2>1. CASE t = b
    BY <1>2, <1>3, <2>1 DEF PrincipalIn, PrincipalOf
  <2>2. CASE t # b
    <3>1. PrincipalOf(x, t) = 0
      BY <2>2 DEF PrincipalIn, PrincipalOf
    <3> QED BY <1>1, <1>3, <2>2, <3>1
  <2> QED BY <2>1, <2>2
<1>5. StablyOwing(x)
  BY DEF StablyOwing
<1> QED BY <1>4, <1>5, CdpOpenedBook

LEMMA BorrowStableOrphansNone ==
  ASSUME IInv, IInv', Debtors, NEW c \in Tokens, NEW b \in Tokens, NEW dx \in Nat,
         NEW amount \in Nat, BorrowStable(c, b, dx, amount)
  PROVE  LoansFollow
<1> DEFINE rate == InterestRate(pools[b], Env(b), amount).stable
           x == NewCdp(c, b, amount, dx, 0, rate, TRUE)
<1>1. /\ pools' = [pools EXCEPT ![b] = PoolBorrowStable(@, Env(b), amount, rate)]
      /\ cdps' = Append(cdps, x) /\ cdp_vault' = cdp_vault
  BY DEF BorrowStable, PoolsAndCdps
<1>0. rate >= 0
  <2>1. rate \in Nat
    BY PoolSound, StableRateNat DEF IInv
  <2> QED BY <2>1
<1> HIDE DEF rate
<1>2. /\ x.collateral_token # NoDx /\ x.is_stable /\ x.borrow_token = b
      /\ x.borrow_amount = amount /\ x.stable_rate >= 0
  BY <1>0, ManagerAssumption DEF NewCdp
<1> HIDE DEF x
<1>3. Len(cdps) + 1 \notin cdp_vault'
  BY <1>1 DEF IInv, Books, Frame, Ids
<1>4. /\ \A i \in Ids : i \in cdp_vault' <=> i \in cdp_vault
      /\ x.collateral_token # NoDx \/ Len(cdps) + 1 \in cdp_vault'
  BY <1>1, <1>2
<1> QED BY <1>1, <1>2, <1>3, <1>4, StableLoanOrphansNone, Zenon

LEMMA StakingBorrowOrphansNone ==
  ASSUME IInv, IInv', Debtors, NEW amount \in Nat, NEW rate \in Nat, NEW claim,
         StakingBorrow(amount, rate, claim)
  PROVE  LoansFollow
<1> DEFINE x == NewCdp(NoDx, XRD, amount, claim, 0, rate, TRUE)
<1>1. /\ pools' = [pools EXCEPT ![XRD] = PoolBorrowStable(@, Env(XRD), amount, rate)]
      /\ cdps' = Append(cdps, x) /\ cdp_vault' = cdp_vault \cup {Len(cdps) + 1}
  BY DEF StakingBorrow
<1>2. /\ x.is_stable /\ x.borrow_token = XRD /\ x.borrow_amount = amount
      /\ x.stable_rate >= 0
  BY DEF NewCdp
<1> HIDE DEF x
<1>3. /\ \A i \in Ids : i \in cdp_vault' <=> i \in cdp_vault
      /\ Len(cdps) + 1 \in cdp_vault'
  BY <1>1 DEF Ids, IInv, Books
<1>4. XRD \in Tokens
  BY ManagerAssumption
<1> QED BY <1>1, <1>2, <1>3, <1>4, StableLoanOrphansNone, Zenon

\* A CDP whose loan the call leaves alone.
LEMMA LoanLeftOrphansNone ==
  ASSUME IInv, IInv', Debtors, NEW i \in Live, NEW x, cdps' = [cdps EXCEPT ![i] = x],
         cdp_vault' = cdp_vault, x.collateral_token = cdps[i].collateral_token,
         x.is_stable = cdps[i].is_stable, x.borrow_token = cdps[i].borrow_token,
         x.is_stable => /\ x.borrow_amount = cdps[i].borrow_amount
                        /\ x.stable_rate = cdps[i].stable_rate \/ x.stable_rate = 0,
         BooksLeft
  PROVE  LoansFollow
<1>1. ASSUME NEW t \in Tokens
      PROVE  pools'[t].stable_loan_amount
               <= pools[t].stable_loan_amount
                  + (PrincipalOf(x, t) - PrincipalOf(cdps[i], t))
  <2>1. PrincipalOf(x, t) = PrincipalOf(cdps[i], t)
    BY DEF PrincipalIn, PrincipalOf
  <2>2. PrincipalOf(cdps[i], t) \in Int
    BY LiveKnown, CdpType DEF PrincipalIn, PrincipalOf
  <2>3. pools[t].stable_loan_amount \in Int
    BY DEF IInv, Books, Pool
  <2> QED BY <2>1, <2>2, <2>3 DEF BooksLeft
<1>2. \A t \in Tokens : pools'[t].stable_loan_amount >= 0
  BY DEF BooksLeft, Debtors
<1>3. StablyOwing(x)
  <2>1. StablyOwing(cdps[i])
    BY LiveKnown DEF Debtors
  <2> QED BY <2>1 DEF StablyOwing
<1> QED BY <1>1, <1>2, <1>3, CdpChangedBook

LEMMA ExtendVariableOrphansNone ==
  ASSUME IInv, IInv', Debtors, NEW i \in Pledged, NEW amount \in Nat,
         ExtendVariable(i, amount)
  PROVE  LoansFollow
<1> DEFINE cdp == cdps[i]
           b == cdp.borrow_token
           x == [cdp EXCEPT !.total_borrow = @ + amount,
                            !.borrow_amount = @ + amount,
                            !.normalized_borrow = @ + SharesFor(pools[b], Env(b), amount)]
           Q == PoolBorrowVariable(pools[b], Env(b), amount)
<1>1. /\ i \in Ids /\ i \in Live /\ cdp \in CollateralDebtPosition /\ b \in Tokens
  BY PledgedToken, CdpKnown, CdpType DEF IInv, Live
<1>2. /\ pools' = [pools EXCEPT ![b] = Q] /\ ~cdp.is_stable /\ cdp_vault' = cdp_vault
  BY Zenon DEF ExtendVariable, PoolsAndCdps
<1>3. cdps' = [cdps EXCEPT ![i] = x]
  BY <1>1 DEF ExtendVariable, IInv, Books, Ids
<1>4. /\ x.collateral_token = cdp.collateral_token /\ x.is_stable = cdp.is_stable
      /\ x.borrow_token = cdp.borrow_token
  BY <1>1 DEF CollateralDebtPosition
<1> HIDE DEF x
<1>5. SameBook(Q, pools[b])
  BY <1>1, PoolHasBook, VariableLoansKeepBook DEF IInv, Books
<1> HIDE DEF Q
<1>6. BooksLeft
  BY <1>1, <1>2, <1>5, OneBookLeft
<1> QED BY <1>1, <1>2, <1>3, <1>4, <1>6, LoanLeftOrphansNone

LEMMA ExtendStableOrphansNone ==
  ASSUME IInv, IInv', Debtors, NEW i \in Pledged, NEW amount \in Nat,
         ExtendStable(i, amount)
  PROVE  LoansFollow
<1> DEFINE cdp      == cdps[i]
           b        == cdp.borrow_token
           interest == StableInterest(Env(b), cdp.borrow_amount, cdp.stable_rate,
                                      cdp.last_update_epoch)
           rate     == InterestRate(pools[b], Env(b), amount).stable
           mean     == WeightRate(cdp.borrow_amount + interest, cdp.stable_rate, amount, rate)
           Q        == PoolBorrowStable(pools[b], Env(b), amount, rate)
           x        == [cdp EXCEPT !.total_borrow = @ + amount,
                                   !.borrow_amount = @ + amount + interest,
                                   !.stable_rate = mean,
                                   !.last_update_epoch = epoch]
<1>1. /\ i \in Ids /\ i \in Live /\ cdp \in CollateralDebtPosition /\ b \in Tokens
      /\ cdp.borrow_amount \in Nat /\ cdp.stable_rate \in Nat
      /\ cdp.last_update_epoch \in Nat /\ cdp.last_update_epoch <= epoch /\ epoch \in Nat
      /\ Env(b).now = epoch /\ cdp.is_stable
  <2>1. cdp.is_stable
    BY DEF ExtendStable
  <2> QED BY <2>1, PledgedToken, StableArguments DEF Live, IInv
<1>2. /\ cdp.borrow_amount + interest + amount # 0
      /\ pools' = [pools EXCEPT ![b] = Q] /\ cdp_vault' = cdp_vault
  BY Zenon DEF ExtendStable, PoolsAndCdps
<1>3. cdps' = [cdps EXCEPT ![i] = x]
  BY <1>1 DEF ExtendStable, IInv, Books, Ids
<1>4. interest \in Nat
  <2> DEFINE grown == CompoundInterest(cdp.borrow_amount, cdp.stable_rate,
                                       epoch - cdp.last_update_epoch)
  <2>1. interest = grown - cdp.borrow_amount
    BY <1>1 DEF StableInterest
  <2>2. grown \in Nat /\ grown >= cdp.borrow_amount
    <3>1. epoch - cdp.last_update_epoch \in Nat
      BY <1>1
    <3> QED BY <1>1, <3>1, CompoundInterestGrows
  <2> HIDE DEF grown, interest
  <2> QED BY <1>1, <2>1, <2>2
<1> HIDE DEF interest
<1>0. mean \in Nat
  <2>1. rate \in Nat
    BY <1>1, PoolSound, StableRateNat DEF IInv
  <2> HIDE DEF rate
  <2>2. cdp.borrow_amount + interest \in Nat /\ (cdp.borrow_amount + interest) + amount # 0
    BY <1>1, <1>2, <1>4
  <2> QED BY <1>1, <2>1, <2>2, WeightRateNat
<1> HIDE DEF mean, rate
<1>5. /\ x.collateral_token = cdp.collateral_token /\ x.is_stable = cdp.is_stable
      /\ x.borrow_token = b /\ x.borrow_amount = cdp.borrow_amount + amount + interest
      /\ x.stable_rate = mean
  BY <1>1 DEF CollateralDebtPosition
<1> HIDE DEF x
<1>6. \A t \in Tokens : pools[t] \in Pool /\ pools[t].stable_loan_amount \in Int
  BY DEF IInv, Books, Pool
<1>7. Q.stable_loan_amount = pools[b].stable_loan_amount + amount
  BY <1>1, <1>6, PoolHasBook, StableLoanBook
<1> HIDE DEF Q
<1>8. \A t \in Tokens : pools'[t] = IF t = b THEN Q ELSE pools[t]
  BY <1>2 DEF IInv, Books
<1>9. ASSUME NEW t \in Tokens
      PROVE  pools'[t].stable_loan_amount
               <= pools[t].stable_loan_amount
                  + (PrincipalOf(x, t) - PrincipalOf(cdp, t))
  <2>1. CASE t = b
    <3>1. PrincipalOf(x, t) = cdp.borrow_amount + amount + interest
      BY <1>1, <1>5, <2>1 DEF PrincipalIn, PrincipalOf
    <3>2. PrincipalOf(cdp, t) = cdp.borrow_amount
      BY <1>1, <2>1 DEF PrincipalIn, PrincipalOf
    <3>3. pools'[t].stable_loan_amount = pools[t].stable_loan_amount + amount
      BY <1>7, <1>8, <2>1
    <3> HIDE DEF cdp
    <3> QED BY <1>1, <1>4, <1>6, <3>1, <3>2, <3>3
  <2>2. CASE t # b
    <3>1. PrincipalOf(x, t) = 0 /\ PrincipalOf(cdp, t) = 0
      BY <1>5, <2>2 DEF PrincipalIn, PrincipalOf
    <3> QED BY <1>6, <1>8, <2>2, <3>1
  <2> QED BY <2>1, <2>2
<1>10. \A t \in Tokens : pools'[t].stable_loan_amount >= 0
  BY <1>6, <1>7, <1>8 DEF Debtors
<1>11. StablyOwing(x)
  <2>1. x.borrow_amount >= 0 /\ x.stable_rate >= 0
    <3> HIDE DEF cdp
    <3> QED BY <1>0, <1>1, <1>4, <1>5
  <2> QED BY <2>1 DEF StablyOwing
<1> QED BY <1>1, <1>2, <1>3, <1>5, <1>9, <1>10, <1>11, CdpChangedBook

LEMMA CollateralOrphansNone ==
  ASSUME IInv, IInv', Debtors, NEW i \in Pledged, NEW n \in Nat,
         WithdrawCollateral(i, n) \/ AddCollateralDx(i, n) \/ AddCollateral(i, n)
  PROVE  LoansFollow
<1> DEFINE cdp == cdps[i]
           c == cdp.collateral_token
<1>1. /\ i \in Ids /\ i \in Live /\ cdp \in CollateralDebtPosition /\ c \in Tokens
      /\ HasBook(pools[c])
  BY PledgedToken, CdpKnown, PoolHasBook DEF IInv, Books, Live
<1>2. cdp_vault' = cdp_vault
  BY DEF WithdrawCollateral, AddCollateralDx, AddCollateral, PoolsAndCdps
<1>3. \E x : /\ cdps' = [cdps EXCEPT ![i] = x]
             /\ x.collateral_token = c /\ x.is_stable = cdp.is_stable
             /\ x.borrow_token = cdp.borrow_token /\ x.borrow_amount = cdp.borrow_amount
             /\ x.stable_rate = cdp.stable_rate \/ x.stable_rate = 0
  <2>1. ASSUME NEW dx
        PROVE  LET x == WithCollateral(cdp, dx)
                   y == Release(cdp, dx)
               IN  /\ x.collateral_token = c /\ x.is_stable = cdp.is_stable
                   /\ x.borrow_token = cdp.borrow_token /\ x.borrow_amount = cdp.borrow_amount
                   /\ x.stable_rate = cdp.stable_rate \/ x.stable_rate = 0
                   /\ y.collateral_token = c /\ y.is_stable = cdp.is_stable
                   /\ y.borrow_token = cdp.borrow_token /\ y.borrow_amount = cdp.borrow_amount
                   /\ y.stable_rate = cdp.stable_rate
    BY <1>1 DEF WithCollateral, Release, CollateralDebtPosition
  <2>2. \E dx : \/ cdps' = [cdps EXCEPT ![i] = WithCollateral(cdp, dx)]
                \/ cdps' = [cdps EXCEPT ![i] = Release(cdp, dx)]
    BY Zenon DEF WithdrawCollateral, AddCollateralDx, AddCollateral
  <2> QED BY <2>1, <2>2, Zenon
<1>4. BooksLeft
  <2>1. CASE WithdrawCollateral(i, n) \/ AddCollateral(i, n)
    <3>1. \E Q : SameBook(Q, pools[c]) /\ pools' = [pools EXCEPT ![c] = Q]
      BY <1>1, <2>1, DepositsKeepBook, Zenon DEF WithdrawCollateral, AddCollateral
    <3> QED BY <1>1, <3>1, OneBookLeft
  <2>2. CASE AddCollateralDx(i, n)
    BY <2>2 DEF AddCollateralDx, BooksLeft
  <2> QED BY <2>1, <2>2
<1> QED BY <1>1, <1>2, <1>3, <1>4, LoanLeftOrphansNone

\* What a repayment leaves in the book is what it leaves of the principal, or
\* nothing.
LEMMA RepaidBook ==
  ASSUME IInv, Debtors, NEW i \in Ids, NEW bucket \in Int, NEW limit \in Int
  PROVE  LET cdp == cdps[i]
             b   == cdp.borrow_token
             x   == CdpRepaid(i, bucket, limit)
             Q   == PoolRepaid(i, bucket, limit)
         IN  /\ x.borrow_token = b /\ x.is_stable = cdp.is_stable
             /\ x.collateral_token = cdp.collateral_token
             /\ StablyOwing(x) /\ Q.stable_loan_amount >= 0
             /\ \/ Q.stable_loan_amount
                     <= pools[b].stable_loan_amount + (PrincipalOf(x, b) - PrincipalOf(cdp, b))
                \/ Q.stable_loan_amount = 0
<1> DEFINE cdp == cdps[i]
           b   == cdp.borrow_token
           e   == Env(b)
           x   == CdpRepaid(i, bucket, limit)
           Q   == PoolRepaid(i, bucket, limit)
<1>1. cdp \in CollateralDebtPosition /\ b \in Tokens
  BY CdpKnown, CdpType DEF IInv
<1>2. /\ HasBook(pools[b]) /\ pools[b].stable_loan_amount \in Int
      /\ pools[b].stable_loan_amount >= 0
  BY <1>1, PoolHasBook DEF IInv, Books, Pool, Debtors
<1>3. CASE ~cdp.is_stable
  <2> DEFINE paid == Payment(i, bucket, limit)
             gone == SharesRepaid(pools[b], e, paid, cdp.normalized_borrow)
  <2>1. x = AfterVariableRepay(cdp, paid, gone)
    BY <1>3 DEF CdpRepaid
  <2> HIDE DEF paid, gone
  <2>2. /\ x.borrow_token = b /\ x.is_stable = cdp.is_stable
        /\ x.collateral_token = cdp.collateral_token
    BY <1>1, <2>1 DEF AfterVariableRepay, CollateralDebtPosition
  <2>3. Q = PoolRepayVariable(pools[b], e, bucket, cdp.normalized_borrow, limit)
    BY <1>3 DEF PoolRepaid
  <2> HIDE DEF x, Q
  <2>4. Q.stable_loan_amount = pools[b].stable_loan_amount
    BY <1>2, <2>3, VariableLoansKeepBook DEF SameBook
  <2>5. PrincipalOf(x, b) = 0 /\ PrincipalOf(cdp, b) = 0
    BY <1>3, <2>2 DEF PrincipalOf
  <2>6. Q.stable_loan_amount
          <= pools[b].stable_loan_amount + (PrincipalOf(x, b) - PrincipalOf(cdp, b))
    BY <1>2, <2>4, <2>5
  <2>7. StablyOwing(x)
    BY <1>3, <2>2 DEF StablyOwing
  <2> QED BY <1>2, <2>2, <2>4, <2>6, <2>7 DEF x, Q
<1>4. CASE cdp.is_stable
  <2> DEFINE paid == Payment(i, bucket, limit)
             borrow == RepayInBorrow(e, bucket, cdp.borrow_amount, cdp.stable_rate,
                                     cdp.last_update_epoch, limit)
             left == pools[b].stable_loan_amount - borrow
  <2>1. /\ x = AfterStableRepay(cdp, paid, borrow)
        /\ Q = PoolRepayStable(pools[b], e, bucket, cdp.borrow_amount, cdp.stable_rate,
                               cdp.last_update_epoch, limit)
    BY <1>4, Zenon DEF CdpRepaid, PoolRepaid
  <2> HIDE DEF paid
  <2>2. Q.stable_loan_amount = IF left > 0 THEN left ELSE 0
    BY <1>2, <2>1, StableRepaymentBook
  <2>0. /\ cdp.borrow_amount \in Nat /\ cdp.stable_rate \in Nat
        /\ cdp.last_update_epoch \in Nat /\ cdp.last_update_epoch <= e.now /\ e \in Environment
    BY <1>4, StableArguments, EnvType DEF IInv, Books
  <2>3. borrow \in Int /\ borrow <= cdp.borrow_amount
    BY <2>0, StableRepaymentBounds
  <2> HIDE DEF borrow, Q
  <2>4. /\ x.borrow_token = b /\ x.is_stable = cdp.is_stable
        /\ x.collateral_token = cdp.collateral_token
        /\ x.borrow_amount = cdp.borrow_amount - borrow
        /\ x.stable_rate = cdp.stable_rate \/ x.stable_rate = 0
    BY <1>1, <2>0, <2>1, <2>3 DEF AfterStableRepay, CollateralDebtPosition
  <2> HIDE DEF x
  <2>5. PrincipalOf(x, b) = cdp.borrow_amount - borrow /\ PrincipalOf(cdp, b) = cdp.borrow_amount
    BY <1>4, <2>4 DEF PrincipalOf
  <2> DEFINE A == pools[b].stable_loan_amount
             p == PrincipalOf(cdp, b)
             q == PrincipalOf(x, b)
  <2>6. q = p - borrow /\ p \in Int /\ A \in Int
    BY <1>2, <2>0, <2>5
  <2>7. Q.stable_loan_amount = A - borrow \/ Q.stable_loan_amount = 0
    BY <2>2
  <2> HIDE DEF A, p, q
  <2>8. Q.stable_loan_amount <= A + (q - p) \/ Q.stable_loan_amount = 0
    BY <2>3, <2>6, <2>7
  <2>9. StablyOwing(x) /\ Q.stable_loan_amount >= 0
    <3>1. x.borrow_amount >= 0 /\ x.stable_rate >= 0
      <4> HIDE DEF cdp
      <4> QED BY <2>0, <2>3, <2>4
    <3>2. Q.stable_loan_amount >= 0
      <4>1. left \in Int
        BY <1>2, <2>3
      <4> HIDE DEF left
      <4> QED BY <2>2, <4>1
    <3> QED BY <3>1, <3>2 DEF StablyOwing
  <2> QED BY <2>4, <2>8, <2>9, Zenon DEF x, Q, A, p, q
<1> QED BY <1>3, <1>4

\* A call that repays for CDP i, whatever it does to the collateral and to the
\* rest of the pools.
LEMMA RepaymentOrphansNone ==
  ASSUME IInv, IInv', Debtors, NEW i \in Live, NEW bucket \in Int, NEW limit \in Int,
         NEW x,
         cdps' = [cdps EXCEPT ![i] = x], cdp_vault' = cdp_vault,
         LET y == CdpRepaid(i, bucket, limit)
         IN  /\ x.collateral_token = y.collateral_token /\ x.is_stable = y.is_stable
             /\ x.borrow_token = y.borrow_token /\ x.borrow_amount = y.borrow_amount
             /\ x.stable_rate = y.stable_rate,
         \A t \in Tokens :
           pools'[t].stable_loan_amount
             = IF t = cdps[i].borrow_token
               THEN PoolRepaid(i, bucket, limit).stable_loan_amount
               ELSE pools[t].stable_loan_amount
  PROVE  LoansFollow
<1> DEFINE cdp == cdps[i]
           b   == cdp.borrow_token
           y   == CdpRepaid(i, bucket, limit)
           Q   == PoolRepaid(i, bucket, limit)
<1>1. i \in Ids
  BY LiveKnown
<1>2. /\ y.borrow_token = b /\ y.is_stable = cdp.is_stable
      /\ y.collateral_token = cdp.collateral_token
      /\ StablyOwing(y) /\ Q.stable_loan_amount >= 0
      /\ \/ Q.stable_loan_amount
              <= pools[b].stable_loan_amount + (PrincipalOf(y, b) - PrincipalOf(cdp, b))
         \/ Q.stable_loan_amount = 0
  BY <1>1, RepaidBook
<1> HIDE DEF y, Q
<1>3. /\ x.collateral_token = cdp.collateral_token /\ x.borrow_token = b
      /\ x.is_stable = cdp.is_stable
      /\ PrincipalOf(x, b) = PrincipalOf(y, b) /\ StablyOwing(x)
  BY <1>2 DEF PrincipalOf, StablyOwing, y
<1>4. ASSUME NEW t \in Tokens
      PROVE  \/ pools'[t].stable_loan_amount
                  <= pools[t].stable_loan_amount + (PrincipalOf(x, t) - PrincipalOf(cdp, t))
             \/ pools'[t].stable_loan_amount = 0
  <2>1. CASE t = b
    BY <1>2, <1>3, <2>1 DEF Q
  <2>2. CASE t # b
    <3>1. PrincipalOf(x, t) = 0 /\ PrincipalOf(cdp, t) = 0
      BY <1>3, <2>2 DEF PrincipalOf
    <3>2. pools[t].stable_loan_amount \in Int
      BY DEF IInv, Books, Pool
    <3>3. pools'[t].stable_loan_amount = pools[t].stable_loan_amount
      BY <2>2
    <3> QED BY <3>1, <3>2, <3>3
  <2> QED BY <2>1, <2>2
<1>5. \A t \in Tokens : pools'[t].stable_loan_amount >= 0
  BY <1>2 DEF Debtors, Q
<1> QED BY <1>3, <1>4, <1>5, CdpChangedBook

LEMMA RepayOrphansNone ==
  ASSUME IInv, IInv', Debtors, NEW i \in Live, NEW bucket \in Int, Repay(i, bucket)
  PROVE  LoansFollow
<1> DEFINE b == cdps[i].borrow_token
           x == CdpRepaid(i, bucket, bucket)
           Q == PoolRepaid(i, bucket, bucket)
<1>1. /\ pools' = [pools EXCEPT ![b] = Q] /\ cdps' = [cdps EXCEPT ![i] = x]
      /\ cdp_vault' = cdp_vault
  BY Zenon DEF Repay, PoolsAndCdps
<1> HIDE DEF Q
<1>2. \A t \in Tokens :
        pools'[t].stable_loan_amount
          = IF t = b THEN Q.stable_loan_amount ELSE pools[t].stable_loan_amount
  BY <1>1 DEF IInv, Books
<1> QED BY <1>1, <1>2, RepaymentOrphansNone, Zenon DEF Q

LEMMA LiquidationOrphansNone ==
  ASSUME IInv, IInv', Debtors, NEW i \in Pledged, NEW bucket \in Nat, NEW cover \in Nat,
         NEW bp \in Nat, NEW cp \in Nat, Liquidation(i, bucket, cover, bp, cp)
  PROVE  LoansFollow
<1> DEFINE b      == cdps[i].borrow_token
           c      == cdps[i].collateral_token
           terms  == LiquidationTerms(i, cover, bp, cp)
           debt   == terms.debt
           dx     == terms.dx
           S      == PoolRepaid(i, bucket, debt)
           repaid == [pools EXCEPT ![b] = S]
           R      == RemoveLiquidity(repaid[c], Env(c), dx)
           y      == CdpRepaid(i, bucket, debt)
           x      == Release(y, dx)
<1>1. i \in Ids /\ i \in Live /\ b \in Tokens /\ c \in Tokens
  BY PledgedToken, CdpKnown, CdpType DEF IInv, Live
<1>2. /\ CanLiquidate(i, bp, cp) /\ CanRepay(i, bucket, debt)
      /\ pools' = [repaid EXCEPT ![c] = R]
      /\ cdps' = [cdps EXCEPT ![i] = x] /\ cdp_vault' = cdp_vault
  <2> HIDE DEF R, x
  <2> QED BY DEF Liquidation, CanSell, PoolsAndCdps, R, x
<1>3. debt \in Int /\ bucket \in Int
  BY <1>1, <1>2, LiquidationTermsType DEF IInv, Frame
<1> HIDE DEF terms, debt, dx
<1>4. S \in Pool /\ y \in CollateralDebtPosition
  BY <1>1, <1>2, <1>3, RepaidSound DEF IInv, Sound
<1> HIDE DEF y, S
<1>5. /\ x.collateral_token = y.collateral_token /\ x.is_stable = y.is_stable
      /\ x.borrow_token = y.borrow_token /\ x.borrow_amount = y.borrow_amount
      /\ x.stable_rate = y.stable_rate
  BY <1>4 DEF Release, CollateralDebtPosition
<1> HIDE DEF x
<1>6. /\ DOMAIN repaid = Tokens
      /\ \A t \in Tokens : repaid[t] = (IF t = b THEN S ELSE pools[t]) /\ HasBook(repaid[t])
  <2>1. \A t \in Tokens : repaid[t] = IF t = b THEN S ELSE pools[t]
    BY DEF IInv, Books
  <2>2. \A t \in Tokens : repaid[t] \in Pool
    BY <1>4, <2>1 DEF IInv, Books
  <2> QED BY <2>1, <2>2, PoolHasBook DEF IInv, Books
<1> HIDE DEF repaid
<1>7. SameBook(R, repaid[c])
  BY <1>1, <1>6, DepositsKeepBook
<1> HIDE DEF R
<1>8. \A t \in Tokens : pools'[t].stable_loan_amount = repaid[t].stable_loan_amount
  <2>1. \A t \in Tokens : pools'[t] = IF t = c THEN R ELSE repaid[t]
    BY <1>2, <1>6
  <2> QED BY <1>7, <2>1 DEF SameBook
<1>9. \A t \in Tokens :
        pools'[t].stable_loan_amount
          = IF t = b THEN S.stable_loan_amount ELSE pools[t].stable_loan_amount
  BY <1>6, <1>8
<1> QED BY <1>1, <1>2, <1>3, <1>5, <1>9, RepaymentOrphansNone, Zenon DEF S, y

-----------------------------------------------------------------------------
(* A staking loan is repaid: what the bucket was short of stays in the book *)

\* What CDP i owes in all, its interest rounded up as a payment has it.
Owed(i) ==
  cdps[i].borrow_amount
  + StableInterestDue(Env(cdps[i].borrow_token), cdps[i].borrow_amount, cdps[i].stable_rate,
                      cdps[i].last_update_epoch)

LEMMA OwedBounds ==
  ASSUME IInv, Debtors, NEW i \in cdp_vault
  PROVE  /\ i \in Ids /\ i \in Live /\ cdps[i].is_stable /\ cdps[i].borrow_token = XRD
         /\ XRD \in Tokens /\ cdps[i] \in CollateralDebtPosition
         /\ cdps[i].borrow_amount \in Nat /\ cdps[i].stable_rate \in Nat
         /\ cdps[i].last_update_epoch \in Nat
         /\ Env(XRD) \in Environment /\ cdps[i].last_update_epoch <= Env(XRD).now
         /\ Owed(i) \in Nat /\ Debt(i) \in Int /\ Unit(XRD) \in Nat
         /\ Debt(i) <= Owed(i) /\ Owed(i) < Debt(i) + Unit(XRD)
<1>1. /\ i \in Ids /\ i \in Live /\ cdps[i].is_stable /\ cdps[i].borrow_token = XRD
      /\ XRD \in Tokens
  BY ManagerAssumption DEF IInv, Frame, Debtors, StakingVault, Live
<1> DEFINE cdp == cdps[i]
           e == Env(XRD)
<1>2. /\ cdp \in CollateralDebtPosition
      /\ cdp.borrow_amount \in Nat /\ cdp.stable_rate \in Nat
      /\ cdp.last_update_epoch \in Nat /\ cdp.last_update_epoch <= epoch
      /\ e.now = epoch /\ e.cfg = Config[XRD]
  BY <1>1, StableArguments
<1>3. e \in Environment
  BY <1>1, EnvType DEF IInv, Books
<1> HIDE DEF e
<1>4. /\ StableInterest(e, cdp.borrow_amount, cdp.stable_rate, cdp.last_update_epoch) \in Nat
      /\ StableInterestDue(e, cdp.borrow_amount, cdp.stable_rate, cdp.last_update_epoch) \in Nat
      /\ StableInterest(e, cdp.borrow_amount, cdp.stable_rate, cdp.last_update_epoch)
           <= StableInterestDue(e, cdp.borrow_amount, cdp.stable_rate, cdp.last_update_epoch)
      /\ StableInterestDue(e, cdp.borrow_amount, cdp.stable_rate, cdp.last_update_epoch)
           < StableInterest(e, cdp.borrow_amount, cdp.stable_rate, cdp.last_update_epoch)
             + e.cfg.unit
  <2>1. 0 \in Int
    OBVIOUS
  <2> HIDE DEF cdp
  <2> QED BY <1>2, <1>3, <2>1, StableRepaymentBounds
<1>5. /\ Debt(i) = cdp.borrow_amount
                   + StableInterest(e, cdp.borrow_amount, cdp.stable_rate, cdp.last_update_epoch)
      /\ Owed(i) = cdp.borrow_amount
                   + StableInterestDue(e, cdp.borrow_amount, cdp.stable_rate,
                                       cdp.last_update_epoch)
  BY <1>1, DebtNow DEF DebtOf, Owed, e
<1>6. Unit(XRD) = e.cfg.unit /\ e.cfg.unit \in Nat
  BY <1>2, <1>3 DEF Unit, Environment, PoolConfig
<1>7. /\ Owed(i) \in Nat /\ Debt(i) \in Int
      /\ Debt(i) <= Owed(i) /\ Owed(i) < Debt(i) + Unit(XRD)
  <2> HIDE DEF cdp
  <2> QED BY <1>2, <1>4, <1>5, <1>6
<1> QED BY <1>1, <1>2, <1>3, <1>6, <1>7 DEF e

LEMMA CdpBurned ==
  ASSUME IInv, IInv', Debtors, NEW i \in Live, cdps' = cdps, cdp_vault' = cdp_vault \ {i},
         cdps[i].is_stable, Debtors', NEW t \in Tokens
  PROVE  /\ Sum(StableIn(cdps', cdp_vault', t)) >= 0
         /\ Sum(StableIn(cdps', cdp_vault', t))
              >= Sum(StableIn(cdps, cdp_vault, t)) - PrincipalOf(cdps[i], t)
<1> DEFINE s == cdps
           r == cdps'
           V == cdp_vault
           W == cdp_vault'
<1>1. /\ i \in 1..Len(s) /\ s \in Seq(CollateralDebtPosition) /\ r \in Seq(CollateralDebtPosition)
      /\ Len(r) = Len(s)
      /\ Alive(s, V, i) /\ s[i] \in CollateralDebtPosition
  BY LiveKnown DEF IInv, Books, Ids
<1>2. \A j \in 1..Len(s) : j # i => r[j] = s[j] /\ (j \in W <=> j \in V)
  OBVIOUS
<1>3. s[i].borrow_amount >= 0
  BY <1>1 DEF Debtors, StablyOwing, Ids
<1>4. Sum(StableIn(cdps', cdp_vault', t)) >= 0
  BY StableClaimsNatNext
<1>5. Sum(StableIn(s, V, t)) \in Int
  BY StableClaimsNow
<1>6. r = s
  OBVIOUS
<1> HIDE DEF s, r, V, W
<1>7. Sum(StableIn(r, W, t))
        = Sum(StableIn(s, V, t)) - PrincipalIn(s[i], Alive(s, V, i), t)
          + PrincipalIn(r[i], Alive(r, W, i), t)
  <2>1. /\ i \in 1..Len(s) /\ Len(r) = Len(s)
        /\ s \in Seq(CollateralDebtPosition) /\ r \in Seq(CollateralDebtPosition)
    BY <1>1
  <2> QED BY <1>2, <2>1, StableInOneChanged
<1> DEFINE p == PrincipalOf(s[i], t)
<1>8. p \in Int /\ p >= 0
  BY <1>1, <1>3, CdpType DEF PrincipalOf
<1>9. PrincipalIn(s[i], Alive(s, V, i), t) = p
  BY <1>1 DEF PrincipalIn
<1>10. PrincipalIn(r[i], Alive(r, W, i), t) = p \/ PrincipalIn(r[i], Alive(r, W, i), t) = 0
  BY <1>6 DEF PrincipalIn
<1> HIDE DEF p
<1>11. Sum(StableIn(r, W, t)) >= Sum(StableIn(s, V, t)) - p
  BY <1>5, <1>7, <1>8, <1>9, <1>10
<1> QED BY <1>4, <1>11 DEF s, r, V, W, p

LEMMA StakingRepayOrphans ==
  ASSUME IInv, IInv', Debtors, NEW i \in cdp_vault, NEW bucket \in Int,
         StakingRepay(i, bucket), NEW t \in Tokens
  PROVE  /\ Debtors'
         /\ \/ NoneOrphaned(t)
            \/ t = XRD /\ bucket < Owed(i) /\ Orphan(t)' <= Orphan(t) + (Owed(i) - bucket)
<1> DEFINE cdp == cdps[i]
           loan == cdp.borrow_amount
           rate == cdp.stable_rate
           since == cdp.last_update_epoch
           e == Env(XRD)
           Q == PoolRepayStable(pools[XRD], e, bucket, loan, rate, since, bucket)
           borrow == RepayInBorrow(e, bucket, loan, rate, since, bucket)
           left == pools[XRD].stable_loan_amount - borrow
<1>1. /\ i \in Ids /\ i \in Live /\ cdp.is_stable /\ cdp.borrow_token = XRD /\ XRD \in Tokens
      /\ loan \in Nat /\ rate \in Nat /\ since \in Nat /\ e \in Environment /\ since <= e.now
      /\ Owed(i) \in Nat
  BY OwedBounds
<1>2. /\ pools' = [pools EXCEPT ![XRD] = Q]
      /\ cdp_vault' = cdp_vault \ {i} /\ cdps' = cdps
  BY Zenon DEF StakingRepay, Burned
<1>0. Debtors'
  <2>1. Q.stable_loan_amount = IF left > 0 THEN left ELSE 0
    BY <1>1, PoolHasBook, StableRepaymentBook DEF IInv, Books
  <2>2. left \in Int
    <3>1. borrow \in Int
      BY <1>1, StableRepaymentBounds
    <3> HIDE DEF borrow
    <3>2. pools[XRD].stable_loan_amount \in Int
      BY <1>1 DEF IInv, Books, Pool
    <3> QED BY <3>1, <3>2
  <2> HIDE DEF Q, left
  <2>3. Q.stable_loan_amount >= 0
    BY <2>1, <2>2
  <2>4. \A u \in Tokens : pools'[u].stable_loan_amount >= 0
    BY <1>1, <1>2, <2>3 DEF Debtors, IInv, Books
  <2> QED BY <1>2, <2>4 DEF Debtors, StakingVault, Ids
<1> SUFFICES \/ NoneOrphaned(t)
             \/ t = XRD /\ bucket < Owed(i) /\ Orphan(t)' <= Orphan(t) + (Owed(i) - bucket)
  BY <1>0
<1> DEFINE A == pools[t].stable_loan_amount
           B == pools'[t].stable_loan_amount
           S == Sum(StableIn(cdps, cdp_vault, t))
           T == Sum(StableIn(cdps', cdp_vault', t))
<1>3. Orphan(t) = A - S /\ S \in Int /\ A \in Int
  BY StableClaimsNow
<1>4. Orphan(t)' = B - T /\ T \in Int /\ B \in Int
  BY StableClaimsNext
<1>5. T >= 0 /\ T >= S - PrincipalOf(cdp, t)
  BY <1>0, <1>1, <1>2, CdpBurned
<1>6. CASE t # XRD
  <2>1. PrincipalOf(cdp, t) = 0
    BY <1>1, <1>6 DEF PrincipalOf
  <2>2. B = A
    BY <1>2, <1>6 DEF IInv, Books
  <2> HIDE DEF A, B, S, T
  <2>3. Orphan(t)' <= Orphan(t)
    BY <1>3, <1>4, <1>5, <2>1, <2>2
  <2> QED BY <2>3 DEF NoneOrphaned
<1>7. CASE t = XRD
  <2>1. PrincipalOf(cdp, t) = loan
    BY <1>1, <1>7 DEF PrincipalOf
  <2>2. HasBook(pools[XRD])
    BY <1>1, PoolHasBook DEF IInv, Books
  <2>3. Q.stable_loan_amount = IF left > 0 THEN left ELSE 0
    BY <2>2, StableRepaymentBook
  <2>4. B = Q.stable_loan_amount
    BY <1>1, <1>2, <1>7 DEF IInv, Books
  <2>5. left = A - borrow
    BY <1>7
  <2> HIDE DEF Q, left
  <2> DEFINE due == StableInterestDue(e, loan, rate, since)
  <2>6. borrow \in Int /\ due \in Nat
    BY <1>1, StableRepaymentBounds
  <2>7. borrow = loan \/ borrow = bucket - due
    BY DEF RepayInBorrow, AtMost
  <2>8. Owed(i) = loan + due
    BY <1>1 DEF Owed
  <2>9. borrow <= loan /\ borrow <= bucket - due
    <3>1. AtMost(bucket, bucket) = bucket
      BY DEF AtMost
    <3>2. borrow = AtMost(loan, bucket - due)
      BY <3>1 DEF RepayInBorrow
    <3> HIDE DEF borrow, due, loan
    <3> QED BY <1>1, <2>6, <3>2 DEF AtMost, loan
  <2> HIDE DEF A, B, S, T, borrow, due, loan
  <2>10. loan \in Int
    BY <1>1
  <2>11. CASE left > 0
    <3>1. Orphan(t)' <= Orphan(t) + (loan - borrow)
      BY <1>3, <1>4, <1>5, <2>1, <2>3, <2>4, <2>5, <2>6, <2>10, <2>11
    <3>2. CASE borrow = loan
      <4>1. Orphan(t)' <= Orphan(t)
        BY <1>3, <1>4, <2>10, <3>1, <3>2
      <4> QED BY <4>1 DEF NoneOrphaned
    <3>3. CASE borrow # loan
      <4>1. borrow = bucket - due /\ borrow < loan
        BY <2>6, <2>7, <2>9, <2>10, <3>3
      <4> QED BY <1>3, <1>4, <1>7, <2>6, <2>8, <2>10, <3>1, <4>1
    <3> QED BY <3>2, <3>3
  <2>12. CASE ~(left > 0)
    <3>1. Orphan(t)' <= 0
      BY <1>4, <1>5, <2>3, <2>4, <2>12
    <3> QED BY <3>1 DEF NoneOrphaned
  <2> QED BY <2>11, <2>12
<1> QED BY <1>6, <1>7

-----------------------------------------------------------------------------
(* The stable book *)

\* No step but the repayment of a staking loan leaves principal without a CDP.
LEMMA NextOrphans ==
  ASSUME IInv, IInv', Debtors, [Next]_vars
  PROVE  \/ LoansFollow
         \/ \E i \in cdp_vault, bucket \in Inputs["claim"] : StakingRepay(i, bucket)
<1>1. ASSUME NEW a \in Arguments, NEW n \in Inputs[a] PROVE n \in Nat
  BY ManagerAssumption
<1> DEFINE Kept == LoansFollow
<1> HIDE DEF Kept
<1>2. DepositStep => Kept
  BY <1>1, DepositsOrphanNone DEF DepositStep, Arguments, Kept
<1>3. LoanStep => Kept
  <2>1. ASSUME NEW m \in Markets, NEW dx \in Inputs["collateral"],
               NEW amount \in Inputs["variable"], BorrowVariable(m[1], m[2], dx, amount)
        PROVE  Kept
    <3>1. m[1] \in Tokens /\ m[2] \in Tokens /\ dx \in Nat /\ amount \in Nat
      BY <1>1, ManagerAssumption DEF Arguments
    <3> QED BY <2>1, <3>1, BorrowVariableOrphansNone DEF Kept
  <2>2. ASSUME NEW m \in Markets, NEW dx \in Inputs["collateral"],
               NEW amount \in Inputs["stable"], BorrowStable(m[1], m[2], dx, amount)
        PROVE  Kept
    <3>1. m[1] \in Tokens /\ m[2] \in Tokens /\ dx \in Nat /\ amount \in Nat
      BY <1>1, ManagerAssumption DEF Arguments
    <3> QED BY <2>2, <3>1, BorrowStableOrphansNone DEF Kept
  <2>3. ASSUME NEW i \in Pledged, NEW amount \in Inputs["extend"],
               ExtendVariable(i, amount) \/ ExtendStable(i, amount)
        PROVE  Kept
    <3>1. amount \in Nat
      BY <1>1 DEF Arguments
    <3> QED BY <2>3, <3>1, ExtendVariableOrphansNone, ExtendStableOrphansNone DEF Kept
  <2> QED BY <2>1, <2>2, <2>3 DEF LoanStep
<1>4. CollateralStep => Kept
  <2>1. ASSUME NEW i \in Pledged, NEW n \in Nat,
               WithdrawCollateral(i, n) \/ AddCollateralDx(i, n) \/ AddCollateral(i, n)
        PROVE  Kept
    BY <2>1, CollateralOrphansNone DEF Kept
  <2> QED BY <1>1, <2>1 DEF CollateralStep, Arguments
<1>5. RepayStep => Kept
  <2>1. ASSUME NEW i \in Live, NEW n \in Inputs["repay"], Repay(i, n)
        PROVE  Kept
    <3>1. n \in Nat
      BY <1>1 DEF Arguments
    <3>2. n \in Int
      BY <3>1
    <3> QED BY <2>1, <3>2, RepayOrphansNone DEF Kept
  <2>2. ASSUME NEW i \in Pledged, NEW n \in Inputs["repay"], NEW cover \in Inputs["cover"],
               NEW bp \in Quotes(cdps[i].borrow_token),
               NEW cp \in Quotes(cdps[i].collateral_token),
               Liquidation(i, n, cover, bp, cp)
        PROVE  Kept
    <3>1. cdps[i].borrow_token \in Tokens /\ cdps[i].collateral_token \in Tokens
      BY PledgedToken, CdpKnown, CdpType DEF IInv
    <3>2. bp \in Nat /\ cp \in Nat
      BY <3>1, QuotesType DEF IInv
    <3>3. n \in Nat /\ cover \in Nat
      BY <1>1 DEF Arguments
    <3> QED BY <2>2, <3>2, <3>3, LiquidationOrphansNone DEF Kept
  <2> QED BY <2>1, <2>2 DEF RepayStep
<1>6. StakingStep => \/ Kept
                     \/ \E i \in cdp_vault, bucket \in Inputs["claim"] : StakingRepay(i, bucket)
  <2>1. ASSUME NEW claim \in Inputs["claim"], NEW amount \in Inputs["principal"],
               StakingBorrow(amount, InterestRate(pools[XRD], Env(XRD), claim).stable, claim)
        PROVE  Kept
    <3>1. amount \in Nat
      BY <1>1 DEF Arguments
    <3>2. InterestRate(pools[XRD], Env(XRD), claim).stable \in Nat
      <4>1. claim \in Nat /\ XRD \in Tokens
        BY <1>1, ManagerAssumption DEF Arguments
      <4>2. claim \in Int
        BY <4>1
      <4> QED BY <4>1, <4>2, PoolSound, StableRateNat DEF IInv
    <3> QED BY <2>1, <3>1, <3>2, StakingBorrowOrphansNone DEF Kept
  <2> QED BY <2>1 DEF StakingStep
<1>7. PoolStep => Kept
  <2>1. ASSUME NEW t \in Tokens, NEW n \in Nat, BorrowFlashloan(t, n) \/ WithdrawInsurance(t, n)
        PROVE  Kept
    BY <2>1, DepositsOrphanNone DEF Kept
  <2>2. ASSUME NEW f \in flashloans, RepayFlashloan(f)
        PROVE  Kept
    BY <2>2, DepositsOrphanNone DEF Kept
  <2>3. ASSUME NEW n, SetCloseFactor(n)
        PROVE  Kept
    BY <2>3, WorldOrphansNone DEF SetCloseFactor, Kept
  <2> QED BY <1>1, <2>1, <2>2, <2>3 DEF PoolStep, Arguments
<1>8. WorldStep \/ UNCHANGED vars => Kept
  BY WorldOrphansNone DEF WorldStep, Tick, PriceMove, vars, Kept
<1> QED BY <1>2, <1>3, <1>4, <1>5, <1>6, <1>7, <1>8 DEF Next, Kept

LEMMA DebtorsKept ==
  ASSUME IInv, IInv', Debtors, [Next]_vars
  PROVE  Debtors'
<1>1. ASSUME NEW i \in cdp_vault, NEW bucket \in Inputs["claim"], StakingRepay(i, bucket)
      PROVE  Debtors'
  <2>1. bucket \in Nat /\ XRD \in Tokens
    BY ManagerAssumption DEF Arguments
  <2>2. bucket \in Int
    BY <2>1
  <2> QED BY <1>1, <2>1, <2>2, StakingRepayOrphans
<1>2. LoansFollow => Debtors'
  BY DEF LoansFollow
<1> QED BY <1>1, <1>2, NextOrphans, Zenon

LEMMA InitDebtors == Init => Debtors
<1> SUFFICES ASSUME Init PROVE Debtors
  OBVIOUS
<1>1. \A t \in Tokens : pools[t].stable_loan_amount = 0
  BY DEF Init, NewPool
<1>2. cdps = <<>> /\ cdp_vault = {}
  BY Zenon DEF Init
<1>3. Ids = {}
  BY <1>2 DEF Ids
<1> QED BY <1>1, <1>2, <1>3 DEF Debtors, StakingVault

\* Every stable loan is owed at a rate that is not negative.
LEMMA DebtorsHold == Spec => []Debtors
<1>1. IInv /\ IInv' /\ Debtors /\ [Next]_vars => Debtors'
  BY DebtorsKept
<1> QED BY <1>1, InitDebtors, InvariantHolds, PTL DEF Spec

\* Whoever settles a staking loan brings all that is owed.
SettledInFull ==
  [][\A i \in cdp_vault, bucket \in Inputs["claim"] :
       StakingRepay(i, bucket) => bucket >= Owed(i)]_vars

NoOrphans == \A t \in Tokens : Orphan(t) <= 0

LEMMA InitNoOrphans == Init => NoOrphans
<1> SUFFICES ASSUME Init, NEW t \in Tokens PROVE Orphan(t) <= 0
  BY DEF NoOrphans
<1>1. pools[t].stable_loan_amount = 0 /\ cdps = <<>>
  BY DEF Init, NewPool
<1>2. IInv /\ cdps \in Seq(CollateralDebtPosition)
  BY InitInv DEF IInv, Books
<1>3. Orphan(t) = pools[t].stable_loan_amount - Sum(StableIn(cdps, cdp_vault, t))
  BY <1>2, StableClaimsNow
<1>4. Sum(StableIn(cdps, cdp_vault, t)) \in Int /\ Sum(StableIn(cdps, cdp_vault, t)) >= 0
  <2>1. Len(cdps) = 0
    BY <1>1
  <2>2. \A i \in 1..Len(cdps) :
          PrincipalIn(cdps[i], Alive(cdps, cdp_vault, i), t) >= 0
    BY <2>1
  <2> QED BY <1>2, <2>2, StableInType, SumNat
<1> QED BY <1>1, <1>3, <1>4

\* The stable book of a pool never exceeds the principal that the stable CDPs
\* owe: borrowing, extending, adding collateral, partial and excessive payments
\* and liquidations keep the two together, whatever becomes of the mean rate, as
\* long as no staking loan, whose CDP is burned whatever was paid, is settled short.
THEOREM StableBookHolds == Spec /\ SettledInFull => []StableBook
<1> DEFINE Settling == \A i \in cdp_vault, bucket \in Inputs["claim"] :
                         StakingRepay(i, bucket) => bucket >= Owed(i)
<1>1. IInv /\ IInv' /\ Debtors /\ NoOrphans /\ [Next]_vars /\ [Settling]_vars
        => NoOrphans'
  <2> SUFFICES ASSUME IInv, IInv', Debtors, NoOrphans, [Next]_vars, [Settling]_vars,
                      NEW t \in Tokens
               PROVE  Orphan(t)' <= 0
    BY DEF NoOrphans
  <2>1. Orphan(t) \in Int /\ Orphan(t)' \in Int /\ Orphan(t) <= 0
    <3>1. /\ Orphan(t) = pools[t].stable_loan_amount - Sum(StableIn(cdps, cdp_vault, t))
          /\ Sum(StableIn(cdps, cdp_vault, t)) \in Int /\ pools[t].stable_loan_amount \in Int
      BY StableClaimsNow
    <3>2. /\ Orphan(t)' = pools'[t].stable_loan_amount - Sum(StableIn(cdps', cdp_vault', t))
          /\ Sum(StableIn(cdps', cdp_vault', t)) \in Int /\ pools'[t].stable_loan_amount \in Int
      BY StableClaimsNext
    <3>3. Orphan(t) <= 0
      BY DEF NoOrphans
    <3> QED BY <3>1, <3>2, <3>3
  <2>2. NoneOrphaned(t)
    <3>1. CASE \A u \in Tokens : NoneOrphaned(u)
      BY <3>1
    <3>2. ASSUME NEW i \in cdp_vault, NEW bucket \in Inputs["claim"], StakingRepay(i, bucket)
          PROVE  NoneOrphaned(t)
      <4>1. bucket \in Int
        <5>1. bucket \in Nat
          BY ManagerAssumption DEF Arguments
        <5> QED BY <5>1
      <4>2. vars' # vars
        <5>1. cdp_vault' # cdp_vault
          BY <3>2 DEF StakingRepay, Burned
        <5> QED BY <5>1 DEF vars
      <4>3. bucket >= Owed(i) /\ Owed(i) \in Nat
        BY <3>2, <4>2, OwedBounds
      <4> QED BY <3>2, <4>1, <4>3, StakingRepayOrphans
    <3> QED BY <3>1, <3>2, NextOrphans DEF LoansFollow
  <2> QED BY <2>1, <2>2 DEF NoneOrphaned
<1>2. IInv /\ Debtors /\ NoOrphans => StableBook
  <2> SUFFICES ASSUME IInv, Debtors, NoOrphans, NEW t \in Tokens
               PROVE  /\ 0 <= pools[t].stable_loan_amount
                      /\ pools[t].stable_loan_amount <= Sum(StableClaims(t))
    BY DEF StableBook
  <2>1. /\ Orphan(t) = pools[t].stable_loan_amount - Sum(StableClaims(t))
        /\ Sum(StableClaims(t)) \in Int /\ pools[t].stable_loan_amount \in Int
        /\ Orphan(t) <= 0
    BY StableClaimsNow DEF Orphan, NoOrphans
  <2>2. 0 <= pools[t].stable_loan_amount
    BY <2>1 DEF Debtors
  <2> QED BY <2>1, <2>2
<1> HIDE DEF Settling
<1>3. SettledInFull => [][Settling]_vars
  BY PTL DEF SettledInFull, Settling
<1> QED BY <1>1, <1>2, <1>3, InitNoOrphans, DebtorsHold, InvariantHolds, PTL DEF Spec
=============================================================================
