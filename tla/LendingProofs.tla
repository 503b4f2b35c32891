---------------------------- MODULE LendingProofs ----------------------------
(***************************************************************************)
(* Proofs about the collateral debt manager for any tokens, settings,      *)
(* prices, inputs and bounds: it stays well typed, the loan shares of a    *)
(* pool are those of its CDPs, and custody covers what the CDPs pledge.    *)
(*                                                                         *)
(* The invariant is inductive once it says that no pool and no CDP was     *)
(* last updated in the future: an index is compounded over the epochs      *)
(* since, and a negative number of them would leave it undefined.          *)
(***************************************************************************)
EXTENDS LendingProperties, LendResourcePoolProofs

NotInFuture == /\ \A t \in Tokens : pools[t].last_update <= epoch
               /\ \A i \in Ids : cdps[i].last_update_epoch <= epoch

\* The pools, the CDPs and the custody vaults, which the books relate.
Books ==
  /\ pools \in [Tokens -> Pool]
  /\ cdps \in Seq(CollateralDebtPosition)
  /\ collateral_vaults \in [Tokens -> Nat]
  /\ epoch \in Nat
  /\ NotInFuture
  /\ ShareBook
  /\ CollateralBook

\* The rest of the state.
Frame ==
  /\ cdp_vault \subseteq Ids
  /\ close_factor_percent \in Nat
  /\ flashloans \in SUBSET FlashLoanData
  /\ transient_id_counter \in Nat
  /\ price \in [Tokens -> Nat \ {0}]
  /\ ops \in Nat

IInv == Books /\ Frame

-----------------------------------------------------------------------------
(* What a sequence of CDPs claims *)

SharesIn(s, t) ==
  [i \in 1..Len(s) |-> IF s[i].borrow_token = t THEN s[i].normalized_borrow ELSE 0]

DxIn(s, t) ==
  [i \in 1..Len(s) |-> IF s[i].collateral_token = t THEN s[i].collateral_amount ELSE 0]

LEMMA IntSequence ==
  ASSUME NEW n \in Nat, NEW f \in [1..n -> Int]
  PROVE  f \in Seq(Int) /\ Len(f) = n
  OBVIOUS

LEMMA CdpType ==
  ASSUME NEW x \in CollateralDebtPosition
  PROVE  /\ x.borrow_token \in Tokens /\ x.collateral_token \in Tokens \cup {NoDx}
         /\ x.normalized_borrow \in Int /\ x.collateral_amount \in Int
         /\ x.total_borrow \in Int /\ x.total_repay \in Int
         /\ x.borrow_amount \in Int /\ x.stable_rate \in Int
         /\ x.last_update_epoch \in Nat /\ x.is_stable \in BOOLEAN
  BY DEF CollateralDebtPosition

LEMMA ClaimsType ==
  ASSUME NEW s \in Seq(CollateralDebtPosition), NEW t
  PROVE  /\ SharesIn(s, t) \in Seq(Int) /\ Len(SharesIn(s, t)) = Len(s)
         /\ DxIn(s, t) \in Seq(Int) /\ Len(DxIn(s, t)) = Len(s)
<1>1. Len(s) \in Nat
  OBVIOUS
<1>2. \A i \in 1..Len(s) : s[i].normalized_borrow \in Int /\ s[i].collateral_amount \in Int
  <2>1. \A i \in 1..Len(s) : s[i] \in CollateralDebtPosition
    OBVIOUS
  <2> QED BY <2>1, CdpType
<1>3. SharesIn(s, t) \in [1..Len(s) -> Int] /\ DxIn(s, t) \in [1..Len(s) -> Int]
  BY <1>2 DEF SharesIn, DxIn
<1> QED BY <1>1, <1>3, IntSequence

\* A new CDP adds its own shares and its own dx.
LEMMA ClaimsOfOneMore ==
  ASSUME NEW s \in Seq(CollateralDebtPosition), NEW x \in CollateralDebtPosition, NEW t
  PROVE  /\ Sum(SharesIn(Append(s, x), t))
              = Sum(SharesIn(s, t)) + (IF x.borrow_token = t THEN x.normalized_borrow ELSE 0)
         /\ Sum(DxIn(Append(s, x), t))
              = Sum(DxIn(s, t)) + (IF x.collateral_token = t THEN x.collateral_amount ELSE 0)
<1> DEFINE r == Append(s, x)
<1>1. /\ r \in Seq(CollateralDebtPosition) /\ Len(r) = Len(s) + 1 /\ Len(s) \in Nat
      /\ r[Len(s) + 1] = x /\ \A i \in 1..Len(s) : r[i] = s[i]
  OBVIOUS
<1> HIDE DEF r
<1>2. \A i \in 1..Len(s) : i \in 1..Len(r)
  BY <1>1
<1>3. Len(r) \in 1..Len(r)
  BY <1>1
<1>4. Sum(SharesIn(r, t)) = Sum(SharesIn(s, t)) + SharesIn(r, t)[Len(r)]
  <2>1. \A i \in 1..Len(s) : SharesIn(r, t)[i] = SharesIn(s, t)[i]
    BY <1>1, <1>2 DEF SharesIn
  <2>2. /\ SharesIn(s, t) \in Seq(Int) /\ SharesIn(r, t) \in Seq(Int)
        /\ Len(SharesIn(s, t)) = Len(s) /\ Len(SharesIn(r, t)) = Len(r)
    BY <1>1, ClaimsType
  <2> QED BY <1>1, <2>1, <2>2, SumOfOneMore
<1>5. Sum(DxIn(r, t)) = Sum(DxIn(s, t)) + DxIn(r, t)[Len(r)]
  <2>1. \A i \in 1..Len(s) : DxIn(r, t)[i] = DxIn(s, t)[i]
    BY <1>1, <1>2 DEF DxIn
  <2>2. /\ DxIn(s, t) \in Seq(Int) /\ DxIn(r, t) \in Seq(Int)
        /\ Len(DxIn(s, t)) = Len(s) /\ Len(DxIn(r, t)) = Len(r)
    BY <1>1, ClaimsType
  <2> QED BY <1>1, <2>1, <2>2, SumOfOneMore
<1>6. /\ SharesIn(r, t)[Len(r)] = IF x.borrow_token = t THEN x.normalized_borrow ELSE 0
      /\ DxIn(r, t)[Len(r)] = IF x.collateral_token = t THEN x.collateral_amount ELSE 0
  BY <1>1, <1>3 DEF SharesIn, DxIn
<1> QED BY <1>4, <1>5, <1>6 DEF r

\* r is s with CDP i changed, but for its tokens.
OneChanged(s, r, i) ==
  /\ s \in Seq(CollateralDebtPosition) /\ r \in Seq(CollateralDebtPosition)
  /\ Len(r) = Len(s) /\ i \in 1..Len(s)
  /\ \A j \in 1..Len(s) : j # i => r[j] = s[j]
  /\ r[i].borrow_token = s[i].borrow_token
  /\ r[i].collateral_token = s[i].collateral_token

\* That changes the sums by as much.
LEMMA ClaimsOfOneChanged ==
  ASSUME NEW s, NEW r, NEW i, NEW t, OneChanged(s, r, i)
  PROVE  /\ Sum(SharesIn(r, t))
              = Sum(SharesIn(s, t))
                + (IF r[i].borrow_token = t THEN r[i].normalized_borrow - s[i].normalized_borrow ELSE 0)
         /\ Sum(DxIn(r, t))
              = Sum(DxIn(s, t))
                + (IF r[i].collateral_token = t THEN r[i].collateral_amount - s[i].collateral_amount ELSE 0)
<1> USE DEF OneChanged
<1>1. Len(s) \in Nat
  OBVIOUS
<1>2. s[i] \in CollateralDebtPosition /\ r[i] \in CollateralDebtPosition
  OBVIOUS
<1>3. /\ s[i].normalized_borrow \in Int /\ r[i].normalized_borrow \in Int
      /\ s[i].collateral_amount \in Int /\ r[i].collateral_amount \in Int
  BY <1>2, CdpType
<1>4. /\ SharesIn(s, t)[i] = IF r[i].borrow_token = t THEN s[i].normalized_borrow ELSE 0
      /\ SharesIn(r, t)[i] = IF r[i].borrow_token = t THEN r[i].normalized_borrow ELSE 0
      /\ DxIn(s, t)[i] = IF r[i].collateral_token = t THEN s[i].collateral_amount ELSE 0
      /\ DxIn(r, t)[i] = IF r[i].collateral_token = t THEN r[i].collateral_amount ELSE 0
  BY <1>1 DEF SharesIn, DxIn
<1>5. /\ SharesIn(s, t) \in Seq(Int) /\ SharesIn(r, t) \in Seq(Int)
      /\ Len(SharesIn(s, t)) = Len(s) /\ Len(SharesIn(r, t)) = Len(s)
      /\ DxIn(s, t) \in Seq(Int) /\ DxIn(r, t) \in Seq(Int)
      /\ Len(DxIn(s, t)) = Len(s) /\ Len(DxIn(r, t)) = Len(s)
  BY <1>1, ClaimsType
<1>6. Sum(SharesIn(r, t)) = Sum(SharesIn(s, t)) - SharesIn(s, t)[i] + SharesIn(r, t)[i]
  <2>1. \A j \in 1..Len(s) : j # i => SharesIn(r, t)[j] = SharesIn(s, t)[j]
    BY <1>1 DEF SharesIn
  <2> QED BY <1>5, <2>1, SumOfOneChanged
<1>7. Sum(DxIn(r, t)) = Sum(DxIn(s, t)) - DxIn(s, t)[i] + DxIn(r, t)[i]
  <2>1. \A j \in 1..Len(s) : j # i => DxIn(r, t)[j] = DxIn(s, t)[j]
    BY <1>1 DEF DxIn
  <2> QED BY <1>5, <2>1, SumOfOneChanged
<1>8. Sum(SharesIn(s, t)) \in Int /\ Sum(DxIn(s, t)) \in Int
  BY <1>5, SumType
<1>9. Sum(SharesIn(r, t)) = Sum(SharesIn(s, t))
        + (IF r[i].borrow_token = t THEN r[i].normalized_borrow - s[i].normalized_borrow ELSE 0)
  BY <1>3, <1>4, <1>6, <1>8
<1>10. Sum(DxIn(r, t)) = Sum(DxIn(s, t))
        + (IF r[i].collateral_token = t THEN r[i].collateral_amount - s[i].collateral_amount ELSE 0)
  BY <1>3, <1>4, <1>7, <1>8
<1> QED BY <1>9, <1>10

-----------------------------------------------------------------------------
(* What the steps have in common *)

\* The pools are well formed after the step.
PoolsSound == /\ pools \in [Tokens -> Pool]
              /\ \A t \in Tokens : pools[t].last_update <= epoch

LEMMA EnvType ==
  ASSUME epoch \in Nat, NEW t \in Tokens
  PROVE  /\ Env(t) \in Environment /\ Env(t).now = epoch
         /\ Env(t).cfg = Config[t] /\ Config[t] \in PoolConfig
  BY ManagerAssumption DEF Env, Environment

\* One pool is replaced by a sound one.
LEMMA PoolReplaced ==
  ASSUME Books, epoch' = epoch, NEW b \in Tokens, NEW Q, Sound(Q, Env(b)),
         pools' = [pools EXCEPT ![b] = Q]
  PROVE  /\ PoolsSound'
         /\ pools'[b] = Q
         /\ \A t \in Tokens : t # b => pools'[t] = pools[t]
<1>1. Env(b).now = epoch
  BY EnvType DEF Books
<1>2. Q \in Pool /\ Q.last_update <= epoch
  BY <1>1 DEF Sound
<1> QED BY <1>2 DEF Books, NotInFuture, PoolsSound

LEMMA PoolSound ==
  ASSUME Books, NEW t \in Tokens
  PROVE  Sound(pools[t], Env(t)) /\ Env(t) \in Environment
  BY EnvType DEF Books, NotInFuture, Sound

LEMMA BookedType ==
  ASSUME Books, NEW t \in Tokens
  PROVE  /\ pools[t] \in Pool /\ pools[t].dx_supply \in Nat
         /\ pools[t].variable_loan_share_quantity \in Int
         /\ collateral_vaults[t] \in Nat /\ collateral_vaults[t] <= pools[t].dx_supply
         /\ Sum(SharesIn(cdps, t)) \in Int /\ Sum(DxIn(cdps, t)) \in Int
<1>1. pools[t] \in Pool
  BY DEF Books
<1>2. pools[t].dx_supply \in Nat /\ pools[t].variable_loan_share_quantity \in Int
  BY <1>1 DEF Pool
<1>3. collateral_vaults[t] \in Nat /\ collateral_vaults[t] <= pools[t].dx_supply
  BY DEF Books, CollateralBook
<1>4. Sum(SharesIn(cdps, t)) \in Int /\ Sum(DxIn(cdps, t)) \in Int
  BY ClaimsType, SumType DEF Books
<1> QED BY <1>1, <1>2, <1>3, <1>4

LEMMA BooksOfClaims ==
  /\ ShareBook <=> \A t \in Tokens :
       pools[t].variable_loan_share_quantity = Sum(SharesIn(cdps, t))
  /\ CollateralBook <=> \A t \in Tokens :
       /\ Sum(DxIn(cdps, t)) <= collateral_vaults[t]
       /\ collateral_vaults[t] <= pools[t].dx_supply
<1>1. \A t : ShareClaims(t) = SharesIn(cdps, t) /\ CollateralClaims(t) = DxIn(cdps, t)
  BY DEF ShareClaims, CollateralClaims, SharesIn, DxIn, Ids
<1> QED BY <1>1 DEF ShareBook, CollateralBook

LEMMA BooksOfClaimsNext ==
  /\ ShareBook' <=> \A t \in Tokens :
       pools'[t].variable_loan_share_quantity = Sum(SharesIn(cdps', t))
  /\ CollateralBook' <=> \A t \in Tokens :
       /\ Sum(DxIn(cdps', t)) <= collateral_vaults'[t]
       /\ collateral_vaults'[t] <= pools'[t].dx_supply
<1>1. \A t : ShareClaims(t)' = SharesIn(cdps', t) /\ CollateralClaims(t)' = DxIn(cdps', t)
  BY DEF ShareClaims, CollateralClaims, SharesIn, DxIn, Ids
<1> QED BY <1>1 DEF ShareBook, CollateralBook

\* Every vault is a number of dx that exist.
Custody == /\ collateral_vaults \in [Tokens -> Nat]
           /\ \A t \in Tokens : collateral_vaults[t] <= pools[t].dx_supply

\* A step that leaves the CDPs, the shares and the custody vaults alone.
LEMMA BooksKept ==
  ASSUME Books, PoolsSound', epoch' = epoch, cdps' = cdps,
         collateral_vaults' = collateral_vaults,
         \A t \in Tokens : /\ pools'[t].variable_loan_share_quantity
                                = pools[t].variable_loan_share_quantity
                           /\ collateral_vaults[t] <= pools'[t].dx_supply
  PROVE  Books'
<1>1. /\ \A t \in Tokens : pools'[t].variable_loan_share_quantity = Sum(SharesIn(cdps', t))
      /\ \A t \in Tokens : /\ Sum(DxIn(cdps', t)) <= collateral_vaults'[t]
                           /\ collateral_vaults'[t] <= pools'[t].dx_supply
  BY BooksOfClaims DEF Books
<1>2. ShareBook' /\ CollateralBook'
  BY <1>1, BooksOfClaimsNext
<1>3. NotInFuture'
  BY DEF Books, NotInFuture, PoolsSound, Ids
<1> QED BY <1>2, <1>3 DEF Books, PoolsSound

\* A step that makes a CDP x.
LEMMA BooksOfOneMore ==
  ASSUME Books, PoolsSound', Custody', epoch' = epoch,
         NEW x \in CollateralDebtPosition, x.last_update_epoch <= epoch,
         cdps' = Append(cdps, x),
         \A t \in Tokens : pools'[t].variable_loan_share_quantity
           = pools[t].variable_loan_share_quantity
             + (IF x.borrow_token = t THEN x.normalized_borrow ELSE 0),
         \A t \in Tokens : collateral_vaults'[t]
           >= collateral_vaults[t] + (IF x.collateral_token = t THEN x.collateral_amount ELSE 0)
  PROVE  Books'
<1>1. /\ cdps \in Seq(CollateralDebtPosition)
      /\ cdps' \in Seq(CollateralDebtPosition)
      /\ Len(cdps') = Len(cdps) + 1 /\ Len(cdps) \in Nat
      /\ cdps'[Len(cdps) + 1] = x
      /\ \A i \in 1..Len(cdps) : cdps'[i] = cdps[i]
  BY DEF Books
<1>2. ASSUME NEW t \in Tokens
      PROVE  /\ pools'[t].variable_loan_share_quantity = Sum(SharesIn(cdps', t))
             /\ Sum(DxIn(cdps', t)) <= collateral_vaults'[t]
  <2>1. /\ pools[t].variable_loan_share_quantity = Sum(SharesIn(cdps, t))
        /\ Sum(DxIn(cdps, t)) <= collateral_vaults[t]
    BY BooksOfClaims DEF Books
  <2>2. /\ Sum(SharesIn(cdps', t)) = Sum(SharesIn(cdps, t))
              + (IF x.borrow_token = t THEN x.normalized_borrow ELSE 0)
        /\ Sum(DxIn(cdps', t)) = Sum(DxIn(cdps, t))
              + (IF x.collateral_token = t THEN x.collateral_amount ELSE 0)
    BY <1>1, ClaimsOfOneMore
  <2>3. /\ Sum(DxIn(cdps, t)) \in Int /\ collateral_vaults[t] \in Int
        /\ collateral_vaults'[t] \in Int /\ x.collateral_amount \in Int
    BY BookedType, CdpType DEF Custody
  <2> QED BY <2>1, <2>2, <2>3
<1>3. ShareBook' /\ CollateralBook'
  BY <1>2, BooksOfClaimsNext DEF Custody
<1>4. NotInFuture'
  <2>1. ASSUME NEW i \in 1..Len(cdps') PROVE cdps'[i].last_update_epoch <= epoch'
    <3>1. CASE i \in 1..Len(cdps)
      BY <1>1, <3>1 DEF Books, NotInFuture, Ids
    <3>2. CASE i = Len(cdps) + 1
      BY <1>1, <3>2
    <3> QED BY <1>1, <3>1, <3>2
  <2> QED BY <2>1 DEF NotInFuture, PoolsSound, Ids
<1> QED BY <1>1, <1>3, <1>4 DEF Books, PoolsSound, Custody

LEMMA ClaimsOfStep ==
  ASSUME NEW i, NEW t, OneChanged(cdps, cdps', i)
  PROVE  /\ Sum(SharesIn(cdps', t)) = Sum(SharesIn(cdps, t))
               + (IF cdps'[i].borrow_token = t
                  THEN cdps'[i].normalized_borrow - cdps[i].normalized_borrow ELSE 0)
         /\ Sum(DxIn(cdps', t)) = Sum(DxIn(cdps, t))
               + (IF cdps'[i].collateral_token = t
                  THEN cdps'[i].collateral_amount - cdps[i].collateral_amount ELSE 0)
  BY ClaimsOfOneChanged

\* A step that changes CDP i to x.
LEMMA BooksOfOneChanged ==
  ASSUME Books, PoolsSound', Custody', epoch' = epoch,
         NEW i \in Ids, NEW x \in CollateralDebtPosition, x.last_update_epoch <= epoch,
         x.borrow_token = cdps[i].borrow_token, x.collateral_token = cdps[i].collateral_token,
         cdps' = [cdps EXCEPT ![i] = x],
         \A t \in Tokens : pools'[t].variable_loan_share_quantity
           = pools[t].variable_loan_share_quantity
             + (IF x.borrow_token = t THEN x.normalized_borrow - cdps[i].normalized_borrow ELSE 0),
         \A t \in Tokens : collateral_vaults'[t]
           >= collateral_vaults[t]
              + (IF x.collateral_token = t THEN x.collateral_amount - cdps[i].collateral_amount ELSE 0)
  PROVE  Books'
<1>1. /\ cdps \in Seq(CollateralDebtPosition)
      /\ cdps' \in Seq(CollateralDebtPosition)
      /\ Len(cdps') = Len(cdps) /\ i \in 1..Len(cdps)
      /\ cdps'[i] = x
      /\ \A j \in 1..Len(cdps) : j # i => cdps'[j] = cdps[j]
  BY DEF Books, Ids
<1>2. ASSUME NEW t \in Tokens
      PROVE  /\ pools'[t].variable_loan_share_quantity = Sum(SharesIn(cdps', t))
             /\ Sum(DxIn(cdps', t)) <= collateral_vaults'[t]
  <2>1. /\ pools[t].variable_loan_share_quantity = Sum(SharesIn(cdps, t))
        /\ Sum(DxIn(cdps, t)) <= collateral_vaults[t]
    BY BooksOfClaims DEF Books
  <2>2. /\ Sum(SharesIn(cdps', t)) = Sum(SharesIn(cdps, t))
              + (IF x.borrow_token = t THEN x.normalized_borrow - cdps[i].normalized_borrow ELSE 0)
        /\ Sum(DxIn(cdps', t)) = Sum(DxIn(cdps, t))
              + (IF x.collateral_token = t THEN x.collateral_amount - cdps[i].collateral_amount ELSE 0)
    <3>1. OneChanged(cdps, cdps', i)
      BY <1>1 DEF OneChanged
    <3>2. /\ Sum(SharesIn(cdps', t)) = Sum(SharesIn(cdps, t))
               + (IF cdps'[i].borrow_token = t
                  THEN cdps'[i].normalized_borrow - cdps[i].normalized_borrow ELSE 0)
          /\ Sum(DxIn(cdps', t)) = Sum(DxIn(cdps, t))
               + (IF cdps'[i].collateral_token = t
                  THEN cdps'[i].collateral_amount - cdps[i].collateral_amount ELSE 0)
      BY <3>1, ClaimsOfStep
    <3> QED BY <1>1, <3>2, Zenon
  <2>3. cdps[i] \in CollateralDebtPosition
    BY <1>1
  <2>4. /\ Sum(DxIn(cdps, t)) \in Int /\ collateral_vaults[t] \in Int
        /\ collateral_vaults'[t] \in Int
        /\ x.collateral_amount - cdps[i].collateral_amount \in Int
    BY <2>3, BookedType, CdpType DEF Custody
  <2> QED BY <2>1, <2>2, <2>4
<1>3. ShareBook' /\ CollateralBook'
  BY <1>2, BooksOfClaimsNext DEF Custody
<1>4. NotInFuture'
  <2>1. ASSUME NEW j \in 1..Len(cdps') PROVE cdps'[j].last_update_epoch <= epoch'
    <3>1. CASE j # i
      BY <1>1, <3>1 DEF Books, NotInFuture, Ids
    <3>2. CASE j = i
      BY <1>1, <3>2
    <3> QED BY <3>1, <3>2
  <2> QED BY <2>1 DEF NotInFuture, PoolsSound, Ids
<1> QED BY <1>1, <1>3, <1>4 DEF Books, PoolsSound, Custody

LEMMA FrameKept ==
  ASSUME Books, Frame, Books', ops' \in Nat, Len(cdps') >= Len(cdps),
         UNCHANGED <<cdp_vault, close_factor_percent, flashloans, transient_id_counter, price>>
  PROVE  Frame'
<1>1. Ids \subseteq Ids'
  BY DEF Books, Ids
<1> QED BY <1>1 DEF Frame

LEMMA CallCounted ==
  ASSUME Frame, Call
  PROVE  ops' \in Nat
  BY DEF Frame, Call

-----------------------------------------------------------------------------
(* Steps that change one pool and no CDP *)

LEMMA OnePoolStep ==
  ASSUME Books, epoch' = epoch, cdps' = cdps, collateral_vaults' = collateral_vaults,
         NEW b \in Tokens, NEW Q, Sound(Q, Env(b)), pools' = [pools EXCEPT ![b] = Q],
         Q.variable_loan_share_quantity = pools[b].variable_loan_share_quantity,
         Q.dx_supply >= collateral_vaults[b]
  PROVE  Books'
<1>1. /\ PoolsSound' /\ pools'[b] = Q
      /\ \A t \in Tokens : t # b => pools'[t] = pools[t]
  BY PoolReplaced
<1>2. \A t \in Tokens : /\ pools'[t].variable_loan_share_quantity
                             = pools[t].variable_loan_share_quantity
                        /\ collateral_vaults[t] <= pools'[t].dx_supply
  <2> TAKE t \in Tokens
  <2>1. collateral_vaults[t] <= pools[t].dx_supply
    BY BookedType
  <2>2. CASE t = b
    BY <1>1, <2>2, BookedType
  <2>3. CASE t # b
    BY <1>1, <2>1, <2>3
  <2> QED BY <2>2, <2>3
<1> QED BY <1>1, <1>2, BooksKept

LEMMA SupplyStep ==
  ASSUME IInv, NEW t \in Tokens, NEW amount \in Nat, Supply(t, amount)
  PROVE  IInv'
<1> DEFINE Q == AddLiquidity(pools[t], Env(t), amount)
<1>1. /\ Sound(pools[t], Env(t)) /\ Env(t) \in Environment
      /\ CanAddLiquidity(pools[t], Env(t), amount)
  BY PoolSound DEF IInv, Supply
<1>2. /\ MintedDx(pools[t], Env(t), amount) \in Nat
      /\ Sound(Q, Env(t))
      /\ Q.dx_supply = pools[t].dx_supply + MintedDx(pools[t], Env(t), amount)
      /\ Q.variable_loan_share_quantity = pools[t].variable_loan_share_quantity
  BY <1>1, AddLiquiditySound
<1>3. /\ pools' = [pools EXCEPT ![t] = Q]
      /\ UNCHANGED <<cdps, cdp_vault, collateral_vaults, close_factor_percent, flashloans,
                     transient_id_counter, epoch, price>>
  BY DEF Supply, OnlyPools
<1> HIDE DEF Q
<1>4. Q.dx_supply >= collateral_vaults[t]
  BY <1>2, BookedType DEF IInv
<1>5. Books'
  BY <1>2, <1>3, <1>4, OnePoolStep DEF IInv
<1>6. ops' \in Nat
  BY CallCounted DEF IInv, Supply
<1>7. Frame'
  BY <1>3, <1>5, <1>6, FrameKept DEF IInv, Books
<1> QED BY <1>5, <1>7 DEF IInv

LEMMA WithdrawStep ==
  ASSUME IInv, NEW t \in Tokens, NEW dx \in Nat, Withdraw(t, dx)
  PROVE  IInv'
<1> DEFINE Q == RemoveLiquidity(pools[t], Env(t), dx)
<1>1. /\ Sound(pools[t], Env(t)) /\ Env(t) \in Environment
      /\ CanRemoveLiquidity(pools[t], Env(t), dx)
  BY PoolSound DEF IInv, Withdraw
<1>2. /\ pools[t].dx_supply \in Nat /\ collateral_vaults[t] \in Nat
      /\ dx <= pools[t].dx_supply - collateral_vaults[t]
  BY BookedType DEF IInv, Withdraw, FreeDx
<1>3. /\ Sound(Q, Env(t))
      /\ Q.dx_supply = pools[t].dx_supply - dx
      /\ Q.variable_loan_share_quantity = pools[t].variable_loan_share_quantity
  <2>1. dx <= pools[t].dx_supply
    BY <1>2
  <2> QED BY <1>1, <2>1, RemoveLiquiditySound
<1>4. /\ pools' = [pools EXCEPT ![t] = Q]
      /\ UNCHANGED <<cdps, cdp_vault, collateral_vaults, close_factor_percent, flashloans,
                     transient_id_counter, epoch, price>>
  BY DEF Withdraw, OnlyPools
<1> HIDE DEF Q
<1>5. Q.dx_supply >= collateral_vaults[t]
  BY <1>2, <1>3
<1>6. Books'
  BY <1>3, <1>4, <1>5, OnePoolStep DEF IInv
<1>7. ops' \in Nat
  BY CallCounted DEF IInv, Withdraw
<1>8. Frame'
  BY <1>4, <1>6, <1>7, FrameKept DEF IInv, Books
<1> QED BY <1>6, <1>8 DEF IInv

LEMMA BorrowFlashloanStep ==
  ASSUME IInv, NEW t \in Tokens, NEW amount \in Nat, BorrowFlashloan(t, amount)
  PROVE  IInv'
<1> DEFINE Q    == PoolBorrowFlashloan(pools[t], Env(t), amount)
           lent == FloorTo(amount, Unit(t))
           fee  == DMul(lent, Config[t].flashloan_fee_ratio)
           loan == [id |-> transient_id_counter + 1, res_addr |-> t,
                    amount |-> lent, fee |-> fee]
<1>1. /\ Sound(pools[t], Env(t)) /\ Env(t) \in Environment
      /\ CanBorrowFlashloan(pools[t], amount)
  BY PoolSound DEF IInv, BorrowFlashloan
<1>2. Env(t).cfg.unit = Unit(t) /\ Config[t].flashloan_fee_ratio \in Nat
  BY EnvType DEF IInv, Books, Unit, PoolConfig
<1>3. /\ FloorTo(amount, Env(t).cfg.unit) \in Nat
      /\ Sound(Q, Env(t))
      /\ Q.dx_supply = pools[t].dx_supply
      /\ Q.variable_loan_share_quantity = pools[t].variable_loan_share_quantity
  BY <1>1, BorrowFlashloanSound
<1>4. /\ pools' = [pools EXCEPT ![t] = Q]
      /\ transient_id_counter' = transient_id_counter + 1
      /\ flashloans' = flashloans \cup {loan}
      /\ UNCHANGED <<cdps, cdp_vault, collateral_vaults, close_factor_percent, epoch, price>>
  BY DEF BorrowFlashloan
<1>5. lent \in Nat
  BY <1>2, <1>3
<1> HIDE DEF Q, lent
<1>6. fee \in Nat
  BY <1>2, <1>5, DMulNat
<1> HIDE DEF fee
<1>7. Q.dx_supply >= collateral_vaults[t]
  BY <1>3, BookedType DEF IInv
<1>8. Books'
  BY <1>3, <1>4, <1>7, OnePoolStep DEF IInv
<1>9. transient_id_counter' \in Nat /\ loan \in FlashLoanData
  BY <1>4, <1>5, <1>6 DEF IInv, Frame, FlashLoanData
<1>10. ops' \in Nat
  BY CallCounted DEF IInv, BorrowFlashloan
<1>11. Frame'
  BY <1>4, <1>9, <1>10 DEF IInv, Frame, Ids
<1> QED BY <1>8, <1>11 DEF IInv

LEMMA RepayFlashloanStep ==
  ASSUME IInv, NEW f \in flashloans, RepayFlashloan(f)
  PROVE  IInv'
<1> DEFINE t == f.res_addr
           Q == PoolRepayFlashloan(pools[t], Env(t), f.amount, f.fee)
<1>1. t \in Tokens /\ f.amount \in Nat /\ f.fee \in Nat
  BY DEF IInv, Frame, FlashLoanData
<1>2. /\ CanRepayFlashloan(pools[t], Env(t), f.fee)
      /\ pools' = [pools EXCEPT ![t] = Q]
      /\ flashloans' = flashloans \ {f}
      /\ UNCHANGED <<cdps, cdp_vault, collateral_vaults, close_factor_percent,
                     transient_id_counter, epoch, price>>
  BY DEF RepayFlashloan
<1> HIDE DEF t
<1>3. Sound(pools[t], Env(t)) /\ Env(t) \in Environment
  BY <1>1, PoolSound DEF IInv
<1>4. /\ Sound(Q, Env(t))
      /\ Q.dx_supply = pools[t].dx_supply
      /\ Q.variable_loan_share_quantity = pools[t].variable_loan_share_quantity
  BY <1>1, <1>2, <1>3, RepayFlashloanSound
<1> HIDE DEF Q
<1>5. Q.dx_supply >= collateral_vaults[t]
  BY <1>1, <1>4, BookedType DEF IInv
<1>6. Books'
  BY <1>1, <1>2, <1>4, <1>5, OnePoolStep DEF IInv
<1>7. ops' \in Nat
  BY CallCounted DEF IInv, RepayFlashloan
<1>8. Frame'
  BY <1>2, <1>7 DEF IInv, Frame, Ids
<1> QED BY <1>6, <1>8 DEF IInv

LEMMA WithdrawInsuranceStep ==
  ASSUME IInv, NEW t \in Tokens, NEW amount \in Nat, WithdrawInsurance(t, amount)
  PROVE  IInv'
<1> DEFINE Q == PoolWithdrawInsurance(pools[t], Env(t), amount)
<1>1. /\ Sound(pools[t], Env(t)) /\ Env(t) \in Environment
      /\ CanWithdrawInsurance(pools[t], Env(t), amount)
  BY PoolSound DEF IInv, WithdrawInsurance
<1>2. /\ Sound(Q, Env(t))
      /\ Q.dx_supply = pools[t].dx_supply
      /\ Q.variable_loan_share_quantity = pools[t].variable_loan_share_quantity
  BY <1>1, WithdrawInsuranceSound
<1>3. /\ pools' = [pools EXCEPT ![t] = Q]
      /\ UNCHANGED <<cdps, cdp_vault, collateral_vaults, close_factor_percent, flashloans,
                     transient_id_counter, epoch, price>>
  BY DEF WithdrawInsurance, OnlyPools
<1> HIDE DEF Q
<1>4. Q.dx_supply >= collateral_vaults[t]
  BY <1>2, BookedType DEF IInv
<1>5. Books'
  BY <1>2, <1>3, <1>4, OnePoolStep DEF IInv
<1>6. ops' \in Nat
  BY CallCounted DEF IInv, WithdrawInsurance
<1>7. Frame'
  BY <1>3, <1>5, <1>6, FrameKept DEF IInv, Books
<1> QED BY <1>5, <1>7 DEF IInv

-----------------------------------------------------------------------------
(* Steps that make a CDP *)

\* A loan from pool b, secured by dx of c that its owner holds.
LEMMA NewLoanStep ==
  ASSUME Books, epoch' = epoch,
         NEW b \in Tokens, NEW Q, Sound(Q, Env(b)), pools' = [pools EXCEPT ![b] = Q],
         NEW x \in CollateralDebtPosition, x.last_update_epoch <= epoch, x.borrow_token = b,
         Q.dx_supply = pools[b].dx_supply,
         Q.variable_loan_share_quantity
           = pools[b].variable_loan_share_quantity + x.normalized_borrow,
         cdps' = Append(cdps, x),
         NEW c \in Tokens, NEW dx \in Nat, dx <= FreeDx(c),
         x.collateral_token = c, x.collateral_amount = dx,
         collateral_vaults' = [collateral_vaults EXCEPT ![c] = @ + dx]
  PROVE  Books'
<1>1. /\ PoolsSound' /\ pools'[b] = Q
      /\ \A t \in Tokens : t # b => pools'[t] = pools[t]
  BY PoolReplaced
<1>2. collateral_vaults[c] + dx \in Nat /\ collateral_vaults[c] + dx <= pools[c].dx_supply
  BY BookedType DEF FreeDx
<1>3. \A t \in Tokens : pools'[t].dx_supply = pools[t].dx_supply
  BY <1>1
<1>4. collateral_vaults \in [Tokens -> Nat]
  BY DEF Books
<1>5. /\ collateral_vaults' \in [Tokens -> Nat]
      /\ collateral_vaults'[c] = collateral_vaults[c] + dx
      /\ \A t \in Tokens : t # c => collateral_vaults'[t] = collateral_vaults[t]
  BY <1>2, <1>4
<1>6. Custody'
  <2>1. ASSUME NEW t \in Tokens PROVE collateral_vaults'[t] <= pools'[t].dx_supply
    <3>1. CASE t = c
      BY <1>2, <1>3, <1>5, <3>1
    <3>2. CASE t # c
      BY <1>3, <1>5, <3>2, BookedType
    <3> QED BY <3>1, <3>2
  <2> QED BY <1>5, <2>1 DEF Custody
<1>7. ASSUME NEW t \in Tokens
      PROVE  pools'[t].variable_loan_share_quantity
               = pools[t].variable_loan_share_quantity
                 + (IF x.borrow_token = t THEN x.normalized_borrow ELSE 0)
  <2>1. CASE t = b
    BY <1>1, <2>1
  <2>2. CASE t # b
    BY <1>1, <2>2, BookedType
  <2> QED BY <2>1, <2>2
<1>8. ASSUME NEW t \in Tokens
      PROVE  collateral_vaults'[t]
               >= collateral_vaults[t]
                  + (IF x.collateral_token = t THEN x.collateral_amount ELSE 0)
  <2>1. collateral_vaults[t] \in Int
    BY <1>4
  <2>2. CASE t = c
    BY <1>2, <1>5, <2>1, <2>2
  <2>3. CASE t # c
    BY <1>5, <2>1, <2>3
  <2> QED BY <2>2, <2>3
<1> QED BY <1>1, <1>6, <1>7, <1>8, BooksOfOneMore

LEMMA BorrowVariableStep ==
  ASSUME IInv, NEW c \in Tokens, NEW b \in Tokens, NEW dx \in Nat, NEW amount \in Nat,
         BorrowVariable(c, b, dx, amount)
  PROVE  IInv'
<1> DEFINE shares == SharesFor(pools[b], Env(b), amount)
           Q == PoolBorrowVariable(pools[b], Env(b), amount)
           x == NewCdp(c, b, amount, dx, shares, 0, FALSE)
<1>1. /\ Sound(pools[b], Env(b)) /\ Env(b) \in Environment
      /\ CanBorrowVariable(pools[b], Env(b), amount)
  BY PoolSound DEF IInv, BorrowVariable
<1>2. /\ shares \in Int
      /\ Sound(Q, Env(b))
      /\ Q.dx_supply = pools[b].dx_supply
      /\ Q.variable_loan_share_quantity = pools[b].variable_loan_share_quantity + shares
  BY <1>1, BorrowVariableSound
<1>3. /\ pools' = [pools EXCEPT ![b] = Q]
      /\ collateral_vaults' = [collateral_vaults EXCEPT ![c] = @ + dx]
      /\ cdps' = Append(cdps, x)
      /\ dx <= FreeDx(c)
      /\ UNCHANGED <<cdp_vault, close_factor_percent, flashloans, transient_id_counter,
                     epoch, price>>
  BY Zenon DEF BorrowVariable, PoolsAndCdps
<1> HIDE DEF shares, Q
<1>4. /\ x \in CollateralDebtPosition /\ x.last_update_epoch <= epoch
      /\ x.borrow_token = b /\ x.normalized_borrow = shares
      /\ x.collateral_token = c /\ x.collateral_amount = dx
  BY <1>2 DEF NewCdp, CollateralDebtPosition, IInv, Books
<1> HIDE DEF x
<1>5. Books'
  BY <1>2, <1>3, <1>4, NewLoanStep DEF IInv
<1>6. ops' \in Nat /\ Len(cdps') >= Len(cdps)
  BY <1>3, CallCounted DEF IInv, BorrowVariable, Books
<1>7. Frame'
  BY <1>3, <1>5, <1>6, FrameKept DEF IInv
<1> QED BY <1>5, <1>7 DEF IInv

LEMMA BorrowStableStep ==
  ASSUME IInv, NEW c \in Tokens, NEW b \in Tokens, NEW dx \in Nat, NEW amount \in Nat,
         BorrowStable(c, b, dx, amount)
  PROVE  IInv'
<1> DEFINE rate == InterestRate(pools[b], Env(b), amount).stable
           Q == PoolBorrowStable(pools[b], Env(b), amount, rate)
           x == NewCdp(c, b, amount, dx, 0, rate, TRUE)
<1>1. /\ Sound(pools[b], Env(b)) /\ Env(b) \in Environment
      /\ CanBorrowStable(pools[b], amount)
  BY PoolSound DEF IInv, BorrowStable
<1>2. rate \in Int
  BY <1>1, InterestRateType DEF Rates
<1>3. /\ pools' = [pools EXCEPT ![b] = Q]
      /\ collateral_vaults' = [collateral_vaults EXCEPT ![c] = @ + dx]
      /\ cdps' = Append(cdps, x)
      /\ dx <= FreeDx(c)
      /\ UNCHANGED <<cdp_vault, close_factor_percent, flashloans, transient_id_counter,
                     epoch, price>>
  BY Zenon DEF BorrowStable, PoolsAndCdps
<1> HIDE DEF rate
<1>4. /\ Sound(Q, Env(b))
      /\ Q.dx_supply = pools[b].dx_supply
      /\ Q.variable_loan_share_quantity = pools[b].variable_loan_share_quantity
  BY <1>1, <1>2, BorrowStableSound
<1> HIDE DEF Q
<1>5. /\ x \in CollateralDebtPosition /\ x.last_update_epoch <= epoch
      /\ x.borrow_token = b /\ x.normalized_borrow = 0
      /\ x.collateral_token = c /\ x.collateral_amount = dx
  BY <1>2 DEF NewCdp, CollateralDebtPosition, IInv, Books
<1> HIDE DEF x
<1>6. Q.variable_loan_share_quantity
        = pools[b].variable_loan_share_quantity + x.normalized_borrow
  BY <1>4, <1>5, BookedType DEF IInv
<1>7. Books'
  BY <1>3, <1>4, <1>5, <1>6, NewLoanStep DEF IInv
<1>8. ops' \in Nat /\ Len(cdps') >= Len(cdps)
  BY <1>3, CallCounted DEF IInv, BorrowStable, Books
<1>9. Frame'
  BY <1>3, <1>7, <1>8, FrameKept DEF IInv
<1> QED BY <1>7, <1>9 DEF IInv

LEMMA StakingBorrowStep ==
  ASSUME IInv, NEW amount \in Nat, NEW rate \in Int, NEW claim \in Nat,
         StakingBorrow(amount, rate, claim)
  PROVE  IInv'
<1> DEFINE Q == PoolBorrowStable(pools[XRD], Env(XRD), amount, rate)
           x == NewCdp(NoDx, XRD, amount, claim, 0, rate, TRUE)
<1> XRD \in Tokens /\ NoDx \notin Tokens
  BY ManagerAssumption
<1>1. /\ Sound(pools[XRD], Env(XRD)) /\ Env(XRD) \in Environment
      /\ CanBorrowStable(pools[XRD], amount)
  BY PoolSound DEF IInv, StakingBorrow
<1>2. /\ Sound(Q, Env(XRD))
      /\ Q.dx_supply = pools[XRD].dx_supply
      /\ Q.variable_loan_share_quantity = pools[XRD].variable_loan_share_quantity
  BY <1>1, BorrowStableSound
<1>3. /\ pools' = [pools EXCEPT ![XRD] = Q]
      /\ cdps' = Append(cdps, x)
      /\ cdp_vault' = cdp_vault \cup {Len(cdps) + 1}
      /\ UNCHANGED <<collateral_vaults, close_factor_percent, flashloans,
                     transient_id_counter, epoch, price>>
  BY Zenon DEF StakingBorrow
<1> HIDE DEF Q
<1>4. /\ x \in CollateralDebtPosition /\ x.last_update_epoch <= epoch
      /\ x.borrow_token = XRD /\ x.normalized_borrow = 0 /\ x.collateral_token = NoDx
  BY DEF NewCdp, CollateralDebtPosition, IInv, Books
<1> HIDE DEF x
<1>5. /\ PoolsSound' /\ pools'[XRD] = Q
      /\ \A t \in Tokens : t # XRD => pools'[t] = pools[t]
  BY <1>2, <1>3, PoolReplaced DEF IInv
<1>6. \A t \in Tokens : pools'[t].dx_supply = pools[t].dx_supply
  BY <1>2, <1>5
<1>7. Custody'
  BY <1>3, <1>6, BookedType DEF IInv, Books, Custody
<1>8. \A t \in Tokens : pools'[t].variable_loan_share_quantity
        = pools[t].variable_loan_share_quantity
          + (IF x.borrow_token = t THEN x.normalized_borrow ELSE 0)
  BY <1>2, <1>4, <1>5, BookedType DEF IInv
<1>9. \A t \in Tokens : collateral_vaults'[t]
        >= collateral_vaults[t] + (IF x.collateral_token = t THEN x.collateral_amount ELSE 0)
  BY <1>3, <1>4, BookedType DEF IInv
<1>10. Books'
  BY <1>3, <1>4, <1>5, <1>7, <1>8, <1>9, BooksOfOneMore DEF IInv
<1>11. ops' \in Nat
  BY CallCounted DEF IInv, StakingBorrow
<1>12. cdp_vault' \subseteq Ids'
  <2>1. Len(cdps') = Len(cdps) + 1 /\ Len(cdps) \in Nat
    BY <1>3 DEF IInv, Books
  <2>2. Ids \subseteq Ids' /\ Len(cdps) + 1 \in Ids'
    BY <2>1 DEF Ids
  <2> QED BY <1>3, <2>2 DEF IInv, Frame
<1> QED BY <1>3, <1>10, <1>11, <1>12 DEF IInv, Frame

\* staking_repay keeps the record of the CDP it burns.
LEMMA StakingRepayStep ==
  ASSUME IInv, NEW i \in cdp_vault, NEW bucket \in Nat, StakingRepay(i, bucket)
  PROVE  IInv'
<1> DEFINE cdp == cdps[i]
           Q == PoolRepayStable(pools[XRD], Env(XRD), bucket, cdp.borrow_amount,
                                cdp.stable_rate, cdp.last_update_epoch, bucket)
<1> XRD \in Tokens
  BY ManagerAssumption
<1>1. /\ CanRepayStable(Env(XRD), bucket, cdp.borrow_amount, cdp.stable_rate,
                        cdp.last_update_epoch, bucket)
      /\ pools' = [pools EXCEPT ![XRD] = Q]
      /\ cdp_vault' = cdp_vault \ {i}
      /\ UNCHANGED <<cdps, collateral_vaults, close_factor_percent, flashloans,
                     transient_id_counter, epoch, price>>
  BY Zenon DEF StakingRepay, CanStakingRepay, Burned
<1>2. /\ cdp \in CollateralDebtPosition /\ cdp.last_update_epoch <= epoch
  <2>1. i \in Ids
    BY DEF IInv, Frame
  <2> QED BY <2>1 DEF IInv, Books, NotInFuture, Ids
<1> HIDE DEF cdp
<1>3. /\ cdp.borrow_amount \in Int /\ cdp.stable_rate \in Int
      /\ cdp.last_update_epoch \in Nat
  BY <1>2, CdpType
<1>4. /\ Sound(pools[XRD], Env(XRD)) /\ Env(XRD) \in Environment /\ Env(XRD).now = epoch
  BY PoolSound, EnvType DEF IInv, Books
<1>5. /\ Sound(Q, Env(XRD))
      /\ Q.dx_supply = pools[XRD].dx_supply
      /\ Q.variable_loan_share_quantity = pools[XRD].variable_loan_share_quantity
  BY <1>1, <1>2, <1>3, <1>4, RepayStableSound
<1> HIDE DEF Q
<1>6. Q.dx_supply >= collateral_vaults[XRD]
  BY <1>5, BookedType DEF IInv
<1>7. Books'
  BY <1>1, <1>5, <1>6, OnePoolStep DEF IInv
<1>8. ops' \in Nat
  BY CallCounted DEF IInv, StakingRepay
<1>9. cdp_vault' \subseteq Ids'
  BY <1>1 DEF IInv, Frame, Ids
<1> QED BY <1>1, <1>7, <1>8, <1>9 DEF IInv, Frame

-----------------------------------------------------------------------------
(* Steps that change a CDP and leave its collateral alone *)

LEMMA LoanChangedStep ==
  ASSUME Books, epoch' = epoch, collateral_vaults' = collateral_vaults,
         NEW i \in Ids, NEW b \in Tokens, cdps[i].borrow_token = b,
         NEW Q, Sound(Q, Env(b)), pools' = [pools EXCEPT ![b] = Q],
         NEW x \in CollateralDebtPosition, x.last_update_epoch <= epoch,
         x.borrow_token = b, x.collateral_token = cdps[i].collateral_token,
         x.collateral_amount = cdps[i].collateral_amount,
         cdps' = [cdps EXCEPT ![i] = x],
         Q.dx_supply = pools[b].dx_supply,
         Q.variable_loan_share_quantity
           = pools[b].variable_loan_share_quantity
             + (x.normalized_borrow - cdps[i].normalized_borrow)
  PROVE  Books'
<1>1. /\ PoolsSound' /\ pools'[b] = Q
      /\ \A t \in Tokens : t # b => pools'[t] = pools[t]
  BY PoolReplaced
<1>2. \A t \in Tokens : pools'[t].dx_supply = pools[t].dx_supply
  BY <1>1
<1>3. Custody'
  BY <1>2, BookedType DEF Books, Custody
<1>4. ASSUME NEW t \in Tokens
      PROVE  pools'[t].variable_loan_share_quantity
               = pools[t].variable_loan_share_quantity
                 + (IF x.borrow_token = t
                    THEN x.normalized_borrow - cdps[i].normalized_borrow ELSE 0)
  <2>1. CASE t = b
    BY <1>1, <2>1
  <2>2. CASE t # b
    BY <1>1, <2>2, BookedType
  <2> QED BY <2>1, <2>2
<1>5. ASSUME NEW t \in Tokens
      PROVE  collateral_vaults'[t]
               >= collateral_vaults[t]
                  + (IF x.collateral_token = t
                     THEN x.collateral_amount - cdps[i].collateral_amount ELSE 0)
  <2>1. collateral_vaults[t] \in Int /\ x.collateral_amount \in Int
    BY BookedType, CdpType
  <2> QED BY <2>1
<1>6. x.borrow_token = cdps[i].borrow_token
  OBVIOUS
<1> QED BY <1>1, <1>3, <1>4, <1>5, <1>6, BooksOfOneChanged, Zenon

LEMMA CdpKnown ==
  ASSUME Books, NEW i \in Ids
  PROVE  cdps[i] \in CollateralDebtPosition /\ cdps[i].last_update_epoch <= epoch
  BY DEF Books, NotInFuture, Ids

LEMMA ExtendVariableStep ==
  ASSUME IInv, NEW i \in Pledged, NEW amount \in Nat, ExtendVariable(i, amount)
  PROVE  IInv'
<1> DEFINE cdp    == cdps[i]
           b      == cdp.borrow_token
           shares == SharesFor(pools[b], Env(b), amount)
           Q      == PoolBorrowVariable(pools[b], Env(b), amount)
           x      == [cdp EXCEPT !.total_borrow = @ + amount, !.borrow_amount = @ + amount,
                                 !.normalized_borrow = @ + shares]
<1>1. i \in Ids
  BY DEF Pledged
<1>2. /\ cdp \in CollateralDebtPosition /\ cdp.last_update_epoch <= epoch
      /\ cdps \in Seq(CollateralDebtPosition)
  BY <1>1, CdpKnown DEF IInv, Books
<1>3. /\ b \in Tokens /\ cdp.total_borrow \in Int /\ cdp.borrow_amount \in Int
      /\ cdp.normalized_borrow \in Int
  BY <1>2, CdpType
<1>4. /\ CanBorrowVariable(pools[b], Env(b), amount)
      /\ pools' = [pools EXCEPT ![b] = Q]
      /\ UNCHANGED <<collateral_vaults, cdp_vault, close_factor_percent, flashloans,
                     transient_id_counter, epoch, price>>
  BY Zenon DEF ExtendVariable, PoolsAndCdps
<1>5. cdps' = [cdps EXCEPT ![i] = x]
  <2>1. cdps' = [cdps EXCEPT ![i].total_borrow = @ + amount,
                             ![i].borrow_amount = @ + amount,
                             ![i].normalized_borrow = @ + shares]
    BY DEF ExtendVariable
  <2> QED BY <1>1, <1>2, <2>1 DEF Ids
<1> HIDE DEF b
<1>6. Sound(pools[b], Env(b)) /\ Env(b) \in Environment
  BY <1>3, PoolSound DEF IInv
<1>7. /\ shares \in Int
      /\ Sound(Q, Env(b))
      /\ Q.dx_supply = pools[b].dx_supply
      /\ Q.variable_loan_share_quantity = pools[b].variable_loan_share_quantity + shares
  BY <1>4, <1>6, BorrowVariableSound
<1> HIDE DEF cdp, shares, Q
<1>8. /\ cdp.total_borrow + amount \in Int /\ cdp.borrow_amount + amount \in Int
      /\ cdp.normalized_borrow + shares \in Int
  BY <1>3, <1>7
<1>9. /\ x \in CollateralDebtPosition
      /\ x.last_update_epoch = cdp.last_update_epoch
      /\ x.borrow_token = cdp.borrow_token
      /\ x.collateral_token = cdp.collateral_token
      /\ x.collateral_amount = cdp.collateral_amount
      /\ x.normalized_borrow = cdp.normalized_borrow + shares
  BY <1>2, <1>8 DEF CollateralDebtPosition
<1>10. x.normalized_borrow - cdp.normalized_borrow = shares
  BY <1>3, <1>7, <1>9
<1> HIDE DEF x
<1>11. Books'
  BY <1>1, <1>2, <1>3, <1>4, <1>5, <1>7, <1>9, <1>10, LoanChangedStep DEF IInv, b, cdp
<1>12. ops' \in Nat /\ Len(cdps') >= Len(cdps)
  BY <1>2, <1>5, CallCounted DEF IInv, ExtendVariable
<1>13. Frame'
  BY <1>4, <1>11, <1>12, FrameKept DEF IInv
<1> QED BY <1>11, <1>13 DEF IInv

LEMMA ExtendStableStep ==
  ASSUME IInv, NEW i \in Pledged, NEW amount \in Nat, ExtendStable(i, amount)
  PROVE  IInv'
<1> DEFINE cdp      == cdps[i]
           b        == cdp.borrow_token
           interest == StableInterest(Env(b), cdp.borrow_amount, cdp.stable_rate,
                                      cdp.last_update_epoch)
           rate     == InterestRate(pools[b], Env(b), amount).stable
           mean     == WeightRate(cdp.borrow_amount + interest, cdp.stable_rate, amount, rate)
           Q        == PoolBorrowStable(pools[b], Env(b), amount, rate)
           x        == [cdp EXCEPT !.total_borrow = @ + amount,
                                   !.borrow_amount = @ + amount + interest,
                                   !.stable_rate = mean,
                                   !.last_update_epoch = epoch]
<1>1. i \in Ids
  BY DEF Pledged
<1>2. /\ cdp \in CollateralDebtPosition /\ cdp.last_update_epoch <= epoch
      /\ cdps \in Seq(CollateralDebtPosition) /\ epoch \in Nat
  BY <1>1, CdpKnown DEF IInv, Books
<1>3. /\ b \in Tokens /\ cdp.total_borrow \in Int /\ cdp.borrow_amount \in Int
      /\ cdp.normalized_borrow \in Int /\ cdp.stable_rate \in Int
      /\ cdp.last_update_epoch \in Nat
  BY <1>2, CdpType
<1>4. /\ CanBorrowStable(pools[b], amount)
      /\ cdp.borrow_amount + interest + amount # 0
      /\ pools' = [pools EXCEPT ![b] = Q]
      /\ UNCHANGED <<collateral_vaults, cdp_vault, close_factor_percent, flashloans,
                     transient_id_counter, epoch, price>>
  BY Zenon DEF ExtendStable, PoolsAndCdps
<1>5. cdps' = [cdps EXCEPT ![i] = x]
  <2>1. cdps' = [cdps EXCEPT ![i].total_borrow = @ + amount,
                             ![i].borrow_amount = @ + amount + interest,
                             ![i].stable_rate =
                                  WeightRate(cdp.borrow_amount + interest, @, amount, rate),
                             ![i].last_update_epoch = epoch]
    BY Zenon DEF ExtendStable
  <2> HIDE DEF interest, rate
  <2> QED BY <1>1, <1>2, <2>1 DEF Ids
<1> HIDE DEF b
<1>6. Sound(pools[b], Env(b)) /\ Env(b) \in Environment /\ Env(b).now = epoch
  BY <1>2, <1>3, PoolSound, EnvType DEF IInv
<1>7. interest \in Int
  BY <1>2, <1>3, <1>6, StableInterestType
<1>8. rate \in Int
  BY <1>6, InterestRateType DEF Rates
<1> HIDE DEF cdp, interest, rate
<1>9. /\ Sound(Q, Env(b))
      /\ Q.dx_supply = pools[b].dx_supply
      /\ Q.variable_loan_share_quantity = pools[b].variable_loan_share_quantity
  BY <1>4, <1>6, <1>8, BorrowStableSound
<1>10. mean \in Int
  <2>1. /\ cdp.borrow_amount + interest \in Int /\ amount \in Int
        /\ (cdp.borrow_amount + interest) + amount # 0
    BY <1>3, <1>4, <1>7
  <2> DEFINE owed == cdp.borrow_amount + interest
             old  == cdp.stable_rate
  <2>2. owed \in Int /\ old \in Int /\ owed + amount # 0
    BY <1>3, <2>1
  <2> HIDE DEF owed, old
  <2>3. WeightRate(owed, old, amount, rate) \in Int
    BY <1>8, <2>1, <2>2, WeightRateType
  <2> QED BY <2>3 DEF owed, old
<1> HIDE DEF Q, mean
<1>11. cdp.total_borrow + amount \in Int /\ cdp.borrow_amount + amount + interest \in Int
  BY <1>3, <1>7
<1>12. /\ x \in CollateralDebtPosition
       /\ x.last_update_epoch = epoch
       /\ x.borrow_token = cdp.borrow_token
       /\ x.collateral_token = cdp.collateral_token
       /\ x.collateral_amount = cdp.collateral_amount
       /\ x.normalized_borrow = cdp.normalized_borrow
  BY <1>2, <1>10, <1>11 DEF CollateralDebtPosition
<1> HIDE DEF x
<1>13. Q.variable_loan_share_quantity = pools[b].variable_loan_share_quantity
         + (x.normalized_borrow - cdp.normalized_borrow)
  BY <1>3, <1>9, <1>12, BookedType DEF IInv
<1>14. Books'
  <2>1. /\ Books /\ epoch' = epoch /\ collateral_vaults' = collateral_vaults
        /\ cdps[i].borrow_token = b
    BY <1>4 DEF IInv, b, cdp
  <2>2. /\ x.last_update_epoch <= epoch /\ x.borrow_token = b
        /\ x.collateral_token = cdps[i].collateral_token
        /\ x.collateral_amount = cdps[i].collateral_amount
        /\ Q.variable_loan_share_quantity = pools[b].variable_loan_share_quantity
             + (x.normalized_borrow - cdps[i].normalized_borrow)
    BY <1>2, <1>12, <1>13 DEF b, cdp
  <2> QED BY <1>1, <1>3, <1>4, <1>5, <1>9, <1>12, <2>1, <2>2, LoanChangedStep
<1>15. ops' \in Nat /\ Len(cdps') >= Len(cdps)
  BY <1>2, <1>5, CallCounted DEF IInv, ExtendStable
<1>16. Frame'
  BY <1>4, <1>14, <1>15, FrameKept DEF IInv
<1> QED BY <1>14, <1>16 DEF IInv

-----------------------------------------------------------------------------
(* Repayment *)

\* What a repayment leaves of the pool and of the CDP: the loan shares that
\* the pool writes off are those that leave the CDP.
LEMMA RepaidSound ==
  ASSUME Books, NEW i \in Ids, NEW bucket \in Int, NEW limit \in Int, CanRepay(i, bucket, limit)
  PROVE  LET b == cdps[i].borrow_token
             Q == PoolRepaid(i, bucket, limit)
             x == CdpRepaid(i, bucket, limit)
         IN  /\ b \in Tokens /\ Sound(Q, Env(b)) /\ Q.dx_supply = pools[b].dx_supply
             /\ x \in CollateralDebtPosition /\ x.last_update_epoch <= epoch
             /\ x.borrow_token = b /\ x.collateral_token = cdps[i].collateral_token
             /\ x.collateral_amount = cdps[i].collateral_amount
             /\ Q.variable_loan_share_quantity
                  = pools[b].variable_loan_share_quantity
                    + (x.normalized_borrow - cdps[i].normalized_borrow)
<1> DEFINE cdp == cdps[i]
           b   == cdp.borrow_token
           Q   == PoolRepaid(i, bucket, limit)
           x   == CdpRepaid(i, bucket, limit)
           paid == Payment(i, bucket, limit)
<1>1. cdp \in CollateralDebtPosition /\ cdp.last_update_epoch <= epoch /\ epoch \in Nat
  BY CdpKnown DEF Books
<1>2. /\ b \in Tokens /\ cdp.borrow_amount \in Int /\ cdp.normalized_borrow \in Int
      /\ cdp.stable_rate \in Int /\ cdp.last_update_epoch \in Nat /\ cdp.total_repay \in Int
      /\ cdp.is_stable \in BOOLEAN
  BY <1>1, CdpType
<1>3. /\ Sound(pools[b], Env(b)) /\ Env(b) \in Environment /\ Env(b).now = epoch
      /\ pools[b].variable_loan_share_quantity \in Int
  BY <1>1, <1>2, PoolSound, EnvType, BookedType
<1>4. CASE cdp.is_stable
  <2> DEFINE borrow == RepayInBorrow(Env(b), bucket, cdp.borrow_amount, cdp.stable_rate,
                                     cdp.last_update_epoch, limit)
  <2>1. /\ CanRepayStable(Env(b), bucket, cdp.borrow_amount, cdp.stable_rate,
                          cdp.last_update_epoch, limit)
        /\ paid = StablePayment(Env(b), bucket, cdp.borrow_amount, cdp.stable_rate,
                                cdp.last_update_epoch, limit)
        /\ Q = PoolRepayStable(pools[b], Env(b), bucket, cdp.borrow_amount,
                               cdp.stable_rate, cdp.last_update_epoch, limit)
        /\ x = AfterStableRepay(cdp, paid, borrow)
    BY <1>4, Zenon DEF CanRepay, Payment, PoolRepaid, CdpRepaid
  <2> HIDE DEF cdp, b, Q, x, paid
  <2>2. /\ paid \in Nat /\ borrow \in Int
        /\ Sound(Q, Env(b)) /\ Q.dx_supply = pools[b].dx_supply
        /\ Q.variable_loan_share_quantity = pools[b].variable_loan_share_quantity
    <3>1. /\ cdp.last_update_epoch <= Env(b).now
          /\ borrow = RepayInBorrow(Env(b), bucket, cdp.borrow_amount, cdp.stable_rate,
                                    cdp.last_update_epoch, limit)
      BY <1>1, <1>3
    <3> HIDE DEF borrow
    <3> DEFINE e == Env(b)
               P == pools[b]
               loan == cdp.borrow_amount
               rate == cdp.stable_rate
               since == cdp.last_update_epoch
    <3>2. /\ e \in Environment /\ Sound(P, e)
          /\ loan \in Int /\ rate \in Int /\ since \in Nat /\ since <= e.now
          /\ CanRepayStable(e, bucket, loan, rate, since, limit)
          /\ paid = StablePayment(e, bucket, loan, rate, since, limit)
          /\ borrow = RepayInBorrow(e, bucket, loan, rate, since, limit)
          /\ Q = PoolRepayStable(P, e, bucket, loan, rate, since, limit)
      BY <1>2, <1>3, <2>1, <3>1
    <3> HIDE DEF borrow, e, P, loan, rate, since
    <3>3. /\ paid \in Nat /\ borrow \in Int
          /\ Sound(Q, e) /\ Q.dx_supply = P.dx_supply
          /\ Q.variable_loan_share_quantity = P.variable_loan_share_quantity
      BY <3>2, RepayStableSound, SMTT(30)
    <3> QED BY <3>3 DEF e, P
  <2> HIDE DEF borrow
  <2>3. cdp.total_repay + paid \in Int /\ cdp.borrow_amount - borrow \in Int
    BY <1>2, <2>2
  <2>4. /\ x \in CollateralDebtPosition /\ x.last_update_epoch <= epoch
        /\ x.borrow_token = cdp.borrow_token /\ x.collateral_token = cdp.collateral_token
        /\ x.collateral_amount = cdp.collateral_amount
        /\ x.normalized_borrow = cdp.normalized_borrow
    <3>1. CASE borrow = 0
      BY <1>1, <2>1, <2>3, <3>1 DEF AfterStableRepay, CollateralDebtPosition
    <3>2. CASE borrow # 0
      <4> DEFINE rate == IF cdp.borrow_amount = borrow THEN 0 ELSE cdp.stable_rate
      <4>1. rate \in Int
        BY <1>2
      <4>2. x = [cdp EXCEPT !.total_repay = @ + paid, !.borrow_amount = @ - borrow,
                            !.stable_rate = rate, !.last_update_epoch = epoch]
        BY <2>1, <3>2 DEF AfterStableRepay
      <4> HIDE DEF rate
      <4>3. epoch \in Nat /\ epoch <= epoch
        BY <1>1
      <4>4. x \in CollateralDebtPosition
        BY <1>1, <2>3, <4>1, <4>2, <4>3 DEF CollateralDebtPosition
      <4>5. /\ x.last_update_epoch = epoch
            /\ x.borrow_token = cdp.borrow_token /\ x.collateral_token = cdp.collateral_token
            /\ x.collateral_amount = cdp.collateral_amount
            /\ x.normalized_borrow = cdp.normalized_borrow
        BY <1>1, <4>2 DEF CollateralDebtPosition
      <4> QED BY <4>3, <4>4, <4>5
    <3> QED BY <3>1, <3>2
  <2>5. Q.variable_loan_share_quantity = pools[b].variable_loan_share_quantity
          + (x.normalized_borrow - cdp.normalized_borrow)
    BY <1>2, <1>3, <2>2, <2>4
  <2> QED BY <1>2, <2>2, <2>4, <2>5 DEF cdp, b, Q, x
<1>5. CASE ~cdp.is_stable
  <2> DEFINE shares == SharesRepaid(pools[b], Env(b), paid, cdp.normalized_borrow)
  <2>1. /\ CanRepayVariable(pools[b], Env(b), bucket, cdp.normalized_borrow, limit)
        /\ paid = VariablePayment(pools[b], Env(b), bucket, cdp.normalized_borrow, limit)
        /\ Q = PoolRepayVariable(pools[b], Env(b), bucket, cdp.normalized_borrow, limit)
        /\ x = AfterVariableRepay(cdp, paid, shares)
    BY <1>5, Zenon DEF CanRepay, Payment, PoolRepaid, CdpRepaid
  <2> HIDE DEF cdp, b, Q, x, paid
  <2>2. /\ paid \in Nat /\ shares \in Int
        /\ Sound(Q, Env(b)) /\ Q.dx_supply = pools[b].dx_supply
        /\ Q.variable_loan_share_quantity = pools[b].variable_loan_share_quantity - shares
    BY <1>2, <1>3, <2>1, RepayVariableSound
  <2> HIDE DEF shares
  <2>3. cdp.total_repay + paid \in Int /\ cdp.normalized_borrow - shares \in Int
    BY <1>2, <2>2
  <2>4. /\ x \in CollateralDebtPosition /\ x.last_update_epoch = cdp.last_update_epoch
        /\ x.borrow_token = cdp.borrow_token /\ x.collateral_token = cdp.collateral_token
        /\ x.collateral_amount = cdp.collateral_amount
        /\ x.normalized_borrow = cdp.normalized_borrow - shares
    BY <1>1, <2>1, <2>3 DEF AfterVariableRepay, CollateralDebtPosition
  <2>5. Q.variable_loan_share_quantity = pools[b].variable_loan_share_quantity
          + (x.normalized_borrow - cdp.normalized_borrow)
    BY <1>2, <1>3, <2>2, <2>4
  <2> QED BY <1>1, <1>2, <2>2, <2>4, <2>5 DEF cdp, b, Q, x
<1> QED BY <1>2, <1>4, <1>5

LEMMA RepayCallStep ==
  ASSUME IInv, NEW i \in Ids, NEW bucket \in Nat, Repay(i, bucket)
  PROVE  IInv'
<1> DEFINE b == cdps[i].borrow_token
           Q == PoolRepaid(i, bucket, bucket)
           x == CdpRepaid(i, bucket, bucket)
<1>1. /\ CanRepay(i, bucket, bucket)
      /\ pools' = [pools EXCEPT ![b] = Q]
      /\ cdps' = [cdps EXCEPT ![i] = x]
      /\ UNCHANGED <<collateral_vaults, cdp_vault, close_factor_percent, flashloans,
                     transient_id_counter, epoch, price>>
  BY Zenon DEF Repay, PoolsAndCdps
<1>2. /\ b \in Tokens /\ Sound(Q, Env(b)) /\ Q.dx_supply = pools[b].dx_supply
      /\ x \in CollateralDebtPosition /\ x.last_update_epoch <= epoch
      /\ x.borrow_token = b /\ x.collateral_token = cdps[i].collateral_token
      /\ x.collateral_amount = cdps[i].collateral_amount
      /\ Q.variable_loan_share_quantity
           = pools[b].variable_loan_share_quantity
             + (x.normalized_borrow - cdps[i].normalized_borrow)
  <2>1. bucket \in Int
    OBVIOUS
  <2> QED BY <1>1, <2>1, RepaidSound DEF IInv
<1> HIDE DEF Q, x
<1>3. Books'
  BY <1>1, <1>2, LoanChangedStep DEF IInv
<1>4. ops' \in Nat /\ Len(cdps') >= Len(cdps)
  BY <1>1, CallCounted DEF IInv, Books, Repay
<1>5. Frame'
  BY <1>1, <1>3, <1>4, FrameKept DEF IInv
<1> QED BY <1>3, <1>5 DEF IInv

-----------------------------------------------------------------------------
(* Steps that change the collateral of a CDP *)

\* CDP i, whose collateral is dx of c, is changed to x and the vault of c to v.
LEMMA CollateralChangedStep ==
  ASSUME Books, PoolsSound', epoch' = epoch,
         NEW i \in Ids, NEW x \in CollateralDebtPosition, x.last_update_epoch <= epoch,
         x.borrow_token = cdps[i].borrow_token, x.collateral_token = cdps[i].collateral_token,
         cdps' = [cdps EXCEPT ![i] = x],
         \A t \in Tokens : pools'[t].variable_loan_share_quantity
           = pools[t].variable_loan_share_quantity
             + (IF x.borrow_token = t THEN x.normalized_borrow - cdps[i].normalized_borrow ELSE 0),
         NEW c \in Tokens, x.collateral_token = c,
         NEW v \in Nat, collateral_vaults' = [collateral_vaults EXCEPT ![c] = v],
         v >= collateral_vaults[c] + (x.collateral_amount - cdps[i].collateral_amount),
         v <= pools'[c].dx_supply,
         \A t \in Tokens : t # c => pools'[t].dx_supply = pools[t].dx_supply
  PROVE  Books'
<1>1. /\ collateral_vaults' \in [Tokens -> Nat]
      /\ collateral_vaults'[c] = v
      /\ \A t \in Tokens : t # c => collateral_vaults'[t] = collateral_vaults[t]
  BY DEF Books
<1>2. Custody'
  <2>1. ASSUME NEW t \in Tokens PROVE collateral_vaults'[t] <= pools'[t].dx_supply
    <3>1. CASE t = c
      BY <1>1, <3>1
    <3>2. CASE t # c
      BY <1>1, <3>2, BookedType
    <3> QED BY <3>1, <3>2
  <2> QED BY <1>1, <2>1 DEF Custody
<1>3. ASSUME NEW t \in Tokens
      PROVE  collateral_vaults'[t]
               >= collateral_vaults[t]
                  + (IF x.collateral_token = t
                     THEN x.collateral_amount - cdps[i].collateral_amount ELSE 0)
  <2>1. collateral_vaults[t] \in Int
    BY BookedType
  <2>2. CASE t = c
    BY <1>1, <2>2
  <2>3. CASE t # c
    BY <1>1, <2>1, <2>3
  <2> QED BY <2>2, <2>3
<1> QED BY <1>2, <1>3, BooksOfOneChanged, Zenon

LEMMA WithCollateralSound ==
  ASSUME Books, NEW i \in Ids, NEW dx \in Int,
         NEW x, x = WithCollateral(cdps[i], dx)
  PROVE  /\ x \in CollateralDebtPosition /\ x.last_update_epoch <= epoch
         /\ x.borrow_token = cdps[i].borrow_token
         /\ x.collateral_token = cdps[i].collateral_token
         /\ x.normalized_borrow = cdps[i].normalized_borrow
         /\ x.collateral_amount = cdps[i].collateral_amount + dx
<1> DEFINE cdp == cdps[i]
<1>1. cdp \in CollateralDebtPosition /\ cdp.last_update_epoch <= epoch /\ epoch \in Nat
  BY CdpKnown DEF Books
<1>2. cdp.collateral_amount + dx \in Int
  BY <1>1, CdpType
<1>3. x = IF cdp.is_stable
          THEN [cdp EXCEPT !.collateral_amount = @ + dx, !.stable_rate = 0,
                           !.last_update_epoch = epoch]
          ELSE [cdp EXCEPT !.collateral_amount = @ + dx]
  BY DEF WithCollateral
<1> SUFFICES /\ x \in CollateralDebtPosition /\ x.last_update_epoch <= epoch
             /\ x.borrow_token = cdp.borrow_token
             /\ x.collateral_token = cdp.collateral_token
             /\ x.normalized_borrow = cdp.normalized_borrow
             /\ x.collateral_amount = cdp.collateral_amount + dx
  OBVIOUS
<1> HIDE DEF cdp
<1>4. CASE cdp.is_stable
  <2> DEFINE held == cdp.collateral_amount + dx
             rate == 0
  <2>1. /\ x = [cdp EXCEPT !.collateral_amount = held, !.stable_rate = rate,
                           !.last_update_epoch = epoch]
        /\ held \in Int /\ rate \in Int
    BY <1>2, <1>3, <1>4
  <2> HIDE DEF held, rate
  <2>2. x \in CollateralDebtPosition
    BY <1>1, <2>1 DEF CollateralDebtPosition
  <2>3. /\ x.last_update_epoch = epoch
        /\ x.borrow_token = cdp.borrow_token
        /\ x.collateral_token = cdp.collateral_token
        /\ x.normalized_borrow = cdp.normalized_borrow
        /\ x.collateral_amount = held
    BY <1>1, <2>1 DEF CollateralDebtPosition
  <2> QED BY <1>1, <2>2, <2>3 DEF held
<1>5. CASE ~cdp.is_stable
  BY <1>1, <1>2, <1>3, <1>5 DEF CollateralDebtPosition
<1> QED BY <1>4, <1>5

LEMMA ReleaseSound ==
  ASSUME NEW cdp \in CollateralDebtPosition, NEW dx \in Int,
         NEW x, x = Release(cdp, dx)
  PROVE  /\ x \in CollateralDebtPosition
         /\ x.last_update_epoch = cdp.last_update_epoch
         /\ x.borrow_token = cdp.borrow_token
         /\ x.collateral_token = cdp.collateral_token
         /\ x.normalized_borrow = cdp.normalized_borrow
         /\ x.collateral_amount = cdp.collateral_amount - dx
<1>1. cdp.collateral_amount - dx \in Int
  BY CdpType
<1> QED BY <1>1 DEF Release, CollateralDebtPosition

\* A step that changes pool c and the collateral of a CDP by amounts that fit.
LEMMA PledgeStep ==
  ASSUME Books, epoch' = epoch,
         NEW i \in Ids, NEW x \in CollateralDebtPosition, x.last_update_epoch <= epoch,
         x.borrow_token = cdps[i].borrow_token, x.collateral_token = cdps[i].collateral_token,
         x.normalized_borrow = cdps[i].normalized_borrow,
         cdps' = [cdps EXCEPT ![i] = x],
         NEW c \in Tokens, x.collateral_token = c,
         NEW Q, Sound(Q, Env(c)), pools' = [pools EXCEPT ![c] = Q],
         Q.variable_loan_share_quantity = pools[c].variable_loan_share_quantity,
         NEW v \in Nat, collateral_vaults' = [collateral_vaults EXCEPT ![c] = v],
         v >= collateral_vaults[c] + (x.collateral_amount - cdps[i].collateral_amount),
         v <= Q.dx_supply
  PROVE  Books'
<1>1. /\ PoolsSound' /\ pools'[c] = Q
      /\ \A t \in Tokens : t # c => pools'[t] = pools[t]
  BY PoolReplaced
<1>2. x.normalized_borrow \in Int
  BY CdpType
<1>3. ASSUME NEW t \in Tokens
      PROVE  pools'[t].variable_loan_share_quantity
               = pools[t].variable_loan_share_quantity
                 + (IF x.borrow_token = t
                    THEN x.normalized_borrow - cdps[i].normalized_borrow ELSE 0)
  <2>1. pools[t].variable_loan_share_quantity \in Int
    BY BookedType
  <2>2. pools'[t].variable_loan_share_quantity = pools[t].variable_loan_share_quantity
    BY <1>1
  <2> QED BY <1>2, <2>1, <2>2
<1>4. /\ \A t \in Tokens : t # c => pools'[t].dx_supply = pools[t].dx_supply
      /\ v <= pools'[c].dx_supply
  BY <1>1
<1> QED BY <1>1, <1>3, <1>4, CollateralChangedStep, Zenon

LEMMA PledgedToken ==
  ASSUME Books, NEW i \in Pledged
  PROVE  i \in Ids /\ cdps[i].collateral_token \in Tokens
<1>1. i \in Ids /\ cdps[i].collateral_token # NoDx
  BY DEF Pledged
<1> QED BY <1>1, CdpKnown, CdpType

LEMMA AddCollateralDxStep ==
  ASSUME IInv, NEW i \in Pledged, NEW dx \in Nat, AddCollateralDx(i, dx)
  PROVE  IInv'
<1> DEFINE c == cdps[i].collateral_token
           x == WithCollateral(cdps[i], dx)
           v == collateral_vaults[c] + dx
<1>1. i \in Ids /\ c \in Tokens
  BY PledgedToken DEF IInv
<1>2. /\ dx <= FreeDx(c)
      /\ collateral_vaults' = [collateral_vaults EXCEPT ![c] = v]
      /\ cdps' = [cdps EXCEPT ![i] = x]
      /\ UNCHANGED <<pools, cdp_vault, close_factor_percent, flashloans,
                     transient_id_counter, epoch, price>>
  BY DEF AddCollateralDx, PoolsAndCdps
<1>3. /\ x \in CollateralDebtPosition /\ x.last_update_epoch <= epoch
      /\ x.borrow_token = cdps[i].borrow_token
      /\ x.collateral_token = c
      /\ x.normalized_borrow = cdps[i].normalized_borrow
      /\ x.collateral_amount = cdps[i].collateral_amount + dx
  BY <1>1, WithCollateralSound DEF IInv
<1> HIDE DEF x
<1>4. cdps[i].collateral_amount \in Int
  BY <1>1, CdpKnown, CdpType DEF IInv
<1>5. /\ pools[c].dx_supply \in Nat /\ collateral_vaults[c] \in Nat
      /\ pools[c].variable_loan_share_quantity \in Int
  BY <1>1, BookedType DEF IInv
<1>6. v \in Nat /\ v <= pools[c].dx_supply
  BY <1>2, <1>5 DEF FreeDx
<1>7. v >= collateral_vaults[c] + (x.collateral_amount - cdps[i].collateral_amount)
  BY <1>3, <1>4, <1>5
<1>8. Sound(pools[c], Env(c)) /\ pools' = [pools EXCEPT ![c] = pools[c]]
  BY <1>1, <1>2, PoolSound DEF IInv, Books
<1> HIDE DEF v
<1>9. Books'
  <2>1. x.collateral_token = cdps[i].collateral_token
    BY <1>3
  <2> HIDE DEF c
  <2> QED BY <1>1, <1>2, <1>3, <1>6, <1>7, <1>8, <2>1, PledgeStep DEF IInv
<1>10. ops' \in Nat /\ Len(cdps') >= Len(cdps)
  BY <1>2, CallCounted DEF IInv, Books, AddCollateralDx
<1>11. Frame'
  BY <1>2, <1>9, <1>10, FrameKept DEF IInv
<1> QED BY <1>9, <1>11 DEF IInv

LEMMA AddCollateralStep ==
  ASSUME IInv, NEW i \in Pledged, NEW amount \in Nat, AddCollateral(i, amount)
  PROVE  IInv'
<1> DEFINE c  == cdps[i].collateral_token
           dx == MintedDx(pools[c], Env(c), amount)
           Q  == AddLiquidity(pools[c], Env(c), amount)
           x  == WithCollateral(cdps[i], dx)
           v  == collateral_vaults[c] + dx
<1>1. i \in Ids /\ c \in Tokens
  BY PledgedToken DEF IInv
<1>2. /\ CanAddLiquidity(pools[c], Env(c), amount)
      /\ pools' = [pools EXCEPT ![c] = Q]
      /\ collateral_vaults' = [collateral_vaults EXCEPT ![c] = v]
      /\ cdps' = [cdps EXCEPT ![i] = x]
      /\ UNCHANGED <<cdp_vault, close_factor_percent, flashloans,
                     transient_id_counter, epoch, price>>
  BY DEF AddCollateral, PoolsAndCdps
<1>3. Sound(pools[c], Env(c)) /\ Env(c) \in Environment
  BY <1>1, PoolSound DEF IInv
<1>4. /\ dx \in Nat
      /\ Sound(Q, Env(c))
      /\ Q.dx_supply = pools[c].dx_supply + dx
      /\ Q.variable_loan_share_quantity = pools[c].variable_loan_share_quantity
  BY <1>2, <1>3, AddLiquiditySound
<1> HIDE DEF dx, Q
<1>5. /\ x \in CollateralDebtPosition /\ x.last_update_epoch <= epoch
      /\ x.borrow_token = cdps[i].borrow_token
      /\ x.collateral_token = cdps[i].collateral_token
      /\ x.normalized_borrow = cdps[i].normalized_borrow
      /\ x.collateral_amount = cdps[i].collateral_amount + dx
  BY <1>1, <1>4, WithCollateralSound DEF IInv
<1> HIDE DEF x
<1>6. cdps[i].collateral_amount \in Int
  BY <1>1, CdpKnown, CdpType DEF IInv
<1>7. /\ pools[c].dx_supply \in Nat /\ collateral_vaults[c] \in Nat
      /\ collateral_vaults[c] <= pools[c].dx_supply
  BY <1>1, BookedType DEF IInv
<1>8. /\ v \in Nat /\ v <= Q.dx_supply
      /\ v >= collateral_vaults[c] + (x.collateral_amount - cdps[i].collateral_amount)
  BY <1>4, <1>5, <1>6, <1>7
<1> HIDE DEF v
<1>9. Books'
  <2>1. x.collateral_token = c
    BY <1>5
  <2> HIDE DEF c
  <2> QED BY <1>1, <1>2, <1>4, <1>5, <1>8, <2>1, PledgeStep DEF IInv
<1>10. ops' \in Nat /\ Len(cdps') >= Len(cdps)
  BY <1>2, CallCounted DEF IInv, Books, AddCollateral
<1>11. Frame'
  BY <1>2, <1>9, <1>10, FrameKept DEF IInv
<1> QED BY <1>9, <1>11 DEF IInv

\* The vault loses the dx rounded down and the CDP the dx rounded up.
LEMMA WithdrawCollateralStep ==
  ASSUME IInv, NEW i \in Pledged, NEW amount \in Nat, WithdrawCollateral(i, amount)
  PROVE  IInv'
<1> DEFINE c     == cdps[i].collateral_token
           index == SupplyIndex(pools[c], Env(c))
           dxs   == DDiv(amount, index)
           taken == FloorTo(dxs, Config[c].share_unit)
           dx    == CeilTo(dxs, Config[c].share_unit)
           Q     == RemoveLiquidity(pools[c], Env(c), taken)
           x     == Release(cdps[i], dx)
           v     == collateral_vaults[c] - taken
<1>1. i \in Ids /\ c \in Tokens
  BY PledgedToken DEF IInv
<1>2. /\ index # 0
      /\ Takeable(taken, Config[c].share_unit) /\ taken <= collateral_vaults[c]
      /\ CanRemoveLiquidity(pools[c], Env(c), taken)
      /\ pools' = [pools EXCEPT ![c] = Q]
      /\ collateral_vaults' = [collateral_vaults EXCEPT ![c] = v]
      /\ cdps' = [cdps EXCEPT ![i] = x]
      /\ UNCHANGED <<cdp_vault, close_factor_percent, flashloans,
                     transient_id_counter, epoch, price>>
  BY DEF WithdrawCollateral, PoolsAndCdps
<1>3. Sound(pools[c], Env(c)) /\ Env(c) \in Environment
  BY <1>1, PoolSound DEF IInv
<1>4. dxs \in Int
  <2>1. index \in Int
    BY <1>3, IndexType
  <2> HIDE DEF index
  <2> QED BY <1>2, <2>1, DDivType
<1> HIDE DEF dxs
<1>5. taken \in Int /\ dx \in Int /\ taken <= dx
  <2>1. Config[c].share_unit \in Nat \ {0}
    BY <1>1, ManagerAssumption DEF PoolConfig
  <2>2. taken \in Int /\ taken <= dxs
    BY <1>4, <2>1, FloorToBounds
  <2>3. dx \in Int /\ dxs <= dx
    BY <1>4, <2>1, CeilToBounds
  <2> HIDE DEF taken, dx
  <2> QED BY <1>4, <2>2, <2>3
<1>6. taken \in Nat
  BY <1>2, <1>5 DEF Takeable
<1> HIDE DEF taken, dx
<1>7. /\ pools[c].dx_supply \in Nat /\ collateral_vaults[c] \in Nat
      /\ collateral_vaults[c] <= pools[c].dx_supply
      /\ taken <= pools[c].dx_supply
  BY <1>1, <1>2, <1>6, BookedType DEF IInv
<1>8. /\ Sound(Q, Env(c))
      /\ Q.dx_supply = pools[c].dx_supply - taken
      /\ Q.variable_loan_share_quantity = pools[c].variable_loan_share_quantity
  BY <1>2, <1>3, <1>6, <1>7, RemoveLiquiditySound
<1> HIDE DEF Q
<1>9. /\ cdps[i] \in CollateralDebtPosition /\ cdps[i].last_update_epoch <= epoch
      /\ cdps[i].collateral_amount \in Int
  BY <1>1, CdpKnown, CdpType DEF IInv
<1>10. /\ x \in CollateralDebtPosition /\ x.last_update_epoch = cdps[i].last_update_epoch
       /\ x.borrow_token = cdps[i].borrow_token
       /\ x.collateral_token = cdps[i].collateral_token
       /\ x.normalized_borrow = cdps[i].normalized_borrow
       /\ x.collateral_amount = cdps[i].collateral_amount - dx
  <2> DEFINE cdp == cdps[i]
  <2>1. x = Release(cdp, dx) /\ cdp \in CollateralDebtPosition /\ dx \in Int
    BY <1>5, <1>9
  <2> HIDE DEF cdp, x
  <2>2. /\ x \in CollateralDebtPosition /\ x.last_update_epoch = cdp.last_update_epoch
        /\ x.borrow_token = cdp.borrow_token
        /\ x.collateral_token = cdp.collateral_token
        /\ x.normalized_borrow = cdp.normalized_borrow
        /\ x.collateral_amount = cdp.collateral_amount - dx
    BY <2>1, ReleaseSound
  <2> QED BY <2>2 DEF cdp
<1> HIDE DEF x
<1>11. /\ v \in Nat /\ v <= Q.dx_supply
       /\ v >= collateral_vaults[c] + (x.collateral_amount - cdps[i].collateral_amount)
  BY <1>2, <1>5, <1>6, <1>7, <1>8, <1>9, <1>10
<1> HIDE DEF v
<1>12. Books'
  <2>1. x.collateral_token = c /\ x.last_update_epoch <= epoch
    BY <1>9, <1>10
  <2> HIDE DEF c
  <2> QED BY <1>1, <1>2, <1>8, <1>10, <1>11, <2>1, PledgeStep DEF IInv
<1>13. ops' \in Nat /\ Len(cdps') >= Len(cdps)
  BY <1>2, CallCounted DEF IInv, Books, WithdrawCollateral
<1>14. Frame'
  BY <1>2, <1>12, <1>13, FrameKept DEF IInv
<1> QED BY <1>12, <1>14 DEF IInv

-----------------------------------------------------------------------------
(* Liquidation *)

\* A price of 0 makes any value 0.
LEMMA ValueAtZero ==
  ASSUME NEW a \in Int
  PROVE  DMul(a, 0) = 0
<1>1. a * 0 = 0
  OBVIOUS
<1>2. 0 \div ONE = 0
  BY DecimalsAssumption
<1> QED BY <1>1, <1>2 DEF DMul, Trunc

LEMMA LiquidatedDebtType ==
  ASSUME Books, NEW i \in Ids
  PROVE  LiquidatedDebt(i) \in Int
<1> DEFINE cdp == cdps[i]
           b   == cdp.borrow_token
<1>1. cdp \in CollateralDebtPosition /\ cdp.last_update_epoch <= epoch /\ epoch \in Nat
  BY CdpKnown DEF Books
<1>2. /\ b \in Tokens /\ cdp.borrow_amount \in Int /\ cdp.normalized_borrow \in Int
      /\ cdp.stable_rate \in Int /\ cdp.last_update_epoch \in Nat
  BY <1>1, CdpType
<1>3. Sound(pools[b], Env(b)) /\ Env(b) \in Environment /\ Env(b).now = epoch
  BY <1>1, <1>2, PoolSound, EnvType
<1>4. LiquidatedDebt(i) =
        IF cdp.is_stable
        THEN StableInterest(Env(b), cdp.borrow_amount, cdp.stable_rate, cdp.last_update_epoch)
        ELSE DMul(cdp.normalized_borrow, LoanIndex(pools[b], Env(b)))
  BY DEF LiquidatedDebt
<1> HIDE DEF cdp, b
<1>5. StableInterest(Env(b), cdp.borrow_amount, cdp.stable_rate, cdp.last_update_epoch) \in Int
  BY <1>1, <1>2, <1>3, StableInterestType
<1>6. DMul(cdp.normalized_borrow, LoanIndex(pools[b], Env(b))) \in Int
  BY <1>2, <1>3, IndexType, DMulType
<1> QED BY <1>4, <1>5, <1>6

\* No quotient of a liquidation that may go ahead is by 0.
LEMMA LiquidationTermsType ==
  ASSUME Books, close_factor_percent \in Nat, NEW i \in Pledged, NEW cover \in Nat,
         NEW bp \in Nat, NEW cp \in Nat, CanLiquidate(i, bp, cp)
  PROVE  /\ LiquidationTerms(i, cover, bp, cp).debt \in Int
         /\ LiquidationTerms(i, cover, bp, cp).dx \in Int
<1> DEFINE c          == cdps[i].collateral_token
           dx         == cdps[i].collateral_amount
           owed       == LiquidatedDebt(i)
           underlying == CollateralUnderlying(i)
           bonus      == ONE + Config[c].liquidation_bonus
           wanted     == Covered(i, cover)
           price_bp   == DMul(bp, bonus)
           seized     == DDiv(DMul(DMul(wanted, bp), bonus), cp)
           index      == DDiv(underlying, dx)
           worth      == DMul(underlying, cp)
<1>1. i \in Ids /\ c \in Tokens /\ dx \in Int
  BY PledgedToken, CdpKnown, CdpType
<1>2. Sound(pools[c], Env(c)) /\ Env(c) \in Environment
  BY <1>1, PoolSound
<1>3. underlying \in Int
  BY <1>1, <1>2, RedemptionValueType DEF CollateralUnderlying
<1>4. owed \in Int
  BY <1>1, LiquidatedDebtType
<1>5. /\ DMul(owed, bp) # 0 /\ cp # 0 /\ dx # 0 /\ DDiv(underlying, dx) # 0
  BY DEF CanLiquidate
<1>6. LiquidationTerms(i, cover, bp, cp) =
        IF seized > underlying
        THEN [debt |-> DDiv(worth, price_bp), dx |-> DDiv(underlying, index)]
        ELSE [debt |-> wanted, dx |-> DDiv(seized, index)]
  BY Zenon DEF LiquidationTerms
<1>7. bonus \in Nat /\ bonus >= ONE
  BY <1>1, ManagerAssumption, DecimalsAssumption DEF PoolConfig
<1> HIDE DEF c, dx, owed, underlying, bonus
<1>8. bp # 0
  BY <1>4, <1>5, ValueAtZero
<1>9. price_bp \in Int /\ price_bp # 0
  <2>1. price_bp >= bp /\ price_bp \in Nat
    BY <1>7, DMulGrows, DMulNat
  <2> QED BY <1>8, <2>1
<1>10. wanted \in Int
  <2> DEFINE most == PercentMul(owed, close_factor_percent)
  <2>1. most \in Int
    BY <1>4, PercentMulType
  <2>2. wanted = IF cover > 0 /\ most > cover THEN cover ELSE most
    BY DEF Covered, owed
  <2> HIDE DEF most, wanted
  <2> QED BY <2>1, <2>2
<1> HIDE DEF wanted
<1>11. seized \in Int
  <2>1. DMul(DMul(wanted, bp), bonus) \in Int
    BY <1>7, <1>10, DMulType
  <2> QED BY <1>5, <2>1, DDivType
<1>12. index \in Int /\ index # 0
  BY <1>1, <1>3, <1>5, DDivType
<1>13. worth \in Int
  BY <1>3, DMulType
<1> HIDE DEF seized, index, price_bp, worth
<1>14. /\ DDiv(worth, price_bp) \in Int /\ DDiv(underlying, index) \in Int
       /\ DDiv(seized, index) \in Int
  BY <1>3, <1>9, <1>11, <1>12, <1>13, DDivType
<1> QED BY <1>6, <1>10, <1>14

\* The repaid pool gives up the dx that is sold, whether or not it is the pool
\* of the collateral.
LEMMA SoldSound ==
  ASSUME Books, NEW b \in Tokens, NEW Q, Sound(Q, Env(b)), Q.dx_supply = pools[b].dx_supply,
         NEW repaid, repaid = [pools EXCEPT ![b] = Q],
         NEW c \in Tokens, NEW dx \in Nat, dx <= pools[c].dx_supply,
         CanRemoveLiquidity(repaid[c], Env(c), dx),
         NEW R, R = RemoveLiquidity(repaid[c], Env(c), dx),
         pools' = [repaid EXCEPT ![c] = R], epoch' = epoch
  PROVE  /\ PoolsSound'
         /\ pools'[c].dx_supply = pools[c].dx_supply - dx
         /\ \A t \in Tokens : t # c => pools'[t].dx_supply = pools[t].dx_supply
         /\ pools'[b].variable_loan_share_quantity = Q.variable_loan_share_quantity
         /\ \A t \in Tokens : t # b => pools'[t].variable_loan_share_quantity
                                         = pools[t].variable_loan_share_quantity
<1>1. pools \in [Tokens -> Pool] /\ Q \in Pool
  BY DEF Books, Sound
<1>2. \A t \in Tokens : repaid[t] = IF t = b THEN Q ELSE pools[t]
  BY <1>1
<1>3. \A t \in Tokens : /\ Sound(repaid[t], Env(t))
                        /\ repaid[t].dx_supply = pools[t].dx_supply
  <2> TAKE t \in Tokens
  <2>1. CASE t = b
    BY <1>2, <2>1
  <2>2. CASE t # b
    BY <1>2, <2>2, PoolSound
  <2> QED BY <2>1, <2>2
<1>4. Env(c) \in Environment
  BY PoolSound
<1>5. /\ Sound(R, Env(c))
      /\ R.dx_supply = repaid[c].dx_supply - dx
      /\ R.variable_loan_share_quantity = repaid[c].variable_loan_share_quantity
  <2> DEFINE P == repaid[c]
  <2>1. Sound(P, Env(c)) /\ dx <= P.dx_supply /\ CanRemoveLiquidity(P, Env(c), dx)
        /\ R = RemoveLiquidity(P, Env(c), dx)
    BY <1>3
  <2> HIDE DEF P
  <2>2. /\ Sound(R, Env(c))
        /\ R.dx_supply = P.dx_supply - dx
        /\ R.variable_loan_share_quantity = P.variable_loan_share_quantity
    BY <1>4, <2>1, RemoveLiquiditySound
  <2> QED BY <2>2 DEF P
<1>6. \A t \in Tokens : pools'[t] = IF t = c THEN R ELSE repaid[t]
  BY <1>1
<1>7. pools' \in [Tokens -> Pool]
  <2>1. repaid \in [Tokens -> Pool] /\ R \in Pool
    BY <1>1, <1>5 DEF Sound
  <2> QED BY <2>1
<1>8. \A t \in Tokens : pools'[t].last_update <= epoch
  <2> TAKE t \in Tokens
  <2>1. Env(t).now = epoch
    BY EnvType DEF Books
  <2>2. Sound(pools'[t], Env(t))
    BY <1>3, <1>5, <1>6
  <2> QED BY <2>1, <2>2 DEF Sound
<1>9. PoolsSound'
  BY <1>7, <1>8 DEF PoolsSound
<1>10. \A t \in Tokens : pools'[t].variable_loan_share_quantity
                           = repaid[t].variable_loan_share_quantity
  BY <1>5, <1>6
<1>11. pools'[c].dx_supply = pools[c].dx_supply - dx
  BY <1>3, <1>5, <1>6
<1>12. ASSUME NEW t \in Tokens, t # c
       PROVE  pools'[t].dx_supply = pools[t].dx_supply
  <2>1. pools'[t] = repaid[t]
    BY <1>6, <1>12
  <2> QED BY <1>3, <2>1
<1>13. pools'[b].variable_loan_share_quantity = Q.variable_loan_share_quantity
  <2>1. repaid[b] = Q
    BY <1>2
  <2> QED BY <1>10, <2>1
<1>14. ASSUME NEW t \in Tokens, t # b
       PROVE  pools'[t].variable_loan_share_quantity = pools[t].variable_loan_share_quantity
  <2>1. repaid[t] = pools[t]
    BY <1>2, <1>14
  <2> QED BY <1>10, <2>1
<1> QED BY <1>9, <1>11, <1>12, <1>13, <1>14

\* What changes CDP i by a repayment and by the sale of dx.
LEMMA SaleStep ==
  ASSUME Books, PoolsSound', epoch' = epoch,
         NEW i \in Ids, NEW b \in Tokens, cdps[i].borrow_token = b,
         NEW c \in Tokens, cdps[i].collateral_token = c,
         NEW y \in CollateralDebtPosition, y.last_update_epoch <= epoch,
         y.borrow_token = b, y.collateral_token = c,
         y.collateral_amount = cdps[i].collateral_amount,
         NEW dx \in Nat, dx <= collateral_vaults[c],
         NEW x, x = Release(y, dx), cdps' = [cdps EXCEPT ![i] = x],
         NEW v, v = collateral_vaults[c] - dx,
         collateral_vaults' = [collateral_vaults EXCEPT ![c] = v],
         pools'[c].dx_supply = pools[c].dx_supply - dx,
         \A t \in Tokens : t # c => pools'[t].dx_supply = pools[t].dx_supply,
         pools'[b].variable_loan_share_quantity
           = pools[b].variable_loan_share_quantity
             + (y.normalized_borrow - cdps[i].normalized_borrow),
         \A t \in Tokens : t # b => pools'[t].variable_loan_share_quantity
                                      = pools[t].variable_loan_share_quantity
  PROVE  Books'
<1>1. /\ x \in CollateralDebtPosition
      /\ x.last_update_epoch = y.last_update_epoch
      /\ x.borrow_token = y.borrow_token
      /\ x.collateral_token = y.collateral_token
      /\ x.normalized_borrow = y.normalized_borrow
      /\ x.collateral_amount = y.collateral_amount - dx
  BY ReleaseSound
<1>2. /\ collateral_vaults[c] \in Nat /\ pools[c].dx_supply \in Nat
      /\ collateral_vaults[c] <= pools[c].dx_supply
  BY BookedType
<1>3. v \in Nat /\ v <= pools'[c].dx_supply
  BY <1>2
<1>4. v >= collateral_vaults[c] + (x.collateral_amount - cdps[i].collateral_amount)
  <2>1. y.collateral_amount \in Int
    BY CdpType
  <2> QED BY <1>1, <1>2, <2>1
<1>5. ASSUME NEW t \in Tokens
      PROVE  pools'[t].variable_loan_share_quantity
               = pools[t].variable_loan_share_quantity
                 + (IF x.borrow_token = t
                    THEN x.normalized_borrow - cdps[i].normalized_borrow ELSE 0)
  <2>1. pools[t].variable_loan_share_quantity \in Int
    BY BookedType
  <2>2. CASE t = b
    BY <1>1, <2>2
  <2>3. CASE t # b
    BY <1>1, <2>1, <2>3
  <2> QED BY <2>2, <2>3
<1>6. /\ x.last_update_epoch <= epoch
      /\ x.borrow_token = cdps[i].borrow_token
      /\ x.collateral_token = cdps[i].collateral_token
      /\ x.collateral_token = c
  BY <1>1
<1> QED BY <1>1, <1>3, <1>4, <1>5, <1>6, CollateralChangedStep, ZenonT(40)

LEMMA LiquidationStep ==
  ASSUME IInv, NEW i \in Pledged, NEW bucket \in Nat, NEW cover \in Nat,
         NEW bp \in Nat, NEW cp \in Nat, Liquidation(i, bucket, cover, bp, cp)
  PROVE  IInv'
<1> DEFINE b      == cdps[i].borrow_token
           c      == cdps[i].collateral_token
           terms  == LiquidationTerms(i, cover, bp, cp)
           debt   == terms.debt
           dx     == terms.dx
           Q      == PoolRepaid(i, bucket, debt)
           repaid == [pools EXCEPT ![b] = Q]
           R      == RemoveLiquidity(repaid[c], Env(c), dx)
           y      == CdpRepaid(i, bucket, debt)
           x      == Release(y, dx)
           v      == collateral_vaults[c] - dx
<1>1. i \in Ids /\ c \in Tokens
  BY PledgedToken DEF IInv
<1>2. /\ CanLiquidate(i, bp, cp)
      /\ CanRepay(i, bucket, debt)
      /\ Takeable(dx, Config[c].share_unit) /\ dx <= collateral_vaults[c]
      /\ CanRemoveLiquidity(repaid[c], Env(c), dx)
      /\ pools' = [repaid EXCEPT ![c] = R]
      /\ collateral_vaults' = [collateral_vaults EXCEPT ![c] = v]
      /\ cdps' = [cdps EXCEPT ![i] = x]
      /\ UNCHANGED <<cdp_vault, close_factor_percent, flashloans,
                     transient_id_counter, epoch, price>>
  <2> HIDE DEF R, x
  <2> QED BY DEF Liquidation, CanSell, PoolsAndCdps, R, x
<1>3. debt \in Int /\ dx \in Int
  BY <1>2, LiquidationTermsType DEF IInv, Frame
<1> HIDE DEF terms, debt, dx
<1>4. dx \in Nat
  BY <1>2, <1>3 DEF Takeable
<1>5. /\ b \in Tokens /\ Sound(Q, Env(b)) /\ Q.dx_supply = pools[b].dx_supply
      /\ y \in CollateralDebtPosition /\ y.last_update_epoch <= epoch
      /\ y.borrow_token = b /\ y.collateral_token = c
      /\ y.collateral_amount = cdps[i].collateral_amount
      /\ Q.variable_loan_share_quantity
           = pools[b].variable_loan_share_quantity
             + (y.normalized_borrow - cdps[i].normalized_borrow)
  <2>1. bucket \in Int
    OBVIOUS
  <2> QED BY <1>1, <1>2, <1>3, <2>1, RepaidSound DEF IInv
<1> HIDE DEF Q, y, x, v
<1>6. dx <= pools[c].dx_supply
  BY <1>1, <1>2, <1>4, BookedType DEF IInv
<1>7. cdps[i].borrow_token = b /\ cdps[i].collateral_token = c
  OBVIOUS
<1> HIDE DEF b, c
<1>8. repaid = [pools EXCEPT ![b] = Q] /\ R = RemoveLiquidity(repaid[c], Env(c), dx)
  OBVIOUS
<1> HIDE DEF repaid, R
<1>9. /\ PoolsSound'
      /\ pools'[c].dx_supply = pools[c].dx_supply - dx
      /\ \A t \in Tokens : t # c => pools'[t].dx_supply = pools[t].dx_supply
      /\ pools'[b].variable_loan_share_quantity = Q.variable_loan_share_quantity
      /\ \A t \in Tokens : t # b => pools'[t].variable_loan_share_quantity
                                      = pools[t].variable_loan_share_quantity
  <2>1. Books /\ epoch' = epoch /\ b \in Tokens /\ Sound(Q, Env(b))
        /\ Q.dx_supply = pools[b].dx_supply
        /\ pools' = [repaid EXCEPT ![c] = R]
        /\ CanRemoveLiquidity(repaid[c], Env(c), dx)
    BY <1>2, <1>5 DEF IInv
  <2> QED BY <1>1, <1>4, <1>6, <1>8, <2>1, SoldSound, Zenon
<1>10. Books'
  <2>1. /\ x = Release(y, dx) /\ v = collateral_vaults[c] - dx
        /\ Books /\ epoch' = epoch
        /\ y \in CollateralDebtPosition /\ y.last_update_epoch <= epoch
        /\ y.borrow_token = b /\ y.collateral_token = c
        /\ y.collateral_amount = cdps[i].collateral_amount
        /\ cdps' = [cdps EXCEPT ![i] = x]
        /\ collateral_vaults' = [collateral_vaults EXCEPT ![c] = v]
        /\ b \in Tokens /\ dx <= collateral_vaults[c]
        /\ pools'[b].variable_loan_share_quantity
             = pools[b].variable_loan_share_quantity
               + (y.normalized_borrow - cdps[i].normalized_borrow)
    BY <1>2, <1>5, <1>9 DEF IInv, x, v
  <2> QED BY <1>1, <1>4, <1>7, <1>9, <2>1, SaleStep, ZenonT(60)
<1>11. ops' \in Nat /\ Len(cdps') >= Len(cdps)
  BY <1>2, CallCounted DEF IInv, Books, Liquidation
<1>12. Frame'
  BY <1>2, <1>10, <1>11, FrameKept DEF IInv
<1> QED BY <1>10, <1>12 DEF IInv

-----------------------------------------------------------------------------
(* The remaining steps *)

LEMMA SetCloseFactorStep ==
  ASSUME IInv, NEW percent \in Nat, SetCloseFactor(percent)
  PROVE  IInv'
<1>1. /\ close_factor_percent' = percent
      /\ UNCHANGED <<pools, cdps, cdp_vault, collateral_vaults, flashloans,
                     transient_id_counter, epoch, price>>
  BY DEF SetCloseFactor
<1>2. PoolsSound' /\ ops' \in Nat
  BY <1>1, CallCounted DEF IInv, Books, NotInFuture, PoolsSound, SetCloseFactor
<1>3. Books'
  <2>1. \A t \in Tokens : /\ pools'[t].variable_loan_share_quantity
                               = pools[t].variable_loan_share_quantity
                          /\ collateral_vaults[t] <= pools'[t].dx_supply
    BY <1>1, BookedType DEF IInv
  <2> QED BY <1>1, <1>2, <2>1, BooksKept DEF IInv
<1> QED BY <1>1, <1>2, <1>3 DEF IInv, Frame, Ids

\* Time passes: what was not in the future still is not.
LEMMA TickStep ==
  ASSUME IInv, NEW n \in Nat, Tick(n)
  PROVE  IInv'
<1>1. /\ epoch' = epoch + n
      /\ UNCHANGED <<pools, cdps, cdp_vault, collateral_vaults, close_factor_percent,
                     flashloans, transient_id_counter, price, ops>>
  BY DEF Tick
<1>2. NotInFuture'
  <2>1. ASSUME NEW t \in Tokens PROVE pools'[t].last_update <= epoch'
    <3>1. /\ pools[t].last_update <= epoch /\ epoch \in Nat
          /\ pools[t].last_update \in Nat
      BY DEF IInv, Books, NotInFuture, Pool
    <3> QED BY <1>1, <3>1
  <2>2. ASSUME NEW i \in Ids' PROVE cdps'[i].last_update_epoch <= epoch'
    <3>1. i \in Ids
      BY <1>1 DEF Ids
    <3>2. /\ cdps[i].last_update_epoch <= epoch /\ epoch \in Nat
          /\ cdps[i].last_update_epoch \in Nat
      BY <3>1, CdpKnown, CdpType DEF IInv, Books
    <3> QED BY <1>1, <3>2
  <2> QED BY <2>1, <2>2 DEF NotInFuture
<1>3. ShareBook' /\ CollateralBook'
  BY <1>1, BooksOfClaims, BooksOfClaimsNext DEF IInv, Books
<1>4. Books'
  BY <1>1, <1>2, <1>3 DEF IInv, Books
<1> QED BY <1>1, <1>4 DEF IInv, Frame, Ids

LEMMA PriceMoveStep ==
  ASSUME IInv, NEW t \in Tokens, NEW p \in Prices[t], PriceMove(t, p)
  PROVE  IInv'
<1>1. /\ price' = [price EXCEPT ![t] = p]
      /\ UNCHANGED <<pools, cdps, cdp_vault, collateral_vaults, close_factor_percent,
                     flashloans, transient_id_counter, epoch, ops>>
  BY DEF PriceMove
<1>2. p \in Nat \ {0}
  BY ManagerAssumption
<1>3. price' \in [Tokens -> Nat \ {0}]
  BY <1>1, <1>2 DEF IInv, Frame
<1>4. PoolsSound'
  BY <1>1 DEF IInv, Books, NotInFuture, PoolsSound
<1>5. Books'
  <2>1. \A u \in Tokens : /\ pools'[u].variable_loan_share_quantity
                               = pools[u].variable_loan_share_quantity
                          /\ collateral_vaults[u] <= pools'[u].dx_supply
    BY <1>1, BookedType DEF IInv
  <2> QED BY <1>1, <1>4, <2>1, BooksKept DEF IInv
<1> QED BY <1>1, <1>3, <1>5 DEF IInv, Frame, Ids

LEMMA StutterStep ==
  ASSUME IInv, UNCHANGED vars
  PROVE  IInv'
<1>1. /\ PoolsSound'
      /\ UNCHANGED <<pools, cdps, cdp_vault, collateral_vaults, close_factor_percent,
                     flashloans, transient_id_counter, epoch, price, ops>>
  BY DEF vars, IInv, Books, NotInFuture, PoolsSound
<1>2. Books'
  <2>1. \A u \in Tokens : /\ pools'[u].variable_loan_share_quantity
                               = pools[u].variable_loan_share_quantity
                          /\ collateral_vaults[u] <= pools'[u].dx_supply
    BY <1>1, BookedType DEF IInv
  <2> QED BY <1>1, <2>1, BooksKept DEF IInv
<1> QED BY <1>1, <1>2 DEF IInv, Frame, Ids

-----------------------------------------------------------------------------
(* The invariant *)

LEMMA QuotesType ==
  ASSUME Frame, NEW t \in Tokens
  PROVE  Quotes(t) \subseteq Nat
  BY DecimalsAssumption DEF Frame, Quotes

LEMMA InitInv == Init => IInv
<1> SUFFICES ASSUME Init PROVE IInv
  OBVIOUS
<1>1. /\ pools = [t \in Tokens |-> NewPool(InitialLiquidity[t])]
      /\ cdps = <<>> /\ cdp_vault = {} /\ collateral_vaults = [t \in Tokens |-> 0]
      /\ close_factor_percent = 50 * ONE /\ flashloans = {}
      /\ transient_id_counter = 0 /\ epoch = 0 /\ ops = 0
  BY DEF Init
<1>2. \A t \in Tokens : /\ pools[t] \in Pool /\ pools[t].last_update = 0
                        /\ pools[t].variable_loan_share_quantity = 0
                        /\ pools[t].dx_supply \in Nat
  BY <1>1, ManagerAssumption, DecimalsAssumption DEF NewPool, Pool
<1>3. /\ pools \in [Tokens -> Pool] /\ collateral_vaults \in [Tokens -> Nat]
      /\ cdps \in Seq(CollateralDebtPosition) /\ Len(cdps) = 0 /\ epoch \in Nat
  BY <1>1, <1>2
<1>4. NotInFuture
  BY <1>1, <1>2, <1>3 DEF NotInFuture, Ids
<1>5. \A t \in Tokens : Sum(SharesIn(cdps, t)) = 0 /\ Sum(DxIn(cdps, t)) = 0
  BY <1>3, ClaimsType, SumType
<1>6. ShareBook /\ CollateralBook
  BY <1>1, <1>2, <1>5, BooksOfClaims
<1>7. Books
  BY <1>3, <1>4, <1>6 DEF Books
<1>8. price \in [Tokens -> Nat \ {0}]
  BY ManagerAssumption DEF Init
<1>9. Frame
  BY <1>1, <1>8, DecimalsAssumption DEF Frame
<1> QED BY <1>7, <1>9 DEF IInv

LEMMA NextInv == IInv /\ [Next]_vars => IInv'
<1> SUFFICES ASSUME IInv, [Next]_vars PROVE IInv'
  OBVIOUS
<1>1. ASSUME NEW a \in Arguments, NEW n \in Inputs[a] PROVE n \in Nat
  BY ManagerAssumption
<1>2. /\ \A t \in Tokens : \A n \in Inputs["supply"] : Supply(t, n) => IInv'
      /\ \A t \in Tokens : \A n \in Inputs["withdraw"] : Withdraw(t, n) => IInv'
  BY <1>1, SupplyStep, WithdrawStep DEF Arguments
<1>3. DepositStep => IInv'
  BY <1>2 DEF DepositStep
<1>4. LoanStep => IInv'
  <2>1. ASSUME NEW m \in Markets, NEW dx \in Inputs["collateral"],
               NEW amount \in Inputs["variable"], BorrowVariable(m[1], m[2], dx, amount)
        PROVE  IInv'
    <3>1. m[1] \in Tokens /\ m[2] \in Tokens
      BY ManagerAssumption
    <3>2. dx \in Nat /\ amount \in Nat
      BY <1>1 DEF Arguments
    <3> QED BY <2>1, <3>1, <3>2, BorrowVariableStep
  <2>2. ASSUME NEW m \in Markets, NEW dx \in Inputs["collateral"],
               NEW amount \in Inputs["stable"], BorrowStable(m[1], m[2], dx, amount)
        PROVE  IInv'
    <3>1. m[1] \in Tokens /\ m[2] \in Tokens
      BY ManagerAssumption
    <3>2. dx \in Nat /\ amount \in Nat
      BY <1>1 DEF Arguments
    <3> QED BY <2>2, <3>1, <3>2, BorrowStableStep
  <2>3. ASSUME NEW i \in Pledged, NEW amount \in Inputs["extend"],
               ExtendVariable(i, amount) \/ ExtendStable(i, amount)
        PROVE  IInv'
    <3>1. amount \in Nat
      BY <1>1 DEF Arguments
    <3> QED BY <2>3, <3>1, ExtendVariableStep, ExtendStableStep
  <2> QED BY <2>1, <2>2, <2>3 DEF LoanStep
<1>5. CollateralStep => IInv'
  <2>1. ASSUME NEW i \in Pledged, NEW n \in Inputs["withdraw_collateral"],
               WithdrawCollateral(i, n)
        PROVE  IInv'
    BY <1>1, <2>1, WithdrawCollateralStep DEF Arguments
  <2>2. ASSUME NEW i \in Pledged, NEW n \in Inputs["addition_dx"], AddCollateralDx(i, n)
        PROVE  IInv'
    BY <1>1, <2>2, AddCollateralDxStep DEF Arguments
  <2>3. ASSUME NEW i \in Pledged, NEW n \in Inputs["addition"], AddCollateral(i, n)
        PROVE  IInv'
    BY <1>1, <2>3, AddCollateralStep DEF Arguments
  <2> QED BY <2>1, <2>2, <2>3 DEF CollateralStep
<1>6. RepayStep => IInv'
  <2>1. ASSUME NEW i \in Live, NEW n \in Inputs["repay"], Repay(i, n)
        PROVE  IInv'
    <3>1. i \in Ids
      BY DEF Live, Pledged, IInv, Frame
    <3>2. n \in Nat
      BY <1>1 DEF Arguments
    <3> QED BY <2>1, <3>1, <3>2, RepayCallStep
  <2>2. ASSUME NEW i \in Pledged, NEW n \in Inputs["repay"], NEW cover \in Inputs["cover"],
               NEW bp \in Quotes(cdps[i].borrow_token),
               NEW cp \in Quotes(cdps[i].collateral_token),
               Liquidation(i, n, cover, bp, cp)
        PROVE  IInv'
    <3>1. cdps[i].borrow_token \in Tokens /\ cdps[i].collateral_token \in Tokens
      BY PledgedToken, CdpKnown, CdpType DEF IInv
    <3>2. bp \in Nat /\ cp \in Nat
      BY <3>1, QuotesType DEF IInv
    <3>3. n \in Nat /\ cover \in Nat
      BY <1>1 DEF Arguments
    <3> QED BY <2>2, <3>2, <3>3, LiquidationStep
  <2> QED BY <2>1, <2>2 DEF RepayStep
<1>7. StakingStep => IInv'
  <2>1. ASSUME NEW claim \in Inputs["claim"], NEW amount \in Inputs["principal"],
               StakingBorrow(amount, InterestRate(pools[XRD], Env(XRD), claim).stable, claim)
        PROVE  IInv'
    <3>1. claim \in Nat /\ amount \in Nat
      BY <1>1 DEF Arguments
    <3>2. InterestRate(pools[XRD], Env(XRD), claim).stable \in Int
      <4>1. XRD \in Tokens
        BY ManagerAssumption
      <4>2. Sound(pools[XRD], Env(XRD)) /\ Env(XRD) \in Environment
        BY <4>1, PoolSound DEF IInv
      <4> QED BY <3>1, <4>2, InterestRateType DEF Rates
    <3> QED BY <2>1, <3>1, <3>2, StakingBorrowStep
  <2>2. ASSUME NEW i \in cdp_vault, NEW n \in Inputs["claim"], StakingRepay(i, n)
        PROVE  IInv'
    <3>1. n \in Nat
      BY <1>1 DEF Arguments
    <3> QED BY <2>2, <3>1, StakingRepayStep
  <2> QED BY <2>1, <2>2 DEF StakingStep
<1>8. PoolStep => IInv'
  <2>1. ASSUME NEW t \in Tokens, NEW n \in Inputs["flashloan"], BorrowFlashloan(t, n)
        PROVE  IInv'
    BY <1>1, <2>1, BorrowFlashloanStep DEF Arguments
  <2>2. ASSUME NEW t \in Tokens, NEW n \in Inputs["insurance"], WithdrawInsurance(t, n)
        PROVE  IInv'
    BY <1>1, <2>2, WithdrawInsuranceStep DEF Arguments
  <2>3. ASSUME NEW f \in flashloans, RepayFlashloan(f)
        PROVE  IInv'
    BY <2>3, RepayFlashloanStep
  <2>4. ASSUME NEW n \in Inputs["close_factor"], SetCloseFactor(n)
        PROVE  IInv'
    BY <1>1, <2>4, SetCloseFactorStep DEF Arguments
  <2> QED BY <2>1, <2>2, <2>3, <2>4 DEF PoolStep
<1>9. WorldStep => IInv'
  <2>1. ASSUME NEW n \in Inputs["epochs"], Tick(n)
        PROVE  IInv'
    BY <1>1, <2>1, TickStep DEF Arguments
  <2> QED BY <2>1, PriceMoveStep DEF WorldStep
<1> QED BY <1>3, <1>4, <1>5, <1>6, <1>7, <1>8, <1>9, StutterStep DEF Next

\* Every reachable state satisfies the invariant.
THEOREM InvariantHolds == Spec => []IInv
  BY InitInv, NextInv, PTL DEF Spec

\* No call, in whatever order, with whatever amounts, prices and settings,
\* leaves a pool or a CDP ill formed or draws a vault below 0.
THEOREM TypeCorrect == Spec => []TypeOK
<1>1. IInv => TypeOK
  BY DEF IInv, Books, Frame, TypeOK
<1> QED BY <1>1, InvariantHolds, PTL

\* The loan shares from which a pool charges interest are those of its CDPs:
\* borrowing, extending, repaying and liquidating book the same number in both.
THEOREM ShareBookHolds == Spec => []ShareBook
<1>1. IInv => ShareBook
  BY DEF IInv, Books
<1> QED BY <1>1, InvariantHolds, PTL

\* The custody vaults cover the collateral that the CDPs record, although the
\* two are rounded apart when collateral is withdrawn, and hold no dx that was
\* never minted.
THEOREM CollateralBookHolds == Spec => []CollateralBook
<1>1. IInv => CollateralBook
  BY DEF IInv, Books
<1> QED BY <1>1, InvariantHolds, PTL
=============================================================================
