---------------------------- MODULE RegistryProofs ----------------------------
(***************************************************************************)
(* Proofs about the manager's tables when pools are replaced, for any      *)
(* tokens, settings and amounts: custody and debts stay what the CDPs say. *)
(***************************************************************************)
EXTENDS RegistryProperties, LendResourcePoolProofs

RegistryCdp ==
  [borrow_token: Tokens, collateral_token: Nat, normalized_borrow: Int, collateral_amount: Int]

Components == 1..Len(component)
CdpIds == 1..Len(cdps)

\* The tables fit together: a dx for each component, a component of its own
\* token for each token that has a pool, and CDPs of tokens and dx that are known.
TablesOK ==
  /\ epoch \in Nat
  /\ component \in Seq(Pool)
  /\ \A d \in Components : component[d].last_update <= epoch
  /\ deposit_asset_map \in Seq(Tokens) /\ Len(deposit_asset_map) = Len(component)
  /\ collateral_vaults \in Seq(Nat) /\ Len(collateral_vaults) = Len(component)
  /\ DOMAIN pools \subseteq Tokens
  /\ \A t \in DOMAIN pools : pools[t] \in Components /\ deposit_asset_map[pools[t]] = t
  /\ cdps \in Seq(RegistryCdp)
  /\ \A i \in CdpIds : cdps[i].borrow_token \in DOMAIN pools /\ cdps[i].collateral_token \in Components

RegistryInv == TablesOK /\ CustodyKept /\ LoansKept

-----------------------------------------------------------------------------
(* Sums *)

\* A sum of nothing but 0 is 0.
LEMMA SumOfZeros ==
  ASSUME NEW s \in Seq(Int), \A j \in 1..Len(s) : s[j] = 0
  PROVE  Sum(s) = 0
<1> DEFINE A == {n \in Nat : n <= Len(s) => SumFcn[n][s] = 0}
<1>0. Len(s) \in Nat
  OBVIOUS
<1>1. 0 \in A
  BY SumPrefix
<1>2. ASSUME NEW n \in A PROVE n + 1 \in A
  <2> SUFFICES ASSUME n + 1 <= Len(s) PROVE SumFcn[n + 1][s] = 0
    OBVIOUS
  <2>1. n \in Nat /\ n + 1 \in 1..Len(s) /\ n <= Len(s) /\ (n + 1) - 1 = n
    BY <1>0
  <2>2. SumFcn[n + 1][s] = SumFcn[(n + 1) - 1][s] + s[n + 1]
    BY <2>1, SumPrefix
  <2>3. SumFcn[n][s] = 0 /\ s[n + 1] = 0
    BY <2>1
  <2> QED BY <2>1, <2>2, <2>3
<1>3. A = Nat
  <2>1. A \in SUBSET Nat
    OBVIOUS
  <2> HIDE DEF A
  <2> QED BY <1>1, <1>2, <2>1, SetInduction
<1> QED BY <1>0, <1>3 DEF Sum

\* What the books add up are integers.
LEMMA BooksType ==
  ASSUME TablesOK
  PROVE  /\ \A d : PledgedOf(d) \in Seq(Int) /\ Len(PledgedOf(d)) = Len(cdps)
         /\ \A t : SharesOwed(t) \in Seq(Int) /\ Len(SharesOwed(t)) = Len(cdps)
         /\ \A t : SharesLent(t) \in Seq(Int) /\ Len(SharesLent(t)) = Len(component)
         /\ \A d : Sum(PledgedOf(d)) \in Int
         /\ \A t : Sum(SharesOwed(t)) \in Int /\ Sum(SharesLent(t)) \in Int
<1>1. \A i \in CdpIds : cdps[i].collateral_amount \in Int /\ cdps[i].normalized_borrow \in Int
  <2> TAKE i \in CdpIds
  <2>1. cdps[i] \in RegistryCdp
    BY DEF TablesOK, CdpIds
  <2> QED BY <2>1 DEF RegistryCdp
<1>2. \A d \in Components : component[d].variable_loan_share_quantity \in Int
  <2> TAKE d \in Components
  <2>1. component[d] \in Pool
    BY DEF TablesOK, Components
  <2> QED BY <2>1 DEF Pool
<1>3. Len(cdps) \in Nat /\ Len(component) \in Nat
  BY DEF TablesOK
<1>4. \A d : PledgedOf(d) \in Seq(Int) /\ Len(PledgedOf(d)) = Len(cdps)
  BY <1>1, <1>3 DEF PledgedOf, CdpIds
<1>5. \A t : SharesOwed(t) \in Seq(Int) /\ Len(SharesOwed(t)) = Len(cdps)
  BY <1>1, <1>3 DEF SharesOwed, CdpIds
<1>6. \A t : SharesLent(t) \in Seq(Int) /\ Len(SharesLent(t)) = Len(component)
  BY <1>2, <1>3 DEF SharesLent, Components
<1>7. \A d : Sum(PledgedOf(d)) \in Int
  BY <1>4, SumType
<1>8. \A t : Sum(SharesOwed(t)) \in Int /\ Sum(SharesLent(t)) \in Int
  BY <1>5, <1>6, SumType
<1> QED BY <1>4, <1>5, <1>6, <1>7, <1>8

-----------------------------------------------------------------------------
(* What a component, a CDP and a vault changed do to the tables and the sums *)

LEMMA EnvType ==
  ASSUME TablesOK, NEW d \in Components
  PROVE  /\ deposit_asset_map[d] \in Tokens
         /\ Env(deposit_asset_map[d]) \in Environment
         /\ Config[deposit_asset_map[d]] \in PoolConfig
         /\ Sound(component[d], Env(deposit_asset_map[d]))
<1>1. deposit_asset_map[d] \in Tokens /\ component[d] \in Pool /\ epoch \in Nat
  BY DEF TablesOK, Components
<1>2. ValidatorApy \in Nat /\ Config[deposit_asset_map[d]] \in PoolConfig
  BY <1>1, RegistryAssumption
<1>3. component[d].last_update <= epoch
  BY DEF TablesOK
<1> QED BY <1>1, <1>2, <1>3 DEF Env, Environment, Sound

\* A method of component d, of token t, leaves Q.
LEMMA ComponentChanged ==
  ASSUME TablesOK, NEW d \in Components, NEW Q, Sound(Q, Env(deposit_asset_map[d])),
         component' = [component EXCEPT ![d] = Q],
         deposit_asset_map' = deposit_asset_map, pools' = pools, epoch' = epoch
  PROVE  /\ component' \in Seq(Pool) /\ Len(component') = Len(component)
         /\ component'[d] = Q
         /\ \A c \in Components : c # d => component'[c] = component[c]
         /\ \A c \in Components : component'[c].last_update <= epoch'
         /\ \A t \in Tokens :
              Sum(SharesLent(t))' = Sum(SharesLent(t)) +
                (IF deposit_asset_map[d] = t
                 THEN Q.variable_loan_share_quantity - component[d].variable_loan_share_quantity
                 ELSE 0)
<1>1. Q \in Pool /\ Q.last_update <= epoch
  BY DEF Sound, Env
<1>2. Q.variable_loan_share_quantity \in Int
  BY <1>1 DEF Pool
<1>3. component \in Seq(Pool) /\ d \in 1..Len(component)
  BY DEF TablesOK, Components
<1>4. /\ component' \in Seq(Pool) /\ Len(component') = Len(component)
      /\ component'[d] = Q
      /\ \A c \in Components : c # d => component'[c] = component[c]
  BY <1>1, <1>3 DEF Components
<1>5. \A c \in Components : component'[c].last_update <= epoch'
  BY <1>1, <1>4 DEF TablesOK
<1>6. ASSUME NEW t \in Tokens
      PROVE  Sum(SharesLent(t))' = Sum(SharesLent(t)) +
                (IF deposit_asset_map[d] = t
                 THEN Q.variable_loan_share_quantity - component[d].variable_loan_share_quantity
                 ELSE 0)
  <2> DEFINE s == SharesLent(t)   r == SharesLent(t)'
  <2>1. s \in Seq(Int) /\ Len(s) = Len(component)
    BY BooksType
  <2>2. r = [c \in 1..Len(component) |->
               IF deposit_asset_map[c] = t THEN component'[c].variable_loan_share_quantity ELSE 0]
    BY <1>4 DEF SharesLent
  <2>3. s = [c \in 1..Len(component) |->
               IF deposit_asset_map[c] = t THEN component[c].variable_loan_share_quantity ELSE 0]
    BY DEF SharesLent
  <2>4. \A c \in 1..Len(component) : component'[c].variable_loan_share_quantity \in Int
    <3> TAKE c \in 1..Len(component)
    <3>1. component'[c] \in Pool
      BY <1>4
    <3> QED BY <3>1 DEF Pool
  <2>5. r \in Seq(Int) /\ Len(r) = Len(component)
    BY <1>3, <2>2, <2>4
  <2>6. /\ s[d] = (IF deposit_asset_map[d] = t THEN component[d].variable_loan_share_quantity ELSE 0)
        /\ r[d] = (IF deposit_asset_map[d] = t THEN Q.variable_loan_share_quantity ELSE 0)
        /\ \A c \in 1..Len(s) : c # d => r[c] = s[c]
    BY <1>3, <1>4, <2>1, <2>2, <2>3 DEF Components
  <2> HIDE DEF s, r
  <2>7. d \in 1..Len(s) /\ Len(r) = Len(s)
    BY <1>3, <2>1, <2>5
  <2>8. Sum(r) = Sum(s) - s[d] + r[d]
    BY <2>1, <2>5, <2>6, <2>7, SumOfOneChanged
  <2>9. Sum(s) \in Int /\ component[d].variable_loan_share_quantity \in Int
    <3>1. component[d] \in Pool
      BY <1>3
    <3> QED BY <2>1, <3>1, SumType DEF Pool
  <2>10. Sum(r) = Sum(s) + (IF deposit_asset_map[d] = t
                            THEN Q.variable_loan_share_quantity - component[d].variable_loan_share_quantity
                            ELSE 0)
    BY <1>2, <2>6, <2>8, <2>9
  <2> QED BY <2>10 DEF s, r
<1> QED BY <1>4, <1>5, <1>6

\* CDP i becomes x, of the same token and dx.
LEMMA CdpChanged ==
  ASSUME TablesOK, NEW i \in CdpIds, NEW x \in RegistryCdp,
         x.borrow_token = cdps[i].borrow_token, x.collateral_token = cdps[i].collateral_token,
         cdps' = [cdps EXCEPT ![i] = x]
  PROVE  /\ cdps' \in Seq(RegistryCdp) /\ CdpIds' = CdpIds
         /\ \A j \in CdpIds : /\ cdps'[j].borrow_token = cdps[j].borrow_token
                              /\ cdps'[j].collateral_token = cdps[j].collateral_token
         /\ \A d : Sum(PledgedOf(d))' = Sum(PledgedOf(d)) +
              (IF cdps[i].collateral_token = d
               THEN x.collateral_amount - cdps[i].collateral_amount ELSE 0)
         /\ \A t : Sum(SharesOwed(t))' = Sum(SharesOwed(t)) +
              (IF cdps[i].borrow_token = t
               THEN x.normalized_borrow - cdps[i].normalized_borrow ELSE 0)
<1>1. cdps \in Seq(RegistryCdp) /\ i \in 1..Len(cdps)
  BY DEF TablesOK, CdpIds
<1>2. /\ cdps' \in Seq(RegistryCdp) /\ Len(cdps') = Len(cdps) /\ cdps'[i] = x
      /\ \A j \in 1..Len(cdps) : j # i => cdps'[j] = cdps[j]
  BY <1>1
<1>3. \A j \in 1..Len(cdps) :
        /\ cdps[j].collateral_amount \in Int /\ cdps[j].normalized_borrow \in Int
        /\ cdps'[j].collateral_amount \in Int /\ cdps'[j].normalized_borrow \in Int
  <2> TAKE j \in 1..Len(cdps)
  <2>1. cdps[j] \in RegistryCdp /\ cdps'[j] \in RegistryCdp
    BY <1>1, <1>2
  <2> QED BY <2>1 DEF RegistryCdp
<1>4. ASSUME NEW d
      PROVE  Sum(PledgedOf(d))' = Sum(PledgedOf(d)) +
              (IF cdps[i].collateral_token = d
               THEN x.collateral_amount - cdps[i].collateral_amount ELSE 0)
  <2> DEFINE s == PledgedOf(d)   r == PledgedOf(d)'
  <2>1. s \in Seq(Int) /\ Len(s) = Len(cdps)
    BY BooksType
  <2>2. r = [j \in 1..Len(cdps) |->
               IF cdps'[j].collateral_token = d THEN cdps'[j].collateral_amount ELSE 0]
    BY <1>2 DEF PledgedOf
  <2>3. r \in Seq(Int) /\ Len(r) = Len(cdps)
    BY <1>1, <1>3, <2>2
  <2>4. /\ s[i] = (IF cdps[i].collateral_token = d THEN cdps[i].collateral_amount ELSE 0)
        /\ r[i] = (IF cdps[i].collateral_token = d THEN x.collateral_amount ELSE 0)
        /\ \A j \in 1..Len(s) : j # i => r[j] = s[j]
    BY <1>1, <1>2, <2>1, <2>2 DEF PledgedOf
  <2> HIDE DEF s, r
  <2>5. i \in 1..Len(s) /\ Len(r) = Len(s)
    BY <1>1, <2>1, <2>3
  <2>6. Sum(r) = Sum(s) - s[i] + r[i]
    BY <2>1, <2>3, <2>4, <2>5, SumOfOneChanged
  <2>7. Sum(s) \in Int /\ cdps[i].collateral_amount \in Int /\ x.collateral_amount \in Int
    BY <1>1, <1>2, <1>3, <2>1, SumType
  <2>8. Sum(r) = Sum(s) + (IF cdps[i].collateral_token = d
                           THEN x.collateral_amount - cdps[i].collateral_amount ELSE 0)
    BY <2>4, <2>6, <2>7
  <2> QED BY <2>8 DEF s, r
<1>5. ASSUME NEW t
      PROVE  Sum(SharesOwed(t))' = Sum(SharesOwed(t)) +
              (IF cdps[i].borrow_token = t
               THEN x.normalized_borrow - cdps[i].normalized_borrow ELSE 0)
  <2> DEFINE s == SharesOwed(t)   r == SharesOwed(t)'
  <2>1. s \in Seq(Int) /\ Len(s) = Len(cdps)
    BY BooksType
  <2>2. r = [j \in 1..Len(cdps) |->
               IF cdps'[j].borrow_token = t THEN cdps'[j].normalized_borrow ELSE 0]
    BY <1>2 DEF SharesOwed
  <2>3. r \in Seq(Int) /\ Len(r) = Len(cdps)
    BY <1>1, <1>3, <2>2
  <2>4. /\ s[i] = (IF cdps[i].borrow_token = t THEN cdps[i].normalized_borrow ELSE 0)
        /\ r[i] = (IF cdps[i].borrow_token = t THEN x.normalized_borrow ELSE 0)
        /\ \A j \in 1..Len(s) : j # i => r[j] = s[j]
    BY <1>1, <1>2, <2>1, <2>2 DEF SharesOwed
  <2> HIDE DEF s, r
  <2>5. i \in 1..Len(s) /\ Len(r) = Len(s)
    BY <1>1, <2>1, <2>3
  <2>6. Sum(r) = Sum(s) - s[i] + r[i]
    BY <2>1, <2>3, <2>4, <2>5, SumOfOneChanged
  <2>7. Sum(s) \in Int /\ cdps[i].normalized_borrow \in Int /\ x.normalized_borrow \in Int
    BY <1>1, <1>2, <1>3, <2>1, SumType
  <2>8. Sum(r) = Sum(s) + (IF cdps[i].borrow_token = t
                           THEN x.normalized_borrow - cdps[i].normalized_borrow ELSE 0)
    BY <2>4, <2>6, <2>7
  <2> QED BY <2>8 DEF s, r
<1> QED BY <1>1, <1>2, <1>4, <1>5 DEF CdpIds

\* A CDP x is issued.
LEMMA CdpAdded ==
  ASSUME TablesOK, NEW x \in RegistryCdp, cdps' = Append(cdps, x)
  PROVE  /\ cdps' \in Seq(RegistryCdp)
         /\ \A j \in CdpIds' : (j \in CdpIds /\ cdps'[j] = cdps[j]) \/ cdps'[j] = x
         /\ \A d : Sum(PledgedOf(d))' = Sum(PledgedOf(d)) +
              (IF x.collateral_token = d THEN x.collateral_amount ELSE 0)
         /\ \A t : Sum(SharesOwed(t))' = Sum(SharesOwed(t)) +
              (IF x.borrow_token = t THEN x.normalized_borrow ELSE 0)
<1>1. cdps \in Seq(RegistryCdp) /\ Len(cdps) \in Nat
  BY DEF TablesOK
<1>2. /\ cdps' \in Seq(RegistryCdp) /\ Len(cdps') = Len(cdps) + 1 /\ cdps'[Len(cdps) + 1] = x
      /\ \A j \in 1..Len(cdps) : cdps'[j] = cdps[j]
  BY <1>1
<1>3. \A j \in 1..Len(cdps') :
        cdps'[j].collateral_amount \in Int /\ cdps'[j].normalized_borrow \in Int
  <2> TAKE j \in 1..Len(cdps')
  <2>1. cdps'[j] \in RegistryCdp
    BY <1>2
  <2> QED BY <2>1 DEF RegistryCdp
<1>4. \A j \in 1..Len(cdps') : j \in 1..Len(cdps) \/ j = Len(cdps) + 1
  BY <1>1, <1>2
<1>5. Len(cdps) + 1 \in 1..Len(cdps') /\ \A j \in 1..Len(cdps) : j \in 1..Len(cdps')
  BY <1>1, <1>2
<1>6. ASSUME NEW d
      PROVE  Sum(PledgedOf(d))' = Sum(PledgedOf(d)) +
              (IF x.collateral_token = d THEN x.collateral_amount ELSE 0)
  <2> DEFINE s == PledgedOf(d)   r == PledgedOf(d)'
  <2>1. s \in Seq(Int) /\ Len(s) = Len(cdps)
    BY BooksType
  <2>2. r = [j \in 1..Len(cdps') |->
               IF cdps'[j].collateral_token = d THEN cdps'[j].collateral_amount ELSE 0]
    BY DEF PledgedOf
  <2>3. r \in Seq(Int) /\ Len(r) = Len(cdps')
    BY <1>1, <1>2, <1>3, <2>2
  <2>4. /\ r[Len(cdps) + 1] = (IF x.collateral_token = d THEN x.collateral_amount ELSE 0)
        /\ \A j \in 1..Len(s) : r[j] = s[j]
    BY <1>2, <1>5, <2>1, <2>2 DEF PledgedOf
  <2> HIDE DEF s, r
  <2>5. Len(r) = Len(s) + 1
    BY <1>2, <2>1, <2>3
  <2>6. Sum(r) = Sum(s) + r[Len(r)]
    BY <2>1, <2>3, <2>4, <2>5, SumOfOneMore
  <2>7. Sum(r) = Sum(s) + (IF x.collateral_token = d THEN x.collateral_amount ELSE 0)
    BY <2>1, <2>4, <2>5, <2>6
  <2> QED BY <2>7 DEF s, r
<1>7. ASSUME NEW t
      PROVE  Sum(SharesOwed(t))' = Sum(SharesOwed(t)) +
              (IF x.borrow_token = t THEN x.normalized_borrow ELSE 0)
  <2> DEFINE s == SharesOwed(t)   r == SharesOwed(t)'
  <2>1. s \in Seq(Int) /\ Len(s) = Len(cdps)
    BY BooksType
  <2>2. r = [j \in 1..Len(cdps') |->
               IF cdps'[j].borrow_token = t THEN cdps'[j].normalized_borrow ELSE 0]
    BY DEF SharesOwed
  <2>3. r \in Seq(Int) /\ Len(r) = Len(cdps')
    BY <1>1, <1>2, <1>3, <2>2
  <2>4. /\ r[Len(cdps) + 1] = (IF x.borrow_token = t THEN x.normalized_borrow ELSE 0)
        /\ \A j \in 1..Len(s) : r[j] = s[j]
    BY <1>2, <1>5, <2>1, <2>2 DEF SharesOwed
  <2> HIDE DEF s, r
  <2>5. Len(r) = Len(s) + 1
    BY <1>2, <2>1, <2>3
  <2>6. Sum(r) = Sum(s) + r[Len(r)]
    BY <2>1, <2>3, <2>4, <2>5, SumOfOneMore
  <2>7. Sum(r) = Sum(s) + (IF x.borrow_token = t THEN x.normalized_borrow ELSE 0)
    BY <2>1, <2>4, <2>5, <2>6
  <2> QED BY <2>7 DEF s, r
<1> QED BY <1>2, <1>4, <1>6, <1>7 DEF CdpIds

\* What custody holds of dx d becomes v.
LEMMA VaultChanged ==
  ASSUME TablesOK, NEW d \in Components, NEW v \in Nat,
         collateral_vaults' = [collateral_vaults EXCEPT ![d] = v]
  PROVE  /\ collateral_vaults' \in Seq(Nat) /\ Len(collateral_vaults') = Len(component)
         /\ collateral_vaults'[d] = v
         /\ \A c \in Components : c # d => collateral_vaults'[c] = collateral_vaults[c]
BY DEF TablesOK, Components

\* What the numbers are that custody is about.
LEMMA CustodyType ==
  ASSUME TablesOK, NEW d \in Components
  PROVE  /\ collateral_vaults[d] \in Nat /\ component[d].dx_supply \in Nat
         /\ component[d].variable_loan_share_quantity \in Int
         /\ Sum(PledgedOf(d)) \in Int
         /\ DOMAIN component = Components
<1>1. component[d] \in Pool /\ collateral_vaults[d] \in Nat /\ DOMAIN component = Components
  BY DEF TablesOK, Components
<1>2. Sum(PledgedOf(d)) \in Int
  BY BooksType
<1> QED BY <1>1, <1>2 DEF Pool

-----------------------------------------------------------------------------
(* Steps *)

LEMMA SupplyStep ==
  ASSUME RegistryInv, NEW t \in DOMAIN pools, NEW amount \in Nat, Supply(t, amount)
  PROVE  RegistryInv'
<1> DEFINE d == pools[t]   e == Env(t)   Q == AddLiquidity(component[d], e, amount)
<1>1. TablesOK /\ d \in Components /\ deposit_asset_map[d] = t
  BY DEF RegistryInv, TablesOK
<1>2. /\ CanAddLiquidity(component[d], e, amount)
      /\ component' = [component EXCEPT ![d] = Q]
      /\ pools' = pools /\ deposit_asset_map' = deposit_asset_map
      /\ collateral_vaults' = collateral_vaults /\ cdps' = cdps /\ epoch' = epoch
  BY DEF Supply, tables
<1>3. e \in Environment /\ Sound(component[d], e)
  BY <1>1, EnvType
<1>4. /\ MintedDx(component[d], e, amount) \in Nat /\ Sound(Q, e)
      /\ Q.dx_supply = component[d].dx_supply + MintedDx(component[d], e, amount)
      /\ Q.variable_loan_share_quantity = component[d].variable_loan_share_quantity
  BY <1>2, <1>3, AddLiquiditySound
<1> HIDE DEF d, e, Q
<1>5. Sound(Q, Env(deposit_asset_map[d]))
  BY <1>1, <1>4 DEF e
<1>6. /\ component' \in Seq(Pool) /\ Len(component') = Len(component)
      /\ component'[d] = Q
      /\ \A c \in Components : c # d => component'[c] = component[c]
      /\ \A c \in Components : component'[c].last_update <= epoch'
      /\ \A u \in Tokens :
           Sum(SharesLent(u))' = Sum(SharesLent(u)) +
             (IF deposit_asset_map[d] = u
              THEN Q.variable_loan_share_quantity - component[d].variable_loan_share_quantity
              ELSE 0)
  BY <1>1, <1>2, <1>5, ComponentChanged
<1>7. TablesOK'
  BY <1>1, <1>2, <1>6 DEF TablesOK, Components, CdpIds
<1>8. CustodyKept'
  <2> SUFFICES ASSUME NEW c \in Components
               PROVE  /\ Sum(PledgedOf(c))' <= collateral_vaults'[c]
                      /\ collateral_vaults'[c] <= component'[c].dx_supply
    BY <1>6 DEF CustodyKept, Components
  <2>1. /\ Sum(PledgedOf(c)) <= collateral_vaults[c]
        /\ collateral_vaults[c] <= component[c].dx_supply
    BY <1>1, CustodyType DEF RegistryInv, CustodyKept
  <2>2. Sum(PledgedOf(c))' = Sum(PledgedOf(c))
    BY <1>2 DEF PledgedOf
  <2>3. collateral_vaults[c] \in Nat /\ component[c].dx_supply \in Nat
    BY <1>1, CustodyType
  <2>4. component'[c].dx_supply >= component[c].dx_supply
    BY <1>4, <1>6, <2>3
  <2>5. component'[c].dx_supply \in Int
    BY <1>4, <1>6, <2>3
  <2> QED BY <1>2, <2>1, <2>2, <2>3, <2>4, <2>5
<1>9. LoansKept'
  <2> SUFFICES ASSUME NEW u \in Tokens PROVE Sum(SharesLent(u))' = Sum(SharesOwed(u))'
    BY DEF LoansKept
  <2>1. Sum(SharesLent(u)) = Sum(SharesOwed(u)) /\ Sum(SharesLent(u)) \in Int
    BY <1>1, BooksType DEF RegistryInv, LoansKept
  <2>2. Sum(SharesOwed(u))' = Sum(SharesOwed(u))
    BY <1>2 DEF SharesOwed
  <2>3. component[d].variable_loan_share_quantity \in Int
    BY <1>1, CustodyType
  <2>4. Sum(SharesLent(u))' = Sum(SharesLent(u))
    BY <1>4, <1>6, <2>1, <2>3
  <2> QED BY <2>1, <2>2, <2>4
<1> QED BY <1>7, <1>8, <1>9 DEF RegistryInv

\* The dx redeemed is not in custody.
LEMMA RedeemedLeaves ==
  ASSUME RegistryInv, NEW d \in Components, NEW dx \in Nat,
         dx <= component[d].dx_supply, CanRedeem(d, dx),
         component' = Redeemed(d, dx),
         deposit_asset_map' = deposit_asset_map, pools' = pools, epoch' = epoch
  PROVE  /\ component' \in Seq(Pool) /\ Len(component') = Len(component)
         /\ component'[d].dx_supply = component[d].dx_supply - dx
         /\ \A c \in Components : c # d => component'[c] = component[c]
         /\ \A c \in Components : component'[c].last_update <= epoch'
         /\ \A t \in Tokens : Sum(SharesLent(t))' = Sum(SharesLent(t))
<1> DEFINE e == Env(deposit_asset_map[d])   Q == RemoveLiquidity(component[d], e, dx)
<1>1. TablesOK
  BY DEF RegistryInv
<1>2. e \in Environment /\ Sound(component[d], e)
  BY <1>1, EnvType
<1>3. CanRemoveLiquidity(component[d], e, dx) /\ component' = [component EXCEPT ![d] = Q]
  BY DEF CanRedeem, Redeemed
<1>4. /\ Sound(Q, e) /\ Q.dx_supply = component[d].dx_supply - dx
      /\ Q.variable_loan_share_quantity = component[d].variable_loan_share_quantity
  BY <1>2, <1>3, RemoveLiquiditySound
<1> HIDE DEF Q
<1>5. Sound(Q, Env(deposit_asset_map[d]))
  BY <1>4
<1> HIDE DEF e
<1>6. /\ component' \in Seq(Pool) /\ Len(component') = Len(component)
      /\ component'[d] = Q
      /\ \A c \in Components : c # d => component'[c] = component[c]
      /\ \A c \in Components : component'[c].last_update <= epoch'
      /\ \A u \in Tokens :
           Sum(SharesLent(u))' = Sum(SharesLent(u)) +
             (IF deposit_asset_map[d] = u
              THEN Q.variable_loan_share_quantity - component[d].variable_loan_share_quantity
              ELSE 0)
  BY <1>1, <1>3, <1>5, ComponentChanged
<1>7. ASSUME NEW t \in Tokens PROVE Sum(SharesLent(t))' = Sum(SharesLent(t))
  <2>1. Sum(SharesLent(t)) \in Int /\ component[d].variable_loan_share_quantity \in Int
    BY <1>1, BooksType, CustodyType
  <2> QED BY <1>4, <1>6, <2>1
<1> QED BY <1>4, <1>6, <1>7

LEMMA WithdrawStep ==
  ASSUME RegistryInv, NEW d \in Components, NEW dx \in Nat, Withdraw(d, dx)
  PROVE  RegistryInv'
<1>1. /\ TablesOK /\ dx <= FreeDx(d) /\ CanRedeem(d, dx) /\ component' = Redeemed(d, dx)
      /\ pools' = pools /\ deposit_asset_map' = deposit_asset_map
      /\ collateral_vaults' = collateral_vaults /\ cdps' = cdps /\ epoch' = epoch
  BY DEF RegistryInv, Withdraw, tables
<1>2. collateral_vaults[d] \in Nat /\ component[d].dx_supply \in Nat
  BY <1>1, CustodyType
<1>3. dx <= component[d].dx_supply
  BY <1>1, <1>2 DEF FreeDx
<1>4. /\ component' \in Seq(Pool) /\ Len(component') = Len(component)
      /\ component'[d].dx_supply = component[d].dx_supply - dx
      /\ \A c \in Components : c # d => component'[c] = component[c]
      /\ \A c \in Components : component'[c].last_update <= epoch'
      /\ \A t \in Tokens : Sum(SharesLent(t))' = Sum(SharesLent(t))
  BY <1>1, <1>3, RedeemedLeaves
<1>5. TablesOK'
  BY <1>1, <1>4 DEF TablesOK, Components, CdpIds
<1>6. CustodyKept'
  <2> SUFFICES ASSUME NEW c \in Components
               PROVE  /\ Sum(PledgedOf(c))' <= collateral_vaults'[c]
                      /\ collateral_vaults'[c] <= component'[c].dx_supply
    BY <1>4 DEF CustodyKept, Components
  <2>1. /\ Sum(PledgedOf(c)) <= collateral_vaults[c]
        /\ collateral_vaults[c] <= component[c].dx_supply
    BY <1>1, CustodyType DEF RegistryInv, CustodyKept
  <2>2. Sum(PledgedOf(c))' = Sum(PledgedOf(c))
    BY <1>1 DEF PledgedOf
  <2>3. c = d => collateral_vaults[c] <= component'[c].dx_supply
    BY <1>1, <1>2, <1>4 DEF FreeDx
  <2>4. c # d => component'[c] = component[c]
    BY <1>4
  <2>5. collateral_vaults'[c] = collateral_vaults[c]
    BY <1>1
  <2> QED BY <2>1, <2>2, <2>3, <2>4, <2>5
<1>7. LoansKept'
  <2>1. \A t : Sum(SharesOwed(t))' = Sum(SharesOwed(t))
    BY <1>1 DEF SharesOwed
  <2> QED BY <1>4, <2>1 DEF RegistryInv, LoansKept
<1> QED BY <1>5, <1>6, <1>7 DEF RegistryInv

LEMMA NewPoolType ==
  ASSUME NEW liquidity \in Nat
  PROVE  /\ NewPool(liquidity) \in Pool /\ NewPool(liquidity).last_update = 0
         /\ NewPool(liquidity).dx_supply = liquidity
         /\ NewPool(liquidity).variable_loan_share_quantity = 0
BY DecimalsAssumption DEF NewPool, Pool

\* A component that is added has lent nothing and has nothing in custody.
LEMMA RegisterPoolStep ==
  ASSUME RegistryInv, NEW t \in Tokens, RegisterPool(t)
  PROVE  RegistryInv'
<1> DEFINE n == Len(component)   P == NewPool(0)
<1>1. /\ TablesOK
      /\ component' = Append(component, P)
      /\ pools' = [u \in DOMAIN pools \cup {t} |-> IF u = t THEN n + 1 ELSE pools[u]]
      /\ deposit_asset_map' = Append(deposit_asset_map, t)
      /\ collateral_vaults' = Append(collateral_vaults, 0)
      /\ cdps' = cdps /\ epoch' = epoch
  BY DEF RegistryInv, RegisterPool
<1>2. P \in Pool /\ P.last_update = 0 /\ P.dx_supply = 0 /\ P.variable_loan_share_quantity = 0
  BY NewPoolType
<1> HIDE DEF P
<1>3. /\ component \in Seq(Pool) /\ n \in Nat /\ epoch \in Nat
      /\ deposit_asset_map \in Seq(Tokens) /\ Len(deposit_asset_map) = n
      /\ collateral_vaults \in Seq(Nat) /\ Len(collateral_vaults) = n
  BY <1>1 DEF TablesOK
<1>4. /\ component' \in Seq(Pool) /\ Len(component') = n + 1 /\ component'[n + 1] = P
      /\ \A c \in 1..n : component'[c] = component[c]
  BY <1>1, <1>2, <1>3
<1>5. /\ deposit_asset_map' \in Seq(Tokens) /\ Len(deposit_asset_map') = n + 1
      /\ deposit_asset_map'[n + 1] = t
      /\ \A c \in 1..n : deposit_asset_map'[c] = deposit_asset_map[c]
  BY <1>1, <1>3
<1>6. /\ collateral_vaults' \in Seq(Nat) /\ Len(collateral_vaults') = n + 1
      /\ collateral_vaults'[n + 1] = 0
      /\ \A c \in 1..n : collateral_vaults'[c] = collateral_vaults[c]
  BY <1>1, <1>3
<1>7. Components = 1..n /\ Components' = 1..(n + 1) /\ CdpIds' = CdpIds
  BY <1>1, <1>4 DEF Components, CdpIds
<1> HIDE DEF n
<1>8. \A c \in 1..(n + 1) : c \in 1..n \/ c = n + 1
  BY <1>3
<1>9. TablesOK'
  <2>1. \A c \in 1..(n + 1) : component'[c].last_update <= epoch'
    BY <1>1, <1>2, <1>3, <1>4, <1>7, <1>8 DEF TablesOK
  <2>2. DOMAIN pools' \subseteq Tokens
    BY <1>1 DEF TablesOK
  <2>3. \A u \in DOMAIN pools' :
          pools'[u] \in 1..(n + 1) /\ deposit_asset_map'[pools'[u]] = u
    <3> TAKE u \in DOMAIN pools'
    <3>1. n + 1 \in 1..(n + 1) /\ \A c \in 1..n : c \in 1..(n + 1)
      BY <1>3
    <3>2. CASE u = t
      BY <1>1, <1>5, <3>1, <3>2
    <3>3. CASE u # t
      <4>1. u \in DOMAIN pools /\ pools'[u] = pools[u]
        BY <1>1, <3>3
      <4>2. pools[u] \in 1..n /\ deposit_asset_map[pools[u]] = u
        BY <1>1, <1>7, <4>1 DEF TablesOK
      <4> QED BY <1>5, <3>1, <4>1, <4>2
    <3> QED BY <3>2, <3>3
  <2>4. \A i \in CdpIds : cdps'[i].borrow_token \in DOMAIN pools'
                          /\ cdps'[i].collateral_token \in 1..(n + 1)
    <3> TAKE i \in CdpIds
    <3>1. cdps[i].borrow_token \in DOMAIN pools /\ cdps[i].collateral_token \in 1..n
      BY <1>1, <1>7 DEF TablesOK
    <3>2. cdps[i].collateral_token \in 1..(n + 1)
      BY <1>3, <3>1
    <3> QED BY <1>1, <3>1, <3>2
  <2>5. cdps' \in Seq(RegistryCdp) /\ epoch' \in Nat
    BY <1>1 DEF TablesOK
  <2> QED BY <1>4, <1>5, <1>6, <1>7, <2>1, <2>2, <2>3, <2>4, <2>5 DEF TablesOK
<1>10. CustodyKept'
  <2> SUFFICES ASSUME NEW c \in 1..(n + 1)
               PROVE  /\ Sum(PledgedOf(c))' <= collateral_vaults'[c]
                      /\ collateral_vaults'[c] <= component'[c].dx_supply
    BY <1>4 DEF CustodyKept
  <2>1. Sum(PledgedOf(c))' = Sum(PledgedOf(c))
    BY <1>1 DEF PledgedOf
  <2>2. CASE c \in 1..n
    <3>1. c \in DOMAIN component
      BY <1>1, <1>7, <2>2, CustodyType
    <3> QED BY <1>4, <1>6, <2>1, <2>2, <3>1 DEF RegistryInv, CustodyKept
  <2>3. CASE c = n + 1
    <3>1. \A i \in 1..Len(cdps) : cdps[i].collateral_token # c
      <4>1. \A i \in 1..Len(cdps) : cdps[i].collateral_token \in 1..n
        BY <1>1, <1>7 DEF TablesOK, CdpIds
      <4>2. n + 1 \notin 1..n
        BY <1>3
      <4> QED BY <2>3, <4>1, <4>2
    <3>2. PledgedOf(c) \in Seq(Int) /\ \A i \in 1..Len(PledgedOf(c)) : PledgedOf(c)[i] = 0
      <4>1. PledgedOf(c) \in Seq(Int) /\ Len(PledgedOf(c)) = Len(cdps)
        BY <1>1, BooksType
      <4> QED BY <3>1, <4>1 DEF PledgedOf
    <3>3. Sum(PledgedOf(c)) = 0
      BY <3>2, SumOfZeros
    <3> QED BY <1>2, <1>4, <1>6, <2>1, <2>3, <3>3
  <2> QED BY <1>8, <2>2, <2>3
<1>11. LoansKept'
  <2> SUFFICES ASSUME NEW u \in Tokens PROVE Sum(SharesLent(u))' = Sum(SharesOwed(u))'
    BY DEF LoansKept
  <2>1. Sum(SharesOwed(u))' = Sum(SharesOwed(u))
    BY <1>1 DEF SharesOwed
  <2> DEFINE s == SharesLent(u)   r == SharesLent(u)'
  <2>2. s \in Seq(Int) /\ Len(s) = n
    BY <1>1, BooksType DEF n
  <2>3. r = [c \in 1..(n + 1) |-> IF deposit_asset_map'[c] = u
                                  THEN component'[c].variable_loan_share_quantity ELSE 0]
    BY <1>4 DEF SharesLent
  <2>4. s = [c \in 1..n |-> IF deposit_asset_map[c] = u
                            THEN component[c].variable_loan_share_quantity ELSE 0]
    BY DEF SharesLent, n
  <2>5. \A c \in 1..(n + 1) : component'[c].variable_loan_share_quantity \in Int
    <3> TAKE c \in 1..(n + 1)
    <3>1. component'[c] \in Pool
      BY <1>4
    <3> QED BY <3>1 DEF Pool
  <2>6. r \in Seq(Int) /\ Len(r) = n + 1
    BY <1>3, <2>3, <2>5
  <2>7. r[n + 1] = 0 /\ \A c \in 1..n : r[c] = s[c]
    <3>1. n + 1 \in 1..(n + 1) /\ \A c \in 1..n : c \in 1..(n + 1)
      BY <1>3
    <3> QED BY <1>2, <1>4, <1>5, <2>3, <2>4, <3>1
  <2> HIDE DEF s, r
  <2>8. Sum(r) = Sum(s) + r[Len(r)]
    BY <2>2, <2>6, <2>7, SumOfOneMore
  <2>9. Sum(s) \in Int
    BY <2>2, SumType
  <2>10. Sum(r) = Sum(s)
    BY <2>6, <2>7, <2>8, <2>9
  <2>11. Sum(s) = Sum(SharesOwed(u))
    BY DEF RegistryInv, LoansKept, s
  <2> QED BY <2>1, <2>10, <2>11 DEF r
<1> QED BY <1>9, <1>10, <1>11 DEF RegistryInv

LEMMA BorrowVariableStep ==
  ASSUME RegistryInv, NEW d \in Components, NEW b \in DOMAIN pools, NEW dx \in Nat,
         NEW amount \in Nat, BorrowVariable(d, b, dx, amount)
  PROVE  RegistryInv'
<1> DEFINE p == pools[b]   e == Env(b)   shares == SharesFor(component[p], e, amount)
           Q == PoolBorrowVariable(component[p], e, amount)
           x == [borrow_token |-> b, collateral_token |-> d,
                 normalized_borrow |-> shares, collateral_amount |-> dx]
           v == collateral_vaults[d] + dx
<1>1. TablesOK /\ p \in Components /\ deposit_asset_map[p] = b /\ b \in Tokens
  BY DEF RegistryInv, TablesOK
<1>2. /\ CanBorrowVariable(component[p], e, amount) /\ dx <= FreeDx(d)
      /\ component' = [component EXCEPT ![p] = Q]
      /\ collateral_vaults' = [collateral_vaults EXCEPT ![d] = v]
      /\ cdps' = Append(cdps, x)
      /\ pools' = pools /\ deposit_asset_map' = deposit_asset_map /\ epoch' = epoch
  BY DEF BorrowVariable, InCustody, tables
<1>3. e \in Environment /\ Sound(component[p], e)
  BY <1>1, EnvType
<1>4. /\ shares \in Int /\ Sound(Q, e) /\ Q.dx_supply = component[p].dx_supply
      /\ Q.variable_loan_share_quantity = component[p].variable_loan_share_quantity + shares
  BY <1>2, <1>3, BorrowVariableSound
<1>5. collateral_vaults[d] \in Nat /\ component[d].dx_supply \in Nat /\ v \in Nat
  BY <1>1, CustodyType
<1>6. Sound(Q, Env(deposit_asset_map[p]))
  BY <1>1, <1>4
<1> HIDE DEF shares, Q, e
<1>7. x \in RegistryCdp
  BY <1>1, <1>4 DEF RegistryCdp, Components
<1>8. /\ x.collateral_token = d /\ x.collateral_amount = dx
      /\ x.borrow_token = b /\ x.normalized_borrow = shares
  OBVIOUS
<1> HIDE DEF x, p, v
<1>9. /\ component' \in Seq(Pool) /\ Len(component') = Len(component)
      /\ component'[p] = Q
      /\ \A c \in Components : c # p => component'[c] = component[c]
      /\ \A c \in Components : component'[c].last_update <= epoch'
      /\ \A u \in Tokens :
           Sum(SharesLent(u))' = Sum(SharesLent(u)) +
             (IF deposit_asset_map[p] = u
              THEN Q.variable_loan_share_quantity - component[p].variable_loan_share_quantity
              ELSE 0)
  BY <1>1, <1>2, <1>6, ComponentChanged
<1>10. /\ cdps' \in Seq(RegistryCdp)
       /\ \A j \in CdpIds' : (j \in CdpIds /\ cdps'[j] = cdps[j]) \/ cdps'[j] = x
       /\ \A c : Sum(PledgedOf(c))' = Sum(PledgedOf(c)) +
            (IF x.collateral_token = c THEN x.collateral_amount ELSE 0)
       /\ \A u : Sum(SharesOwed(u))' = Sum(SharesOwed(u)) +
            (IF x.borrow_token = u THEN x.normalized_borrow ELSE 0)
  BY <1>1, <1>2, <1>7, CdpAdded
<1>11. /\ collateral_vaults' \in Seq(Nat) /\ Len(collateral_vaults') = Len(component)
       /\ collateral_vaults'[d] = v
       /\ \A c \in Components : c # d => collateral_vaults'[c] = collateral_vaults[c]
  BY <1>1, <1>2, <1>5, VaultChanged
<1>12. Components' = Components
  BY <1>9 DEF Components
<1>13. TablesOK'
  <2>1. \A i \in CdpIds' : cdps'[i].borrow_token \in DOMAIN pools'
                           /\ cdps'[i].collateral_token \in Components'
    BY <1>1, <1>2, <1>8, <1>10, <1>12, ZenonT(40) DEF TablesOK
  <2>2. /\ epoch' \in Nat /\ deposit_asset_map' \in Seq(Tokens)
        /\ Len(deposit_asset_map') = Len(component')
        /\ DOMAIN pools' \subseteq Tokens
        /\ \A t \in DOMAIN pools' : pools'[t] \in Components'
                                    /\ deposit_asset_map'[pools'[t]] = t
    BY <1>1, <1>2, <1>9, <1>12 DEF TablesOK
  <2> QED BY <1>9, <1>10, <1>11, <1>12, <2>1, <2>2 DEF TablesOK
<1>14. CustodyKept'
  <2> SUFFICES ASSUME NEW c \in Components
               PROVE  /\ Sum(PledgedOf(c))' <= collateral_vaults'[c]
                      /\ collateral_vaults'[c] <= component'[c].dx_supply
    BY <1>9, <1>12 DEF CustodyKept, Components
  <2>1. /\ Sum(PledgedOf(c)) <= collateral_vaults[c]
        /\ collateral_vaults[c] <= component[c].dx_supply
    BY <1>1, CustodyType DEF RegistryInv, CustodyKept
  <2>2. /\ Sum(PledgedOf(c)) \in Int /\ collateral_vaults[c] \in Nat
        /\ component[c].dx_supply \in Nat
    BY <1>1, CustodyType
  <2>3. component'[c].dx_supply = component[c].dx_supply
    BY <1>4, <1>9
  <2>4. CASE c = d
    <3>1. collateral_vaults'[c] = collateral_vaults[c] + dx
      BY <1>11, <2>4 DEF v
    <3>2. Sum(PledgedOf(c))' = Sum(PledgedOf(c)) + dx
      BY <1>8, <1>10, <2>4
    <3>3. collateral_vaults[c] + dx <= component[c].dx_supply
      <4>1. dx <= component[d].dx_supply - collateral_vaults[d]
        BY <1>2 DEF FreeDx
      <4> QED BY <1>5, <2>4, <4>1
    <3> QED BY <2>1, <2>2, <2>3, <3>1, <3>2, <3>3
  <2>5. CASE c # d
    <3>1. collateral_vaults'[c] = collateral_vaults[c]
      BY <1>11, <2>5
    <3>2. Sum(PledgedOf(c))' = Sum(PledgedOf(c))
      BY <1>8, <1>10, <2>2, <2>5
    <3> QED BY <2>1, <2>3, <3>1, <3>2
  <2> QED BY <2>4, <2>5
<1>15. LoansKept'
  <2> SUFFICES ASSUME NEW u \in Tokens PROVE Sum(SharesLent(u))' = Sum(SharesOwed(u))'
    BY DEF LoansKept
  <2>1. Sum(SharesLent(u)) = Sum(SharesOwed(u)) /\ Sum(SharesLent(u)) \in Int
    BY <1>1, BooksType DEF RegistryInv, LoansKept
  <2>2. component[p].variable_loan_share_quantity \in Int
    BY <1>1, CustodyType DEF p
  <2>3. deposit_asset_map[p] = b
    BY <1>1 DEF p
  <2>4. Sum(SharesLent(u))' = Sum(SharesLent(u)) + (IF b = u THEN shares ELSE 0)
    BY <1>4, <1>9, <2>2, <2>3
  <2>5. Sum(SharesOwed(u))' = Sum(SharesOwed(u)) + (IF b = u THEN shares ELSE 0)
    BY <1>8, <1>10
  <2> QED BY <2>1, <2>4, <2>5
<1> QED BY <1>13, <1>14, <1>15 DEF RegistryInv

\* A repayment lowers the shares of the CDP and of the present component alike.
LEMMA RepayStep ==
  ASSUME RegistryInv, NEW i \in CdpIds, NEW bucket \in Nat, Repay(i, bucket)
  PROVE  RegistryInv'
<1> DEFINE b == cdps[i].borrow_token   p == pools[b]   e == Env(b)   P == component[p]
           shares == cdps[i].normalized_borrow
           paid   == VariablePayment(P, e, bucket, shares, bucket)
           gone   == SharesRepaid(P, e, paid, shares)
           Q      == PoolRepayVariable(P, e, bucket, shares, bucket)
           x      == Repaid(cdps[i], gone)
<1>1. /\ TablesOK /\ cdps[i] \in RegistryCdp /\ b \in DOMAIN pools
      /\ p \in Components /\ deposit_asset_map[p] = b /\ b \in Tokens
  BY DEF RegistryInv, TablesOK, CdpIds
<1>2. /\ CanRepayVariable(P, e, bucket, shares, bucket)
      /\ component' = [component EXCEPT ![p] = Q]
      /\ cdps' = [cdps EXCEPT ![i] = x]
      /\ collateral_vaults' = collateral_vaults
      /\ pools' = pools /\ deposit_asset_map' = deposit_asset_map /\ epoch' = epoch
  BY DEF Repay, tables
<1>3. e \in Environment /\ Sound(P, e)
  BY <1>1, EnvType
<1>4. shares \in Int
  BY <1>1 DEF RegistryCdp
<1>5. /\ gone \in Int /\ Sound(Q, e) /\ Q.dx_supply = P.dx_supply
      /\ Q.variable_loan_share_quantity = P.variable_loan_share_quantity - gone
  <2> HIDE DEF b, e, P, shares
  <2> QED BY <1>2, <1>3, <1>4, RepayVariableSound
<1>6. Sound(Q, Env(deposit_asset_map[p]))
  BY <1>1, <1>5
<1> HIDE DEF gone, paid, Q, e
<1>7. /\ x \in RegistryCdp
      /\ x.borrow_token = cdps[i].borrow_token /\ x.collateral_token = cdps[i].collateral_token
      /\ x.collateral_amount = cdps[i].collateral_amount
      /\ x.normalized_borrow = cdps[i].normalized_borrow - gone
  <2> DEFINE cdp == cdps[i]
  <2>1. cdp \in RegistryCdp /\ gone \in Int /\ x = [cdp EXCEPT !.normalized_borrow = @ - gone]
    BY <1>1, <1>5 DEF Repaid
  <2> HIDE DEF cdp, x
  <2>2. /\ x \in RegistryCdp
        /\ x.borrow_token = cdp.borrow_token /\ x.collateral_token = cdp.collateral_token
        /\ x.collateral_amount = cdp.collateral_amount
        /\ x.normalized_borrow = cdp.normalized_borrow - gone
    BY <2>1 DEF RegistryCdp
  <2> QED BY <2>2 DEF cdp
<1> HIDE DEF x
<1>8. /\ component' \in Seq(Pool) /\ Len(component') = Len(component)
      /\ component'[p] = Q
      /\ \A c \in Components : c # p => component'[c] = component[c]
      /\ \A c \in Components : component'[c].last_update <= epoch'
      /\ \A u \in Tokens :
           Sum(SharesLent(u))' = Sum(SharesLent(u)) +
             (IF deposit_asset_map[p] = u
              THEN Q.variable_loan_share_quantity - component[p].variable_loan_share_quantity
              ELSE 0)
  <2> HIDE DEF p
  <2> QED BY <1>1, <1>2, <1>6, ComponentChanged
<1>9. /\ cdps' \in Seq(RegistryCdp) /\ CdpIds' = CdpIds
      /\ \A j \in CdpIds : /\ cdps'[j].borrow_token = cdps[j].borrow_token
                           /\ cdps'[j].collateral_token = cdps[j].collateral_token
      /\ \A d : Sum(PledgedOf(d))' = Sum(PledgedOf(d)) +
           (IF cdps[i].collateral_token = d
            THEN x.collateral_amount - cdps[i].collateral_amount ELSE 0)
      /\ \A t : Sum(SharesOwed(t))' = Sum(SharesOwed(t)) +
           (IF cdps[i].borrow_token = t
            THEN x.normalized_borrow - cdps[i].normalized_borrow ELSE 0)
  BY <1>1, <1>2, <1>7, CdpChanged
<1>10. Components' = Components
  BY <1>8 DEF Components
<1>11. TablesOK'
  BY <1>1, <1>2, <1>8, <1>9, <1>10 DEF TablesOK
<1>12. CustodyKept'
  <2> SUFFICES ASSUME NEW c \in Components
               PROVE  /\ Sum(PledgedOf(c))' <= collateral_vaults'[c]
                      /\ collateral_vaults'[c] <= component'[c].dx_supply
    BY <1>8, <1>10 DEF CustodyKept, Components
  <2>1. /\ Sum(PledgedOf(c)) <= collateral_vaults[c]
        /\ collateral_vaults[c] <= component[c].dx_supply
        /\ Sum(PledgedOf(c)) \in Int
    BY <1>1, CustodyType DEF RegistryInv, CustodyKept
  <2>2. cdps[i].collateral_amount \in Int
    BY <1>1 DEF RegistryCdp
  <2>3. Sum(PledgedOf(c))' = Sum(PledgedOf(c))
    BY <1>7, <1>9, <2>1, <2>2
  <2>4. component'[c].dx_supply = component[c].dx_supply
    BY <1>5, <1>8
  <2> QED BY <1>2, <2>1, <2>3, <2>4
<1>13. LoansKept'
  <2> SUFFICES ASSUME NEW u \in Tokens PROVE Sum(SharesLent(u))' = Sum(SharesOwed(u))'
    BY DEF LoansKept
  <2>1. Sum(SharesLent(u)) = Sum(SharesOwed(u)) /\ Sum(SharesLent(u)) \in Int
    BY <1>1, BooksType DEF RegistryInv, LoansKept
  <2>2. component[p].variable_loan_share_quantity \in Int
    BY <1>1, CustodyType
  <2>3. Sum(SharesLent(u))' = Sum(SharesLent(u)) + (IF b = u THEN -gone ELSE 0)
    BY <1>1, <1>5, <1>8, <2>2
  <2>4. Sum(SharesOwed(u))' = Sum(SharesOwed(u)) + (IF b = u THEN -gone ELSE 0)
    BY <1>4, <1>5, <1>7, <1>9
  <2> QED BY <2>1, <2>3, <2>4
<1> QED BY <1>11, <1>12, <1>13 DEF RegistryInv

\* The CDP gives up at least the dx that leaves custody.
LEMMA WithdrawCollateralStep ==
  ASSUME RegistryInv, NEW i \in CdpIds, NEW amount \in Nat, WithdrawCollateral(i, amount)
  PROVE  RegistryInv'
<1> DEFINE d    == cdps[i].collateral_token
           c    == deposit_asset_map[d]
           unit == Config[c].share_unit
           idx  == SupplyIndex(component[PoolOf(d)], Env(c))
           dxs  == DDiv(amount, idx)
           took == FloorTo(dxs, unit)
           dx   == CeilTo(dxs, unit)
           cdp  == cdps[i]
           x    == [cdp EXCEPT !.collateral_amount = @ - dx]
           v    == collateral_vaults[d] - took
<1>1. /\ idx # 0 /\ Takeable(took, unit) /\ took <= collateral_vaults[d]
      /\ CanRedeem(d, took)
      /\ component' = Redeemed(d, took)
      /\ collateral_vaults' = [collateral_vaults EXCEPT ![d] = v]
      /\ cdps' = [cdps EXCEPT ![i] = x]
      /\ pools' = pools /\ deposit_asset_map' = deposit_asset_map /\ epoch' = epoch
  <2>1. cdps' = [cdps EXCEPT ![i].collateral_amount = @ - dx]
    BY Zenon DEF WithdrawCollateral
  <2>2. cdps' = [cdps EXCEPT ![i] = x]
    BY <2>1
  <2> QED BY <2>2, Zenon DEF WithdrawCollateral, tables
<1>2. TablesOK /\ cdp \in RegistryCdp /\ d \in Components
  BY DEF RegistryInv, TablesOK, CdpIds
<1>3. /\ c \in Tokens /\ Env(c) \in Environment /\ Config[c] \in PoolConfig
      /\ Sound(component[d], Env(c))
  BY <1>2, EnvType, SMTT(30)
<1>4. PoolOf(d) = d
  BY <1>1 DEF CanRedeem
<1>5. unit \in Nat \ {0} /\ idx \in Int
  BY <1>3, <1>4, IndexType DEF PoolConfig
<1> HIDE DEF idx, unit
<1>6. dxs \in Int
  BY <1>1, <1>5, DDivType
<1> HIDE DEF dxs
<1>7. /\ took \in Int /\ took <= dxs
      /\ dx \in Int /\ dxs <= dx
  BY <1>5, <1>6, FloorToBounds, CeilToBounds
<1>8. took \in Nat /\ took <= dx
  <2>1. took >= 0
    BY <1>1 DEF Takeable
  <2> HIDE DEF took, dx
  <2> QED BY <1>6, <1>7, <2>1
<1> HIDE DEF took, dx
<1>9. collateral_vaults[d] \in Nat /\ component[d].dx_supply \in Nat /\ v \in Nat
  BY <1>1, <1>2, <1>8, CustodyType
<1>10. took <= component[d].dx_supply
  <2>1. collateral_vaults[d] <= component[d].dx_supply
    BY <1>2, CustodyType DEF RegistryInv, CustodyKept
  <2> QED BY <1>1, <1>8, <1>9, <2>1
<1>11. /\ x \in RegistryCdp
       /\ x.borrow_token = cdp.borrow_token /\ x.collateral_token = cdp.collateral_token
       /\ x.collateral_amount = cdp.collateral_amount - dx
       /\ x.normalized_borrow = cdp.normalized_borrow
  <2> HIDE DEF cdp, d
  <2> QED BY <1>2, <1>7 DEF RegistryCdp
<1> HIDE DEF x, v
<1>12. /\ component' \in Seq(Pool) /\ Len(component') = Len(component)
       /\ component'[d].dx_supply = component[d].dx_supply - took
       /\ \A e \in Components : e # d => component'[e] = component[e]
       /\ \A e \in Components : component'[e].last_update <= epoch'
       /\ \A t \in Tokens : Sum(SharesLent(t))' = Sum(SharesLent(t))
  <2> HIDE DEF d
  <2> QED BY <1>1, <1>2, <1>8, <1>10, RedeemedLeaves
<1>13. /\ cdps' \in Seq(RegistryCdp) /\ CdpIds' = CdpIds
       /\ \A j \in CdpIds : /\ cdps'[j].borrow_token = cdps[j].borrow_token
                            /\ cdps'[j].collateral_token = cdps[j].collateral_token
       /\ \A e : Sum(PledgedOf(e))' = Sum(PledgedOf(e)) +
            (IF cdps[i].collateral_token = e
             THEN x.collateral_amount - cdps[i].collateral_amount ELSE 0)
       /\ \A t : Sum(SharesOwed(t))' = Sum(SharesOwed(t)) +
            (IF cdps[i].borrow_token = t
             THEN x.normalized_borrow - cdps[i].normalized_borrow ELSE 0)
  BY <1>1, <1>2, <1>11, CdpChanged
<1>14. /\ collateral_vaults' \in Seq(Nat) /\ Len(collateral_vaults') = Len(component)
       /\ collateral_vaults'[d] = v
       /\ \A e \in Components : e # d => collateral_vaults'[e] = collateral_vaults[e]
  <2> HIDE DEF d
  <2> QED BY <1>1, <1>2, <1>9, VaultChanged
<1>15. Components' = Components
  BY <1>12 DEF Components
<1>16. TablesOK'
  BY <1>1, <1>2, <1>12, <1>13, <1>14, <1>15 DEF TablesOK
<1>17. CustodyKept'
  <2> SUFFICES ASSUME NEW e \in Components
               PROVE  /\ Sum(PledgedOf(e))' <= collateral_vaults'[e]
                      /\ collateral_vaults'[e] <= component'[e].dx_supply
    BY <1>12, <1>15 DEF CustodyKept, Components
  <2>1. /\ Sum(PledgedOf(e)) <= collateral_vaults[e]
        /\ collateral_vaults[e] <= component[e].dx_supply
    BY <1>2, CustodyType DEF RegistryInv, CustodyKept
  <2>2. /\ Sum(PledgedOf(e)) \in Int /\ collateral_vaults[e] \in Nat
        /\ component[e].dx_supply \in Nat
    BY <1>2, CustodyType
  <2>3. cdp.collateral_amount \in Int
    BY <1>2 DEF RegistryCdp
  <2>4. CASE e = d
    <3>1. collateral_vaults'[e] = collateral_vaults[e] - took
      BY <1>14, <2>4 DEF v
    <3>2. Sum(PledgedOf(e))' = Sum(PledgedOf(e)) - dx
      BY <1>7, <1>11, <1>13, <2>2, <2>3, <2>4
    <3>3. component'[e].dx_supply = component[e].dx_supply - took
      BY <1>12, <2>4
    <3> QED BY <1>7, <1>8, <2>1, <2>2, <3>1, <3>2, <3>3
  <2>5. CASE e # d
    <3>1. collateral_vaults'[e] = collateral_vaults[e] /\ component'[e] = component[e]
      BY <1>12, <1>14, <2>5
    <3>2. Sum(PledgedOf(e))' = Sum(PledgedOf(e))
      BY <1>13, <2>2, <2>5
    <3> QED BY <2>1, <3>1, <3>2
  <2> QED BY <2>4, <2>5
<1>18. LoansKept'
  <2> SUFFICES ASSUME NEW u \in Tokens PROVE Sum(SharesLent(u))' = Sum(SharesOwed(u))'
    BY DEF LoansKept
  <2>1. Sum(SharesLent(u)) = Sum(SharesOwed(u)) /\ Sum(SharesOwed(u)) \in Int
    BY <1>2, BooksType DEF RegistryInv, LoansKept
  <2>2. cdp.normalized_borrow \in Int
    BY <1>2 DEF RegistryCdp
  <2>3. Sum(SharesOwed(u))' = Sum(SharesOwed(u))
    BY <1>11, <1>13, <2>1, <2>2
  <2> QED BY <1>12, <2>1, <2>3
<1> QED BY <1>16, <1>17, <1>18 DEF RegistryInv

LEMMA TickStep ==
  ASSUME RegistryInv, Tick
  PROVE  RegistryInv'
<1>1. /\ TablesOK /\ epoch' = epoch + 1 /\ component' = component
      /\ pools' = pools /\ deposit_asset_map' = deposit_asset_map
      /\ collateral_vaults' = collateral_vaults /\ cdps' = cdps
  BY DEF RegistryInv, Tick, tables
<1>2. epoch' \in Nat /\ \A d \in Components : component[d].last_update <= epoch'
  <2>1. \A d \in Components : component[d].last_update \in Nat /\ component[d].last_update <= epoch
    <3> TAKE d \in Components
    <3>1. component[d] \in Pool
      BY <1>1 DEF TablesOK, Components
    <3> QED BY <1>1, <3>1 DEF Pool, TablesOK
  <2>2. epoch \in Nat /\ epoch' = epoch + 1
    BY <1>1 DEF TablesOK
  <2> QED BY <2>1, <2>2
<1>3. TablesOK'
  BY <1>1, <1>2 DEF TablesOK, Components, CdpIds
<1>4. CustodyKept' /\ LoansKept'
  BY <1>1 DEF RegistryInv, CustodyKept, LoansKept, PledgedOf, SharesLent, SharesOwed
<1> QED BY <1>3, <1>4 DEF RegistryInv

-----------------------------------------------------------------------------
(* Theorems *)

LEMMA RegistryInit == Init => RegistryInv
<1> SUFFICES ASSUME Init PROVE RegistryInv
  OBVIOUS
<1> DEFINE n == Len(FirstPools)
<1>1. /\ FirstPools \in Seq(Tokens) /\ n \in Nat /\ DOMAIN FirstPools = 1..n
      /\ InitialLiquidity \in Nat
  BY RegistryAssumption
<1> DEFINE P == NewPool(InitialLiquidity)
<1>2. /\ P \in Pool /\ P.last_update = 0 /\ P.dx_supply = InitialLiquidity
      /\ P.variable_loan_share_quantity = 0
  BY <1>1, NewPoolType
<1> HIDE DEF P
<1>3. /\ component = [p \in 1..n |-> P] /\ deposit_asset_map = FirstPools
      /\ collateral_vaults = [p \in 1..n |-> 0] /\ cdps = <<>> /\ epoch = 0
      /\ pools = [t \in Range(FirstPools) |-> CHOOSE p \in DOMAIN FirstPools : FirstPools[p] = t]
  BY <1>1 DEF Init, P
<1>4. /\ component \in Seq(Pool) /\ Len(component) = n
      /\ collateral_vaults \in Seq(Nat) /\ Len(collateral_vaults) = n
  BY <1>1, <1>2, <1>3
<1>5. Components = 1..n /\ CdpIds = {} /\ Len(cdps) = 0
  BY <1>3, <1>4 DEF Components, CdpIds
<1>6. DOMAIN pools \subseteq Tokens
      /\ \A t \in DOMAIN pools : pools[t] \in 1..n /\ FirstPools[pools[t]] = t
  <2>1. \A p \in 1..n : FirstPools[p] \in Tokens
    BY <1>1
  <2>2. DOMAIN pools = {FirstPools[p] : p \in 1..n}
    BY <1>1, <1>3 DEF Range
  <2>3. \A t \in DOMAIN pools : \E p \in 1..n : FirstPools[p] = t
    BY <2>2
  <2>4. \A t \in DOMAIN pools : pools[t] = CHOOSE p \in 1..n : FirstPools[p] = t
    BY <1>1, <1>3
  <2> QED BY <2>1, <2>2, <2>3, <2>4
<1>7. TablesOK
  <2>1. \A d \in 1..n : component[d].last_update <= epoch
    BY <1>2, <1>3
  <2>2. epoch \in Nat /\ cdps \in Seq(RegistryCdp)
    BY <1>3
  <2>3. /\ deposit_asset_map \in Seq(Tokens) /\ Len(deposit_asset_map) = n
        /\ \A t \in DOMAIN pools : pools[t] \in 1..n /\ deposit_asset_map[pools[t]] = t
    BY <1>1, <1>3, <1>6
  <2> QED BY <1>4, <1>5, <1>6, <2>1, <2>2, <2>3 DEF TablesOK
<1>8. CustodyKept
  <2> SUFFICES ASSUME NEW d \in 1..n
               PROVE  Sum(PledgedOf(d)) <= collateral_vaults[d]
                      /\ collateral_vaults[d] <= component[d].dx_supply
    BY <1>4 DEF CustodyKept
  <2>1. PledgedOf(d) \in Seq(Int) /\ Len(PledgedOf(d)) = 0
    BY <1>5, <1>7, BooksType
  <2>2. Sum(PledgedOf(d)) = 0
    BY <2>1, SumType
  <2> QED BY <1>1, <1>2, <1>3, <2>2
<1>9. LoansKept
  <2> SUFFICES ASSUME NEW t \in Tokens PROVE Sum(SharesLent(t)) = Sum(SharesOwed(t))
    BY DEF LoansKept
  <2>1. SharesOwed(t) \in Seq(Int) /\ Len(SharesOwed(t)) = 0
    BY <1>5, <1>7, BooksType
  <2>2. Sum(SharesOwed(t)) = 0
    BY <2>1, SumType
  <2>3. SharesLent(t) \in Seq(Int) /\ Len(SharesLent(t)) = n
    BY <1>4, <1>7, BooksType
  <2>4. \A d \in 1..Len(SharesLent(t)) : SharesLent(t)[d] = 0
    BY <1>2, <1>3, <1>4, <2>3 DEF SharesLent
  <2>5. Sum(SharesLent(t)) = 0
    BY <2>3, <2>4, SumOfZeros
  <2> QED BY <2>2, <2>5
<1> QED BY <1>7, <1>8, <1>9 DEF RegistryInv

LEMMA RegistryNext == RegistryInv /\ [Next]_vars => RegistryInv'
<1> SUFFICES ASSUME RegistryInv, [Next]_vars PROVE RegistryInv'
  OBVIOUS
<1>1. /\ Supplies \subseteq Nat /\ Withdrawals \subseteq Nat /\ Collaterals \subseteq Nat
      /\ Loans \subseteq Nat /\ Repayments \subseteq Nat /\ Releases \subseteq Nat
  BY RegistryAssumption
<1>2. DOMAIN component = Components /\ DOMAIN cdps = CdpIds
  BY DEF RegistryInv, TablesOK, Components, CdpIds
<1>3. ASSUME NEW t \in Tokens, RegisterPool(t) PROVE RegistryInv'
  BY <1>3, RegisterPoolStep
<1>4. ASSUME NEW t \in DOMAIN pools, NEW amount \in Supplies, Supply(t, amount)
      PROVE  RegistryInv'
  BY <1>1, <1>4, SupplyStep
<1>5. ASSUME NEW d \in DOMAIN component, NEW dx \in Withdrawals, Withdraw(d, dx)
      PROVE  RegistryInv'
  BY <1>1, <1>2, <1>5, WithdrawStep
<1>6. ASSUME NEW d \in DOMAIN component, NEW b \in DOMAIN pools, NEW dx \in Collaterals,
             NEW amount \in Loans, BorrowVariable(d, b, dx, amount)
      PROVE  RegistryInv'
  BY <1>1, <1>2, <1>6, BorrowVariableStep
<1>7. ASSUME NEW i \in DOMAIN cdps, NEW bucket \in Repayments, Repay(i, bucket)
      PROVE  RegistryInv'
  BY <1>1, <1>2, <1>7, RepayStep
<1>8. ASSUME NEW i \in DOMAIN cdps, NEW amount \in Releases, WithdrawCollateral(i, amount)
      PROVE  RegistryInv'
  BY <1>1, <1>2, <1>8, WithdrawCollateralStep
<1>9. ASSUME Tick PROVE RegistryInv'
  BY <1>9, TickStep
<1>10. CASE UNCHANGED vars
  BY <1>10 DEF vars, RegistryInv, TablesOK, Components, CdpIds, CustodyKept, LoansKept,
     PledgedOf, SharesLent, SharesOwed
<1> QED BY <1>3, <1>4, <1>5, <1>6, <1>7, <1>8, <1>9, <1>10 DEF Next

\* The tables fit together, however often pools are replaced.
THEOREM TablesFit == Spec => []TablesOK
<1>1. RegistryInv => TablesOK
  BY DEF RegistryInv
<1> QED BY <1>1, RegistryInit, RegistryNext, PTL DEF Spec

\* Each dx in custody is all there, for the CDPs that pledged it, whether its
\* pool is in use or replaced.
THEOREM CustodyKeptHolds == Spec => []CustodyKept
<1>1. RegistryInv => CustodyKept
  BY DEF RegistryInv
<1> QED BY <1>1, RegistryInit, RegistryNext, PTL DEF Spec

\* The pools of a token, present and replaced, have together the loan shares
\* that its CDPs owe.
THEOREM LoansKeptHolds == Spec => []LoansKept
<1>1. RegistryInv => LoansKept
  BY DEF RegistryInv
<1> QED BY <1>1, RegistryInit, RegistryNext, PTL DEF Spec
=============================================================================
