CONSTANTS
  ONE = 1000
  EPOCH_OF_YEAR = 4
  DefPrimary = 200
  DefQuadratic = 500
  StableCoinPrimary = 550
  StableCoinQuadratic = 450
  xrd = xrd
  usdt = usdt
  Tokens = {xrd, usdt}
  Config <- MCConfig
  FirstPools <- MCFirstPools
  InitialLiquidity = 20000
  ValidatorApy = 80
  Markets <- MCMarkets
  Supplies = {7000}
  Withdrawals = {3010}
  Collaterals = {10000}
  Loans = {3333}
  Repayments = {1000, 20000}
  Releases = {1005}
  MaxPools = 4
  MaxCdps = 2
  MaxEpoch = 2
  MaxOps = 5
SPECIFICATION Spec
INVARIANTS
  CustodyKept LoansKept
CHECK_DEADLOCK FALSE
