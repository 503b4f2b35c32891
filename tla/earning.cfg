CONSTANTS
  ONE = 1000
  EPOCH_OF_YEAR = 4
  DefPrimary = 200
  DefQuadratic = 500
  StableCoinPrimary = 550
  StableCoinQuadratic = 450
  xrd = xrd
  Tokens <- MCTokens
  XRD = xrd
  NoDx = NoDx
  Config <- MCConfig
  InitialLiquidity <- MCLiquidity
  ValidatorApy = 80
  Prices <- MCPrices
  Markets = {}
  Inputs <- EarningInputs
  MaxEpoch = 4
  MaxCdps = 2
  MaxFlashloans = 0
  MaxOps = 4
  Dust = 12
  SettleGas = 100
  UnstakeEpochs = 2
  Redeemed = {3000, 8000}
  Subsidies = {0, 500}
  RelayerFees = {500}
  UnstakeSettings = {2}
  MaxClaims = 2
SPECIFICATION FairEarningSpec
INVARIANTS
  EscrowMatched EscrowCovers
PROPERTIES
  ImplementsRedemption TimelySettlementPays OrphanedByShortSettlement
  EveryClaimSettled
CHECK_DEADLOCK FALSE
