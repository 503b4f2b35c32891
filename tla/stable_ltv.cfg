CONSTANTS
  ONE = 1000
  EPOCH_OF_YEAR = 4
  DefPrimary = 200
  DefQuadratic = 500
  StableCoinPrimary = 550
  StableCoinQuadratic = 450
  xrd = xrd
  usdt = usdt
  Tokens <- MCTokens
  XRD = xrd
  NoDx = NoDx
  Config <- CoarseDxConfig
  InitialLiquidity <- MCLiquidity
  ValidatorApy = 80
  Prices <- StablePrices
  Markets <- StableMarkets
  Inputs <- StableInputs
  MaxEpoch = 4
  MaxCdps = 2
  MaxFlashloans = 0
  MaxOps = 4
SPECIFICATION Spec
PROPERTIES
  LtvRespected
CHECK_DEADLOCK FALSE
