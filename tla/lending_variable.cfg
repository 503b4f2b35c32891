CONSTANTS
  ONE = 1000
  EPOCH_OF_YEAR = 4
  DefPrimary = 200
  DefQuadratic = 500
  StableCoinPrimary = 550
  StableCoinQuadratic = 450
  xrd = xrd
  usdt = usdt
  Tokens <- MCTokens
  XRD = xrd
  NoDx = NoDx
  Config <- MCConfig
  InitialLiquidity <- MCLiquidity
  ValidatorApy = 80
  Prices <- VariablePrices
  Markets <- VariableMarkets
  Inputs <- VariableInputs
  MaxEpoch = 2
  MaxCdps = 2
  MaxFlashloans = 2
  MaxOps = 4
SPECIFICATION Spec
INVARIANTS
  TypeOK ShareBook CollateralBook Solvent
  ClosedMeansPaid UnhealthyLiquidatable AnyCoverSells
PROPERTIES
  LtvRespected NoRetroactiveInterest IndexMonotone DebtFallsByPayment PaymentCredited
  OnlyUnhealthyLiquidated LiquidationFair CollateralNotNegative BooksBalance
  InsuranceCovered
CHECK_DEADLOCK FALSE
