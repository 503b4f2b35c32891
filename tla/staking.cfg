CONSTANTS
  ONE = 1000
  EPOCH_OF_YEAR = 4
  v1 = v1
  v2 = v2
  Validators = {v1, v2}
  FirstValidator <- MCValidators
  Contributions = {1000, 1700}
  Redemptions = {300, 1000}
  Rewards = {30, 170}
  MaxOps = 6
SPECIFICATION Spec
PROPERTIES
  FairExchange UnitValueKept
CHECK_DEADLOCK FALSE
