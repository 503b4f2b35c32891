CONSTANTS
  ONE = 1000
  EPOCH_OF_YEAR = 52
  v1 = v1
  v2 = v2
  Validators = {v2}
  A_WEEK_EPOCHS = 1
  RESERVE_WEEKS = 12
  Units <- MCUnits
  FirstStaked <- MCStaked
  Rewards <- MCRewards
  Spans = {1}
  Backfills <- MCNoBackfills
  Misstated <- MCNoBackfills
  MaxFill = 0
  MaxInserted = 0
  MaxEpoch = 12
SPECIFICATION Spec
INVARIANTS
  LogsUpToReserve
CHECK_DEADLOCK FALSE
