CONSTANTS
  ONE = 1000
  EPOCH_OF_YEAR = 4
  v1 = v1
  v2 = v2
  Validators = {v1, v2}
  A_WEEK_EPOCHS = 2
  RESERVE_WEEKS = 4
  Units <- MCUnits
  FirstStaked <- MCStaked
  Rewards <- MCRewards
  Spans = {1, 2}
  Backfills <- MCBackfills
  Misstated <- MCMisstated
  MaxFill = 2
  MaxInserted = 1
  MaxEpoch = 5
SPECIFICATION Spec
INVARIANTS
  ApyWithinEarnings AlwaysAnswers
PROPERTIES
  ActiveOnceLogged
CHECK_DEADLOCK FALSE
