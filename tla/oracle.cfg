CONSTANTS
  Quotes = {usdc, usdt}
  Keys = {k1, k2}
  Periods = {1}
  MaxDiff = 2
  FirstKey = k1
  MaxTime = 3
  MaxEpoch = 1
  MaxSigned = 3
  MaxShown = 2
SPECIFICATION Spec
SYMMETRY MCSymmetry
INVARIANTS
  StaleRefused NewestAccepted
CHECK_DEADLOCK FALSE
