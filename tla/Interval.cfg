SPECIFICATION IntervalSpec
CONSTANTS
  Second = 2
  Period = 3
  Extra = 2
  Lateness = {1, 13}
  Horizon = 26
  MaxMade = 2
INVARIANTS IntervalTypeOK OnGrid FutureStart OneBuffered
\* Time stops at Horizon.
CHECK_DEADLOCK FALSE
