\* Three candles of two minutes; a scan on the grid or off it, the operator's
\* backfills at any time, a month that has no partition, one signal, one failure.
SPECIFICATION Spec
CONSTANTS
  Workers = {w1, w2}
  TF = 2
  Lookback = 4
  MinHistory = 1
  Window = 2
  Horizon = 3
  Month = 4
  Deployed = {0}
  Scans = 1
  Fills = 1
  MaxSignals = 1
  MaxNow = 4
  MaxFailures = 1
SYMMETRY ProcessSymmetry
CHECK_DEADLOCK FALSE
INVARIANTS TypeOK ScanComplete FeatureOfItsCandle FeaturesExplained OutcomeComplete
