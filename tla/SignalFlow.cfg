\* Histories of five candles for the detectors; bursts and backlogs for the gates.
SPECIFICATION Spec
CONSTANTS
  Workers = {w1, w2}
  Streams = {"btc5m", "btc1h", "eth5m"}
  Symbol <- MCSymbol
  Rank <- MCRank
  Scenarios <- MCScenarios
  MinHistory <- MCMinHistory
  Half = 1
  Donchian = 3
  BarsPerDay = 3
  SwingLookback = 4
  SqueezeLookback = 3
  DivergenceLookback = 4
  PivotSpacing = 1
  Weak = {"divergence_macd"}
  Cooldown <- MCCooldown
  DedupWindow = 2
  MinGap = 1
  DailyCap = 2
  Day24 = 2
  MaxNow = 2
  MaxFailures = 1
SYMMETRY ProcessSymmetry
CHECK_DEADLOCK FALSE
INVARIANTS TypeOK BurstSlack DedupExplained SlotsExplained OutcomesExplained BracketsOrdered
