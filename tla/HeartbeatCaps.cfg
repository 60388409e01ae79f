\* Four ticks over two days, for both caps; the shifts call no tools.
SPECIFICATION Spec
CONSTANTS
  Workers = {w1, w2}
  Directives = {}
  Min = 2
  Max = 2
  DailyCap = 1
  WeeklyCap = 2
  Day = 3
  Week = 5
  Ticks = 4
  MaxNow = 4
  MaxCalls = 0
  MaxFailures = 1
SYMMETRY ProcessSymmetry
CHECK_DEADLOCK FALSE
INVARIANTS CapsSlack
