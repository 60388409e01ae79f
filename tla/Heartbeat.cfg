\* Two overlapping ticks, their shifts' calls, one failure.
SPECIFICATION Spec
CONSTANTS
  Workers = {w1, w2}
  Directives = {3}
  Min = 2
  Max = 3
  DailyCap = 1
  WeeklyCap = 2
  Day = 2
  Week = 4
  Ticks = 2
  MaxNow = 2
  MaxCalls = 1
  MaxFailures = 1
SYMMETRY ProcessSymmetry
CHECK_DEADLOCK FALSE
INVARIANTS TypeOK Exclusive RowsExplained DirectiveOwned DiaryKept
