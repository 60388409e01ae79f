\* Two shifts, two signals and five calls; two failures of webhook or server.
SPECIFICATION Spec
CONSTANTS
  Agents = {a1, a2}
  Signals = {s1, s2}
  Requests <- MCRequests
  Equities = {2000, 10007}
  Atr = 10
  Trigger = 100
  RrMinimum = 150
  MinStopAtr = 30
  MaxStopAtr = 500
  BasePct = 4000
  MinPct = 500
  MaxPct = 8000
  MinUsd = 1100
  MinEquity = 3000
  WinAnchor = 45
  WinCap = 140
  RrAnchor = 150
  RrCap = 140
  SampleAnchor = 3
  SampleCap = 120
  SampleFloor = 50
  Webhook = TRUE
  MaxCalls = 5
  MaxSimilar = 2
  MaxFailures = 2
SYMMETRY AgentSymmetry
CHECK_DEADLOCK FALSE
INVARIANTS TypeOK ProposalsSound AlertsExplained
