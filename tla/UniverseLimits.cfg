\* Sequences of three mutations against the hard limits; no webhook.
CONSTANTS
  Symbols = {"BTC", "SOL", "SHIB"}
  None = None
  Locked = {"SHIB"}
  CoreOperatorOnly = TRUE
  MaxTotal = 2
  TierCap <- MCTierCap
  InitialTiers <- MCInitialTiers
  Calls = {c1, c2, c3}
  Requests <- MCRequests
  Orphans = {c3}
  Webhook = FALSE
  Sweeps = {}
  MaxCrashes = 1
  MaxFailures = 0
SYMMETRY SomeCalls
SPECIFICATION Spec
CHECK_DEADLOCK FALSE
INVARIANTS TypeOK TierCapsHold TotalExplained BarredExplained AuditReplays
