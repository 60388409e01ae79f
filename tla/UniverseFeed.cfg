\* Two calls announced by the tool and by overlapping sweeps.
CONSTANTS
  Symbols = {"BTC", "SOL", "SHIB"}
  None = None
  Locked = {"SHIB"}
  CoreOperatorOnly = TRUE
  MaxTotal = 3
  TierCap <- MCTierCap
  InitialTiers <- MCInitialTiers
  Calls = {c1, c2}
  Requests <- FeedRequests
  Orphans = {}
  Webhook = TRUE
  Sweeps = {s1, s2}
  MaxCrashes = 1
  MaxFailures = 1
SPECIFICATION FairSpec
CHECK_DEADLOCK FALSE
INVARIANTS AnnouncedIsRecorded CardsBounded
PROPERTIES EventuallyAnnounced
