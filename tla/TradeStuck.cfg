\* The exchange raises outside the adapter's try; nothing is lost, nobody retries.
SPECIFICATION FairSpec
CONSTANTS
  p1 = p1
  s1 = s1
  w1 = w1  w2 = w2
  NoProposal = NoProposal
  Proposals = {p1}
  Large = {}
  Admitted = {p1}
  Sweepers = {s1}
  Handlers = {}
  Workers = {w1, w2}
  Fallible = {}
  MaxCrashes = 0
  Mode = "live"
  AutoApprove = TRUE
  AutoAfter = 0
  TTL = 1
  MaxOrdersPerDay = 1
PROPERTY ApprovedResolves
