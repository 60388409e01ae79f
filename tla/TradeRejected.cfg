\* A callback rejects a proposal that a sweep has already selected.
SPECIFICATION Spec
CONSTANTS
  p1 = p1
  s1 = s1
  h1 = h1  h2 = h2
  w1 = w1  w2 = w2
  NoProposal = NoProposal
  Proposals = {p1}
  Large = {}
  Admitted = {p1}
  Sweepers = {s1}
  Handlers = {h1, h2}
  Workers = {w1, w2}
  Fallible = {}
  MaxCrashes = 0
  Mode = "live"
  AutoApprove = TRUE
  AutoAfter = 1
  TTL = 2
  MaxOrdersPerDay = 2
SYMMETRY Alike
PROPERTY RejectionStands
