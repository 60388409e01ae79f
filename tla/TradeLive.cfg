\* Live, auto-approval at once: two sweeps that overlap, an approving and any
\* number of rejecting callbacks decide one proposal; two execution-worker
\* processes; the callback or a worker is lost.
SPECIFICATION Spec
CONSTANTS
  p1 = p1
  s1 = s1  s2 = s2
  h1 = h1
  w1 = w1  w2 = w2
  NoProposal = NoProposal
  Proposals = {p1}
  Large = {}
  Admitted = {p1}
  Sweepers = {s1, s2}
  Handlers = {h1}
  Workers = {w1, w2}
  Fallible = {h1, w1, w2}
  MaxCrashes = 1
  Mode = "live"
  AutoApprove = TRUE
  AutoAfter = 0
  TTL = 1
  MaxOrdersPerDay = 1
SYMMETRY Alike
INVARIANTS TypeOK EntriesBounded RejectedNeverTraded RecordedOrderProtected ExecutedHasOrder FailedExplained TablesAgree
PROPERTY OneWay
