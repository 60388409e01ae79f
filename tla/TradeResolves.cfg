\* Paper mode under the fairness of the deployment: every proposal is resolved
\* although tasks are lost; no exchange call can raise here.
SPECIFICATION FairSpec
CONSTANTS
  p1 = p1  p2 = p2
  s1 = s1
  w1 = w1  w2 = w2
  NoProposal = NoProposal
  Proposals = {p1, p2}
  Large = {p2}
  Admitted = {p1, p2}
  Sweepers = {s1}
  Handlers = {}
  Workers = {w1, w2}
  Fallible = {w1, w2}
  MaxCrashes = 1
  Mode = "paper"
  AutoApprove = TRUE
  AutoAfter = 0
  TTL = 1
  MaxOrdersPerDay = 1
PROPERTY EveryProposalResolves
