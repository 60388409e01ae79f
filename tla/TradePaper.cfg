\* Paper mode with three proposals, a cap of one order a day and two workers:
\* the rails that read the database, and what two workers do to them; a sweep is
\* lost.
SPECIFICATION Spec
CONSTANTS
  p1 = p1  p2 = p2  p3 = p3
  s1 = s1
  w1 = w1  w2 = w2
  NoProposal = NoProposal
  Proposals = {p1, p2, p3}
  Large = {p3}
  Admitted = {p1, p2, p3}
  Sweepers = {s1}
  Handlers = {}
  Workers = {w1, w2}
  Fallible = {s1}
  MaxCrashes = 1
  Mode = "paper"
  AutoApprove = TRUE
  AutoAfter = 0
  TTL = 1
  MaxOrdersPerDay = 1
SYMMETRY Alike
INVARIANTS DailyCapSlack KillSwitchSlack FirstTradeSmall
