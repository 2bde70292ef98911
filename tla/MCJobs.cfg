\* Two jobs, two owners: interleavings of claims, stale tokens and redrives,
\* and liveness under fairness (hence no symmetry).
SPECIFICATION FairSpec
CONSTANTS
  Job = {j1, j2}
  Owner = {w1, w2}
  Nobody = Nobody
  Budgets = {2}
  AttemptCap = 3
  RedriveAttempts = 1
  ClaimLimit = 2
  LeaseTicks = 1
  RetryCap = 1
INVARIANTS OneUsableToken
PROPERTIES RefinesDurableWork EveryJobSettles
\* The queue may be drained for good.
CHECK_DEADLOCK FALSE
