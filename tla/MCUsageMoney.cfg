\* Three requests compete for a budget and for credits, end, and are corrected.
SPECIFICATION Spec
SYMMETRY Symmetry
CONSTANTS
  None = None
  video = video
  stream = stream
  plain = plain
  Kind <- MCKind
  Estimate <- MCEstimates
  Request = {r1, r2, r3}
  Caller = {c1}
  Poller = {}
  Correction = {k1, k2}
  Input = {plain}
  CostSeen = {TRUE}
  Routes = 1
  MCEstimate = 1
  MaxUse = 3
  Credits = 3
  BudgetLimit = 2
  ConcurrencyLimit = 2
  UsageTimeout = 1
  Horizon = 1
INVARIANTS BudgetKept PaidAsCorrected
CHECK_DEADLOCK FALSE
