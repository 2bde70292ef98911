\* One key, a video and a streaming body, two calls of Execute and two polls;
\* liveness under fairness, hence no symmetry.
SPECIFICATION FairSpec
CONSTANTS
  None = None
  video = video
  stream = stream
  plain = plain
  Kind <- MCKind
  Estimate <- MCEstimates
  Request = {r1}
  Caller = {c1, c2}
  Poller = {w1, w2}
  Correction = {}
  Input = {video, stream}
  CostSeen = {TRUE}
  Routes = 2
  MCEstimate = 1
  MaxUse = 1
  Credits = 2
  BudgetLimit = 2
  ConcurrencyLimit = 1
  UsageTimeout = 1
  Horizon = 1
INVARIANTS AttemptsInSequence FailedNeverRan
PROPERTIES KeepsPromise EveryRequestEnds
\* Nothing is left to do once the request ended and time is up.
CHECK_DEADLOCK FALSE
