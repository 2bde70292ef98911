\* One route with the limits of the code: a trip, lost probes, a recovery
\* and answers that come too late.
SPECIFICATION FairCircuitSpec
CONSTANTS
  u1 = u1
  Upstream = {u1}
  Attempt = {a1, a2, a3, a4, a5}
  Target <- MCTarget
  FailureThreshold = 3
  UnknownUsageThreshold = 2
  RecoverySuccesses = 2
INVARIANTS OneProbeAtATime
PROPERTIES ChangesOnEvidence ProbedAgain
\* Every attempt may be over.
CHECK_DEADLOCK FALSE
