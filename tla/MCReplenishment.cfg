\* Two purchases, in one window or in two; the authorization changes once.
SPECIFICATION FairSpec
CONSTANTS
  None = None
  Orders = 2
  Transfer = {}
  Worker = {w1, w2}
  Limit = 1
  Versions = 2
  Periods = 2
  FirstMode = {"automatic"}
INVARIANTS OneWayToPay OneAtATime CollectedWithinLimit
PROPERTIES PaidIsDelivered
CHECK_DEADLOCK FALSE
