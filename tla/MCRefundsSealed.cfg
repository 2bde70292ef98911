\* The same instance, for what the comment on sealed executions says.
SPECIFICATION Spec
CONSTANTS
  r1 = r1
  r2 = r2
  x1 = x1
  t1 = t1
  t2 = t2
  d1 = d1
  Refund = {r1, r2}
  Receipt = {x1}
  Api = {r1}
  Chain = {r2}
  Transfer = {t1, t2}
  Stray = {t2}
  Query = {q1}
  Dispute = {d1}
  Routes <- MCRoutes
  On <- MCOn
  Amount <- MCAmount
  Gross <- MCGross
  Actual <- MCActual
  Value <- MCValue
  At <- MCAt
  Claim <- MCClaim
INVARIANTS RunningIsNeverSealed
CHECK_DEADLOCK FALSE
