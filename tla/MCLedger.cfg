\* Postings, holds and retries on two customer accounts.
SPECIFICATION Spec
CONSTANTS
  opA = opA
  opB = opB
  money = money
  atg = atg
  cash = cash
  wallet = wallet
  credits = credits
  grant = grant
  k1 = k1
  k2 = k2
  k3 = k3
  k4 = k4
  NoResolution = NoResolution
  ReleaseKey = {x1, x2}
  Horizon = 1
  Operator <- MCOperator
  Unit <- MCUnit
  Key <- MCKey
  Account <- MCAccount
  Control <- MCControl
  Overdraw <- MCOverdraw
  OperatorOf <- MCOperatorOf
  UnitOf <- MCUnitOf
  Posting <- MCPosting
  Reservation <- MCReservation
INVARIANTS Reconciles RepliesAreTrue
PROPERTIES ConsumptionIsPaid RefinesVault
\* Every posting and hold may have been made and resolved.
CHECK_DEADLOCK FALSE
