\* Two requests and a refund case compete for two grants; the usage events are
\* corrected around expiry and cancellation.
SPECIFICATION CreditsSpec
CONSTANTS
  MCMoney = 2
  Grant <- MCGrant
  Kind <- MCKind
  Paid = 2
  Quantity <- MCQuantity
  PaidMoney <- MCPaidMoney
  Effective <- MCEffective
  Expires <- MCExpires
  Request = {r1, r2}
  Case = {c1}
  Correction = {f1, f2}
  MaxUse = 2
  ClockBound = 2
SYMMETRY Symmetry
INVARIANTS UnitsConserved MoneyFullyAttributed
PROPERTIES ShortfallIsReal UsedInOrder CorrectionRevivesNothing
CHECK_DEADLOCK FALSE
