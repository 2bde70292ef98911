\* Two renewals fit before the horizon, one of them late; one run at a time.
SPECIFICATION FairSpec
CONSTANTS
  None = None
  channel = channel
  brand = brand
  Owner = {channel, brand}
  First <- MCFirst
  Offers <- MCOffers
  Run = {r1}
  Funds = 1
  Horizon = 2
  Quotes = 2
  Versions = 3
INVARIANTS OncePerPeriod
PROPERTIES ChargedAsAgreed RenewedInTheEnd
\* Nothing is left to do at the horizon.
CHECK_DEADLOCK FALSE
