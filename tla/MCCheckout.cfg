\* Two orders, an online method and one confirmed by hand; everything they
\* share is there once.
SPECIFICATION FairSpec
CONSTANTS
  None = None
  o1 = o1
  o2 = o2
  Order = {o1, o2}
  Method = {card, bank}
  Online = {card}
  Offers <- MCOffers
  Wallet = 1
  Supply = 1
  Places = 1
  Window = 1
  Attempts = 2
INVARIANTS OneOutcome CommitmentsFollowOrder
PROPERTIES RefinesSale RecordedPaymentIsMatched PaidOrderIsDelivered
\* Every order may have ended.
CHECK_DEADLOCK FALSE
