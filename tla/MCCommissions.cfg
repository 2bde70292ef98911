SPECIFICATION CommissionsFairSpec
CONSTANTS
    Paid <- MCPaid
    RateNum = 1
    RateDen = 2
    Claim <- MCClaim
    Fix <- MCFix
    Withdrawal = {w1}
    Order = {o1}
    Amount <- MCAmount
INVARIANTS BooksAgree EarnedExactly DisputedIsKept
PROPERTIES ReleasedInTheEnd
CHECK_DEADLOCK FALSE
