------------------------------ MODULE Refunds -------------------------------
(***************************************************************************)
(* Money that was received and has to go back: refund cases and their      *)
(* execution (internal/remediation), the refund calls of the payment       *)
(* providers (internal/payments) and the payers' disputes that compete for *)
(* the same receipt.                                                       *)
(*                                                                         *)
(* Modelled are refunds of money that was never allocated to an order.     *)
(* Such a case has one leg, so a refund stands for the case and its leg.   *)
(* A leg is paid back by a provider call, by hand, or by an external       *)
(* transfer to an authorized destination.  An instruction that ended       *)
(* without paying the whole debt is closed, which opens the next route     *)
(* version.  An action is one transaction, or one exchange of a call with  *)
(* the provider: a call may be overtaken by every other action.            *)
(***************************************************************************)
EXTENDS Integers, FiniteSets, Functions

CONSTANTS
  Refund, Receipt,
  On,          \* On[r]: the receipt refund r is taken from
  Amount,      \* Amount[r]: the approved obligation
  Gross,       \* Gross[x]: what receipt x brought
  Api,         \* refunds whose receipt came through stripe, alipay or wechat
  Chain,       \* refunds whose receipt came through evm_wallet or nowpayments
  Actual,      \* Actual[r]: what a provider's payment of r may be worth
  Transfer,    \* payments made outside of the system
  Value,       \* Value[t]: what transfer t is worth
  Stray,       \* transfers that did not reach the authorized address
  Query,       \* concurrent QueryRefund calls
  Dispute, At, \* chargebacks of the payers, At[d] is the receipt of d
  Claim,       \* Claim[d]: the disputed amount
  Routes       \* Routes[r]: bound of its route_version

VARIABLES
  leg,         \* remediation_cases and remediation_refund_legs
  capacity,    \* remediation_refund_capacity
  route,       \* authorizations, failures and closures by route version
  row,         \* payments_refund_intents of the provider's execution
  call,        \* call[r]: memory of SubmitRefund and of the queries
  remote,      \* the refund at the provider
  booked,      \* booked[r]: remediation_payment_fact_bindings
  balance,     \* receipt:unallocated
  dispute      \* remediation_chargebacks with their hold

legVars == <<leg, capacity, booked, balance>>
callVars == <<row, call, remote>>
vars == <<legVars, callVars, route, dispute>>

ASSUME RefundsAssumption ==
  /\ On \in [Refund -> Receipt] /\ At \in [Dispute -> Receipt]
  /\ Api \subseteq Refund /\ Chain \subseteq Refund \ Api
  /\ Stray \subseteq Transfer /\ Refund \cap Transfer = {}
  /\ "submit" \notin Query
ASSUME AmountsAssumption ==
  /\ Amount \in [Refund -> Nat \ {0}] /\ Gross \in [Receipt -> Nat]
  /\ Value \in [Transfer -> Nat \ {0}] /\ Claim \in [Dispute -> Nat \ {0}]
  /\ Actual \in [Refund -> SUBSET (Nat \ {0})]
  /\ \A d \in Dispute : Claim[d] <= Gross[At[d]]
(* What a receipt covers is a sum over the rows of two tables. *)
ASSUME TablesAssumption == IsFiniteSet(Refund) /\ IsFiniteSet(Dispute)
ASSUME RoutesAssumption == Routes \in [Refund -> Nat \ {0}]

Version == Nat \ {0}
Caller == Query \cup {"submit"}
Leg ==
  [case : {"none", "pending_review", "approved", "paying", "exception",
           "completed", "rejected", "cancelled"},
   state : {"none", "reserved", "approved", "executing", "unknown",
            "exception", "completed", "cancelled"},
   mode : {"", "manual", "provider"}, version : Version, hold : Nat,
   settled : Nat, excess : Nat, misdirected : Nat]
Row ==
  [state : {"none", "executing", "querying", "pending", "outcome_unknown",
            "failed", "succeeded", "verified_pending_settlement"},
   fact : BOOLEAN, leased : BOOLEAN, sealed : BOOLEAN]
Answer == {"unknown", "failed", "pending", "succeeded"}

TypeOK ==
  /\ leg \in [Refund -> Leg]
  /\ capacity \in [Refund -> [state : {"none", "reserved", "completed", "released"},
                              completed : Nat]]
  /\ route \in [Refund -> [authorized : SUBSET Version, failed : SUBSET Version,
                           plain : SUBSET Version]]
  /\ row \in [Refund -> Row]
  /\ call \in [Refund -> [Caller -> {"idle", "read", "asking"} \cup Answer]]
  /\ remote \in [Refund -> [state : {"none", "sent", "accepted", "refused", "paid"},
                            value : Nat]]
  /\ booked \in [Refund -> SUBSET (Transfer \cup Refund)]
  /\ balance \in [Receipt -> Nat]
  /\ dispute \in [Dispute ->
       [state : {"none", "disputed", "invalid_payment", "merchant_collection_risk",
                 "reversed"},
        restricted : BOOLEAN, recovered : BOOLEAN, frozen : Nat]]

Init ==
  /\ leg = [r \in Refund |->
       [case |-> "none", state |-> "none", mode |-> "", version |-> 1, hold |-> 0,
        settled |-> 0, excess |-> 0, misdirected |-> 0]]
  /\ capacity = [r \in Refund |-> [state |-> "none", completed |-> 0]]
  /\ route = [r \in Refund |-> [authorized |-> {}, failed |-> {}, plain |-> {}]]
  /\ row = [r \in Refund |->
       [state |-> "none", fact |-> FALSE, leased |-> FALSE, sealed |-> FALSE]]
  /\ call = [r \in Refund |-> [c \in Caller |-> "idle"]]
  /\ remote = [r \in Refund |-> [state |-> "none", value |-> 0]]
  /\ booked = [r \in Refund |-> {}]
  /\ balance = Gross
  /\ dispute = [d \in Dispute |->
       [state |-> "none", restricted |-> FALSE, recovered |-> FALSE, frozen |-> 0]]

-----------------------------------------------------------------------------
(* What a receipt still covers.                                            *)

OfReceipt(x) == {r \in Refund : On[r] = x}
Disputes(x, states) == {d \in Dispute : At[d] = x /\ dispute[d].state \in states}
CompletedOf == [r \in Refund |-> capacity[r].completed]
OpenOf == [r \in Refund |-> Amount[r] - capacity[r].completed]
LegHold == [r \in Refund |-> leg[r].hold]
Frozen == [d \in Dispute |-> dispute[d].frozen]
Reserved(x) ==
  SumFunctionOnSet(OpenOf, {r \in OfReceipt(x) : capacity[r].state = "reserved"})
Completed(x) == SumFunctionOnSet(CompletedOf, OfReceipt(x))
Invalid(x) == SumFunctionOnSet(Claim, Disputes(x, {"invalid_payment"}))
Remaining(x) == Gross[x] - Reserved(x) - Completed(x) - Invalid(x)
ReviewRequired(x) == Remaining(x) < 0 \/ Disputes(x, {"disputed"}) /= {}
Available(x) ==
  balance[x] - SumFunctionOnSet(LegHold, OfReceipt(x))
             - SumFunctionOnSet(Frozen, Disputes(x, {"disputed"}))

(* RequestUnallocatedRefund *)
RequestRefund(r) ==
  /\ leg[r].case = "none"
  /\ ~ReviewRequired(On[r])
  /\ Amount[r] <= Remaining(On[r]) /\ Amount[r] <= Available(On[r])
  /\ leg' = [leg EXCEPT ![r] =
       [@ EXCEPT !.case = "pending_review", !.state = "reserved", !.hold = Amount[r]]]
  /\ capacity' = [capacity EXCEPT ![r].state = "reserved"]
  /\ UNCHANGED <<booked, balance, callVars, route, dispute>>

ApproveRefund(r) ==
  /\ leg[r].case = "pending_review"
  /\ leg' = [leg EXCEPT ![r] = [@ EXCEPT !.case = "approved", !.state = "approved"]]
  /\ UNCHANGED <<capacity, booked, balance, callVars, route, dispute>>

\* Mutant: a leg whose route was closed looks as if it was never executed.
LegNotStarted(r) == leg[r].state \in {"reserved", "approved"}
Cancellable(r) ==
  /\ leg[r].case \in {"pending_review", "approved"}
  /\ leg[r].state \in {"reserved", "approved"}

(* ReviewRefund with "reject", CancelRefund *)
CancelRefund(r, state) ==
  /\ Cancellable(r)
  /\ state = "rejected" => leg[r].case = "pending_review"
  /\ leg' = [leg EXCEPT ![r] =
       [@ EXCEPT !.case = state, !.state = "cancelled", !.hold = 0]]
  /\ capacity' = [capacity EXCEPT ![r].state = "released"]
  /\ UNCHANGED <<booked, balance, callVars, route, dispute>>

-----------------------------------------------------------------------------
(* Destinations and instructions.                                          *)

(* Every authorization modelled for version 1 of an Api or a manual refund  *)
(* is a responsible one: without that it is refused.                       *)
DestinationRequired(r) ==
  leg[r].version > 1 \/ route[r].authorized /= {} \/ r \in Chain

AuthorizeRefundDestination(r) ==
  /\ leg[r].case \in {"pending_review", "approved", "paying"}
  /\ leg[r].state \in {"reserved", "approved"} /\ leg[r].mode = ""
  /\ leg[r].version \notin route[r].authorized
  /\ route' = [route EXCEPT ![r].authorized = @ \cup {leg[r].version}]
  /\ UNCHANGED <<legVars, callVars, dispute>>

Executable(r) == capacity[r].state = "reserved" /\ ~ReviewRequired(On[r])

(* What BeginManualRefund and the shortcut of RecordManualRefund ask for.  *)
MayBegin(r) ==
  /\ leg[r].state = "approved" /\ leg[r].case \in {"approved", "paying"}
  /\ DestinationRequired(r) => leg[r].version \in route[r].authorized
  /\ Executable(r)
Begun(r, mode) ==
  [leg[r] EXCEPT !.case = "paying", !.state = "executing", !.mode = mode]

BeginManualRefund(r) ==
  /\ MayBegin(r)
  /\ leg' = [leg EXCEPT ![r] = Begun(r, "manual")]
  /\ UNCHANGED <<capacity, booked, balance, callVars, route, dispute>>

MarkRefundUnknown(r) ==
  /\ leg[r].state = "executing"
  /\ leg' = [leg EXCEPT ![r].state = "unknown"]
  /\ UNCHANGED <<capacity, booked, balance, callVars, route, dispute>>

-----------------------------------------------------------------------------
(* recordPayment: the one place where money is booked.  l is the leg as    *)
(* the caller leaves it, e the payment and v its value.                    *)

\* Mutant: a payment is only looked for while its debt is open.
NotYetCompleted(e) == \A r \in Refund : leg[r].state = "completed" => e \notin booked[r]
NotBooked(e) == \A r \in Refund : e \notin booked[r]
Least(a, b) == IF a < b THEN a ELSE b

(* A verified fact may arrive after the instruction it belongs to is over. *)
Bookable(l, verified) ==
  \/ l.state \in {"executing", "unknown"}
  \/ verified /\ l.state \in {"exception", "completed"}
  \/ verified /\ l.version > 1 /\ l.state = "approved"

SettledBy(r, v) == Least(v, Amount[r] - capacity[r].completed)

Settle(r, l, e, v) ==
  LET settled == SettledBy(r, v)
      open == Amount[r] - capacity[r].completed - settled
  IN /\ capacity' = [capacity EXCEPT ![r] =
          [state |-> IF open = 0 THEN "completed" ELSE @.state,
           completed |-> @.completed + settled]]
     /\ balance' = [balance EXCEPT ![On[r]] = @ - settled]
     /\ booked' = [booked EXCEPT ![r] = @ \cup {e}]
     /\ leg' = [leg EXCEPT ![r] =
          [l EXCEPT !.settled = l.settled + settled, !.excess = l.excess + v - settled,
                    !.hold = IF settled > 0 THEN open ELSE l.hold,
                    !.state = IF open > 0 THEN "exception" ELSE "completed",
                    !.case = IF open > 0 THEN "exception" ELSE "completed"]]

(* A transfer to somebody else is a loss and pays nothing.                 *)
Misdirect(r, e, v) ==
  /\ leg' = [leg EXCEPT ![r] =
       [@ EXCEPT !.case = "exception", !.state = "exception",
                 !.misdirected = leg[r].misdirected + v]]
  /\ booked' = [booked EXCEPT ![r] = @ \cup {e}]
  /\ UNCHANGED <<capacity, balance>>

(* RecordManualRefund: finance records its single payment of the whole     *)
(* debt, and begins the execution if nobody did.                           *)
RecordManualRefund(r, t) ==
  /\ NotBooked(t) /\ Value[t] = Amount[r] /\ ~DestinationRequired(r)
  /\ \/ leg[r].mode = "manual" /\ Bookable(leg[r], FALSE)
        /\ Settle(r, leg[r], t, Value[t])
     \/ MayBegin(r) /\ Settle(r, Begun(r, "manual"), t, Value[t])
  /\ UNCHANGED <<callVars, route, dispute>>

(* The same for an instruction closed before, named by its closure.  A new *)
(* version that was not begun is begun with it.                            *)
RecordClosedRefund(r, t) ==
  /\ NotBooked(t) /\ Value[t] = Amount[r] /\ route[r].plain /= {}
  /\ \/ leg[r].state /= "approved" /\ Bookable(leg[r], TRUE)
        /\ Settle(r, leg[r], t, Value[t])
     \/ MayBegin(r) /\ Settle(r, Begun(r, "manual"), t, Value[t])
  /\ UNCHANGED <<callVars, route, dispute>>

(* recordExternalRefund: a transfer to a destination that was authorized   *)
(* for this version or for a closed one.                                   *)
RecordExternalRefund(r, t) ==
  /\ NotBooked(t)
  /\ \E v \in route[r].authorized :
       v < leg[r].version \/ (v = leg[r].version /\ leg[r].mode = "manual")
  /\ Bookable(leg[r], TRUE)
  /\ IF t \in Stray THEN Misdirect(r, t, Value[t]) ELSE Settle(r, leg[r], t, Value[t])
  /\ UNCHANGED <<callVars, route, dispute>>

-----------------------------------------------------------------------------
(* Instructions that end without paying the debt.                          *)

\* Mutant: the state alone tells whether something is owed.
NotCompleted(r) == leg[r].state /= "completed"
Owed(r) == leg[r].settled < Amount[r]

RecordManualRefundFailure(r) ==
  /\ leg[r].mode = "manual" /\ leg[r].state \in {"executing", "unknown", "exception"}
  /\ Owed(r) /\ leg[r].version \notin route[r].failed
  /\ leg' = [leg EXCEPT ![r] = [@ EXCEPT !.case = "exception", !.state = "exception"]]
  /\ route' = [route EXCEPT ![r].failed = @ \cup {leg[r].version}]
  /\ UNCHANGED <<capacity, booked, balance, callVars, dispute>>

Paid(r) == row[r].state \in {"succeeded", "verified_pending_settlement"}
Ended(r) == row[r].state \in {"none", "failed"} \/ (Paid(r) /\ row[r].fact /\ r \in booked[r])

CloseRefundExecution(r) ==
  /\ leg[r].state \in {"executing", "exception"} /\ leg[r].mode /= ""
  /\ Owed(r) /\ leg[r].version < Routes[r]
  /\ leg[r].mode = "manual" /\ leg[r].settled = 0 /\ leg[r].misdirected = 0
       => leg[r].version \in route[r].failed /\ leg[r].state = "exception"
  /\ Ended(r) /\ (leg[r].mode = "provider" => row[r].state /= "none")
  /\ row' = [row EXCEPT ![r].sealed = @ \/ row[r].state /= "none"]
  /\ route' = [route EXCEPT ![r].plain =
       IF leg[r].mode = "manual" /\ leg[r].version \notin route[r].authorized
       THEN @ \cup {leg[r].version} ELSE @]
  /\ leg' = [leg EXCEPT ![r] =
       [@ EXCEPT !.case = "paying", !.state = "approved", !.mode = "",
                 !.version = leg[r].version + 1]]
  /\ UNCHANGED <<capacity, booked, balance, call, remote, dispute>>

-----------------------------------------------------------------------------
(* Execution by the provider.                                              *)

(* SubmitRefund: approval and durable intent commit before the call.       *)
SubmitRefund(r) ==
  /\ r \in Api /\ row[r].state = "none"
  /\ leg[r].version = 1
  /\ leg[r].state = "approved" /\ leg[r].case \in {"approved", "paying"}
  /\ Executable(r)
  /\ leg' = [leg EXCEPT ![r] = Begun(r, "provider")]
  /\ row' = [row EXCEPT ![r].state = "executing"]
  /\ call' = [call EXCEPT ![r]["submit"] = "asking"]
  /\ remote' = [remote EXCEPT ![r].state = "sent"]
  /\ UNCHANGED <<capacity, booked, balance, route, dispute>>

ProviderDecides(r, state) ==
  /\ remote[r].state = "sent"
  /\ remote' = [remote EXCEPT ![r].state = state]
  /\ UNCHANGED <<legVars, row, call, route, dispute>>
ProviderPays(r, v) ==
  /\ remote[r].state = "accepted"
  /\ remote' = [remote EXCEPT ![r] = [state |-> "paid", value |-> v]]
  /\ UNCHANGED <<legVars, row, call, route, dispute>>

(* QueryRefund reads the row; a final one replays its stored fact.         *)
Final(r) == Paid(r) /\ row[r].fact
ReadRefund(r, q) ==
  /\ row[r].state /= "none" /\ ~row[r].sealed /\ ~Final(r)
  /\ call[r][q] = "idle"
  /\ call' = [call EXCEPT ![r][q] = "read"]
  /\ UNCHANGED <<legVars, row, remote, route, dispute>>

Claimable(r) == ~row[r].sealed /\ ~row[r].leased
(* claimRefundQuery: a minute's lease, on the row as it is by now.         *)
ClaimRefundQuery(r, q) ==
  /\ call[r][q] = "read"
  /\ IF Claimable(r)
     THEN /\ row' = [row EXCEPT ![r].state = "querying", ![r].leased = TRUE]
          /\ call' = [call EXCEPT ![r][q] = "asking"]
     ELSE /\ call' = [call EXCEPT ![r][q] = "idle"]
          /\ UNCHANGED row
  /\ UNCHANGED <<legVars, remote, route, dispute>>

(* What a call may bring back.  A response below 500 that is neither 2xx   *)
(* nor 408 is a refusal to its reader, the refusal to answer a query       *)
(* included.                                                               *)
Answers(r, c) ==
  {"unknown"} \cup (IF c # "submit" THEN {"failed"} ELSE {}) \cup
  (CASE remote[r].state = "accepted" -> {"pending"}
     [] remote[r].state = "paid" -> {"succeeded"}
     [] remote[r].state = "refused" -> {"failed"}
     [] OTHER -> {})
ReceiveAnswer(r, c, a) ==
  /\ call[r][c] = "asking" /\ a \in Answers(r, c)
  /\ call' = [call EXCEPT ![r][c] = a]
  /\ UNCHANGED <<legVars, row, remote, route, dispute>>

Unsettled(r) ==
  \/ r \notin booked'[r]
  \/ LET l == leg'[r] IN l.state = "exception" \/ l.excess > 0 \/ l.misdirected > 0
NewState(r, a) ==
  CASE a = "unknown" -> "outcome_unknown"
    [] a = "succeeded" -> IF Unsettled(r) THEN "verified_pending_settlement" ELSE "succeeded"
    [] OTHER -> a

(* saveRefundResult with RecordVerifiedRefund: state and result are        *)
(* written whatever the row holds by now.                                  *)
BookRefund(r) ==
  IF NotBooked(r) /\ Bookable(leg[r], TRUE)
  THEN Settle(r, leg[r], r, remote[r].value)
  ELSE UNCHANGED legVars
SaveRefundResult(r, c) ==
  /\ call[r][c] \in Answer
  /\ IF call[r][c] = "succeeded" THEN BookRefund(r) ELSE UNCHANGED legVars
  /\ row' = [row EXCEPT ![r] =
       [@ EXCEPT !.state = NewState(r, call[r][c]), !.leased = FALSE,
                 !.fact = call[r][c] = "succeeded"]]
  /\ call' = [call EXCEPT ![r][c] = "idle"]
  /\ UNCHANGED <<remote, route, dispute>>

(* The process dies, or the answer cannot be stored.                       *)
LoseCall(r, c) ==
  /\ call[r][c] /= "idle"
  /\ call' = [call EXCEPT ![r][c] = "idle"]
  /\ UNCHANGED <<legVars, row, remote, route, dispute>>

(* A call and its save take less than the minute of the lease.             *)
LeaseExpires(r) ==
  /\ row[r].leased /\ \A q \in Query : call[r][q] \in {"idle", "read"}
  /\ row' = [row EXCEPT ![r].leased = FALSE]
  /\ UNCHANGED <<legVars, call, remote, route, dispute>>

(* A later query of a row that is final: the stored fact again.            *)
ReplayFact(r) ==
  /\ Final(r) /\ ~row[r].sealed
  /\ BookRefund(r)
  /\ row' = [row EXCEPT ![r].state = NewState(r, "succeeded"), ![r].leased = FALSE]
  /\ UNCHANGED <<call, remote, route, dispute>>

-----------------------------------------------------------------------------
(* Disputes.  The receipt has no orders and no wallet: what a dispute can  *)
(* freeze is the money nobody was given yet.                               *)

RecordChargeback(d) ==
  /\ dispute[d].state = "none"
  /\ dispute' = [dispute EXCEPT ![d].state = "disputed"]
  /\ UNCHANGED <<legVars, callVars, route>>

Restricted(x) == {d \in Disputes(x, {"disputed"}) : dispute[d].restricted}
Basis(x) ==
  Gross[x] - Completed(x) - Invalid(x) - SumFunctionOnSet(Claim, Restricted(x))

(* RestrictChargeback: the disputed fraction of the free money, rounded    *)
(* down to the ledger's precision.                                         *)
RestrictChargeback(d) ==
  LET x == At[d] IN
  /\ dispute[d].state = "disputed" /\ ~dispute[d].restricted /\ Reserved(x) = 0
  /\ 0 < Basis(x) /\ Claim[d] <= Basis(x)
  /\ SumFunctionOnSet(LegHold, OfReceipt(x)) = 0
  /\ dispute' = [dispute EXCEPT ![d] =
       [@ EXCEPT !.restricted = TRUE,
                 !.frozen = (Available(x) * Claim[d]) \div Basis(x)]]
  /\ UNCHANGED <<legVars, callVars, route>>

Promised(x) ==
  SumFunctionOnSet(Amount,
    {r \in OfReceipt(x) : capacity[r].state \in {"reserved", "completed"}})
ResolveChargeback(d, as) ==
  LET x == At[d] IN
  /\ dispute[d].state = "disputed"
  /\ as = "invalid_payment" =>
       /\ dispute[d].restricted
       /\ Promised(x) + Invalid(x) + Claim[d] <= Gross[x]
  /\ as = "reversed" => dispute[d].recovered
  /\ dispute' = [dispute EXCEPT ![d] = 
       [state |-> as, restricted |-> FALSE, recovered |-> FALSE, frozen |-> 0]]
  /\ balance' = [balance EXCEPT ![x] =
       @ - IF as = "invalid_payment" THEN dispute[d].frozen ELSE 0]
  /\ UNCHANGED <<leg, capacity, booked, callVars, route>>

(* RecordChargebackRecovery of the whole amount.  A part of it, and what   *)
(* comes after the dispute was resolved, decides nothing; a resolved       *)
(* dispute forgets what led to it.                                         *)
RecoverChargeback(d) ==
  /\ dispute[d].state = "disputed" /\ ~dispute[d].recovered
  /\ dispute' = [dispute EXCEPT ![d].recovered = TRUE]
  /\ UNCHANGED <<legVars, callVars, route>>

-----------------------------------------------------------------------------
CaseStep(r) ==
  \/ RequestRefund(r) \/ ApproveRefund(r)
  \/ \E state \in {"rejected", "cancelled"} : CancelRefund(r, state)
  \/ AuthorizeRefundDestination(r) \/ BeginManualRefund(r) \/ MarkRefundUnknown(r)
  \/ RecordManualRefundFailure(r) \/ CloseRefundExecution(r)
  \/ \E t \in Transfer : \/ RecordManualRefund(r, t) \/ RecordClosedRefund(r, t)
                          \/ RecordExternalRefund(r, t)
CallStep(r) ==
  \/ SubmitRefund(r) \/ LeaseExpires(r) \/ ReplayFact(r)
  \/ \E state \in {"accepted", "refused"} : ProviderDecides(r, state)
  \/ \E v \in Actual[r] : ProviderPays(r, v)
  \/ \E q \in Query : ReadRefund(r, q) \/ ClaimRefundQuery(r, q)
  \/ \E c \in Caller : \/ \E a \in Answer : ReceiveAnswer(r, c, a)
                        \/ SaveRefundResult(r, c) \/ LoseCall(r, c)
DisputeStep(d) ==
  \/ RecordChargeback(d) \/ RestrictChargeback(d) \/ RecoverChargeback(d)
  \/ \E as \in {"invalid_payment", "merchant_collection_risk", "reversed"} :
       ResolveChargeback(d, as)

Next ==
  \/ \E r \in Refund : CaseStep(r) \/ CallStep(r)
  \/ \E d \in Dispute : DisputeStep(d)
Spec == Init /\ [][Next]_vars

-----------------------------------------------------------------------------
(* What the payments that may be booked for a refund are worth. *)
Payments(r) == [e \in Transfer \cup {r} |-> IF e = r THEN remote[r].value ELSE Value[e]]

(* The leg, the capacity of the receipt, the hold and the accounts tell    *)
(* one story: every payment that was booked is there once, split into what *)
(* paid the debt, what exceeded it and what went astray; what is open is   *)
(* held and what is held is there; a receipt is neither promised nor       *)
(* declared invalid for more than it brought, however disputes and refunds *)
(* overtake each other.                                                    *)
BooksAgree ==
  /\ \A r \in Refund :
       LET l == leg[r]
       IN /\ l.settled = capacity[r].completed /\ l.settled <= Amount[r]
          /\ SumFunctionOnSet(Payments(r), booked[r])
               = l.settled + l.excess + l.misdirected
          /\ (capacity[r].state = "reserved") => (l.hold = Amount[r] - l.settled)
          /\ (capacity[r].state /= "reserved") => (l.hold = 0)
          /\ (capacity[r].state = "completed") <=> (l.settled = Amount[r])
  /\ \A r, s \in Refund : r /= s => booked[r] \cap booked[s] = {}
  /\ \A x \in Receipt : Available(x) >= 0 /\ Promised(x) + Invalid(x) <= Gross[x]

(* Whatever arrives late, a debt that was paid in full is over: no         *)
(* instruction for it is open or can still be given, and nothing of it is  *)
(* cancelled.                                                              *)
PaidDebtHasEnded ==
  \A r \in Refund : leg[r].settled = Amount[r] =>
    \/ leg[r].state = "completed" /\ leg[r].case = "completed"
    \/ leg[r].state = "exception" /\ leg[r].case = "exception" /\ leg[r].misdirected > 0

(* A refund is a debt that is paid by real payments only, see Debt.        *)
Debt == INSTANCE Debt WITH
  Debtor <- Refund,
  state <- [r \in Refund |->
    CASE leg[r].case = "none" -> "none"
      [] leg[r].case \in {"rejected", "cancelled"} -> "withdrawn"
      [] OTHER -> IF leg[r].case \in {"pending_review", "approved"}
                  THEN "promised" ELSE "due"],
  paid <- [r \in Refund |-> leg[r].settled],
  lost <- [r \in Refund |-> leg[r].excess + leg[r].misdirected],
  counted <- booked,
  Payment <- Transfer \cup Refund,
  Worth <- [e \in Transfer \cup Refund |->
              IF e \in Refund THEN Actual[e] ELSE {Value[e]}]
RefinesDebt == Debt!Spec

(* RunningIsNeverSealed: "Unknown or running executions cannot be sealed." *)
(* A sealed execution is one the provider has refused or paid.             *)
RunningIsNeverSealed ==
  \A r \in Refund : row[r].sealed => remote[r].state \in {"refused", "paid"}
=============================================================================
