------------------------------ MODULE Checkout ------------------------------
(***************************************************************************)
(* A customer's orders from the quote to the delivery: internal/commerce   *)
(* (the order), internal/payments (intents, verified facts, receipts), the *)
(* handlers and workers of internal/portal that drive both, and the        *)
(* refund of a paid package that was never delivered                       *)
(* (internal/remediation).                                                 *)
(*                                                                         *)
(* An action is one database transaction or one call of a payment          *)
(* provider; payments.Create and the cancellation of an order are cut      *)
(* where another actor can step in.  The wallet, the supply of the         *)
(* operator and one campaign are shared by all orders, so an order closed  *)
(* for lack of payment gives up what a timely payment, seen later, has to  *)
(* win back.                                                               *)
(***************************************************************************)
EXTENDS Integers, FiniteSets, Functions

CONSTANTS
  Order, Method,
  Online,      \* the methods that are not confirmed by hand: driver <> 'manual'
  Offers,      \* Offers[o]: the terms o may be created with
  Wallet,      \* customer:money at the start
  Supply,      \* packages the operator's procurement balance covers
  Places,      \* TotalUseLimit of the campaign
  Window,      \* UnpaidPaymentWindow, in ticks
  Attempts,    \* MaxAttempts of a portal-delivery job
  None

VARIABLES
  terms, order,      \* commerce_orders, with its commitment and its campaign snapshot
  left,              \* left[o]: ticks until expires_at
  method,            \* portal_order_checkout.merchant_id
  pay,               \* pay[o][m]: the rows that belong to a payment of o through m
  call,              \* call[o][m]: memory of payments.Create
  provider,          \* provider[o][m]: what happened at the provider
  cancelling,        \* orders whose cancellation has passed its checks
  money, sales,      \* customer:money and control:sales
  funds, payable,    \* order:funds and refund:payable, by order
  campaign,          \* reserved_uses and used_uses
  delivered          \* delivered[o]: rows of commerce_deliveries

ledgerVars == <<money, sales, funds, payable>>
orderVars == <<terms, order, campaign, delivered>>
payVars == <<method, pay, call, provider>>
vars == <<orderVars, ledgerVars, payVars, left, cancelling>>

(* What an order costs: internal from the wallet, external from a payment. *)
Terms == [kind : {"package", "topup"}, internal : Nat, external : Nat]

ASSUME OrdersAssumption == IsFiniteSet(Order)
ASSUME OnlineAssumption == Online \subseteq Method
ASSUME OffersAssumption ==
  /\ Offers \in [Order -> SUBSET Terms]
  /\ \A o \in Order : \A t \in Offers[o] :
       t.internal + t.external > 0 /\ (t.kind = "topup" => t.internal = 0)
ASSUME AmountsAssumption ==
  /\ Wallet \in Nat /\ Supply \in Nat /\ Places \in Nat /\ Window \in Nat
  /\ Attempts \in Nat \ {0}

Commitment == {"none", "reserved", "released", "fulfilled"}
Intent == {"none", "executing", "created", "outcome_unknown", "failed",
           "awaiting_settlement", "verified_pending_receipt", "verified"}
Row == [status : {"none", "pending", "paid", "exception", "completed", "closed"},
        reason : {"", "restore", "refund"},
        internal : {"none", "held", "released", "captured"},
        coverage : Commitment, place : Commitment, allocated : Nat]
Rows == [intent : Intent, fact : {"none", "awaiting", "pending", "recorded"},
         receipt : {"none", "free", "allocated"},
         job : {"none", "ready", "done", "dead"}, tries : Nat]

TypeOK ==
  /\ terms \in [Order -> Terms \cup {None}]
  /\ order \in [Order -> Row]
  /\ left \in [Order -> Nat]
  /\ method \in [Order -> Method \cup {None}]
  /\ pay \in [Order -> [Method -> Rows]]
  /\ call \in [Order -> [Method -> {"none", "calling", "created", "outcome_unknown", "failed"}]]
  /\ provider \in [Order -> [Method -> {"none", "open", "timely", "late"}]]
  /\ cancelling \subseteq Order
  /\ money \in Nat /\ sales \in Nat
  /\ funds \in [Order -> Nat] /\ payable \in [Order -> Nat]
  /\ campaign \in [reserved : Nat, used : Nat]
  /\ delivered \in [Order -> Nat]

NoPayment == [intent |-> "none", fact |-> "none", receipt |-> "none",
              job |-> "none", tries |-> 0]

Init ==
  /\ terms = [o \in Order |-> None]
  /\ order = [o \in Order |->
       [status |-> "none", reason |-> "", internal |-> "none",
        coverage |-> "none", place |-> "none", allocated |-> 0]]
  /\ left = [o \in Order |-> Window]
  /\ method = [o \in Order |-> None]
  /\ pay = [o \in Order |-> [m \in Method |-> NoPayment]]
  /\ call = [o \in Order |-> [m \in Method |-> "none"]]
  /\ provider = [o \in Order |-> [m \in Method |-> "none"]]
  /\ cancelling = {}
  /\ money = Wallet /\ sales = 0
  /\ funds = [o \in Order |-> 0] /\ payable = [o \in Order |-> 0]
  /\ campaign = [reserved |-> 0, used |-> 0]
  /\ delivered = [o \in Order |-> 0]

-----------------------------------------------------------------------------
(* What the orders hold of the wallet, the supply and the campaign.        *)

HoldOf == [o \in Order |-> IF order[o].internal = "held" THEN terms[o].internal ELSE 0]
Held == SumFunctionOnSet(HoldOf, Order)
Available == money - Held
InState(field(_), status) == {o \in Order : field(o) = status}
Coverage(o) == order[o].coverage
Place(o) == order[o].place
Covered == Cardinality(InState(Coverage, "reserved") \cup InState(Coverage, "fulfilled"))
Room == Covered < Supply
Free == campaign.reserved + campaign.used < Places

(* resolveCampaigns: a place that was given back is taken again as used,   *)
(* even when the campaign is full by now.                                  *)
Used(place, c) ==
  CASE place = "reserved" -> [reserved |-> c.reserved - 1, used |-> c.used + 1]
    [] place = "released" -> [c EXCEPT !.used = @ + 1]
    [] OTHER -> c
GivenBack(place, c) ==
  IF place = "reserved" THEN [c EXCEPT !.reserved = @ - 1] ELSE c

(* The single delivery of an order: money, credits, supply and campaign in *)
(* one transaction.                                                        *)
Deliver(o, t, row, c) ==
  /\ order' = [order EXCEPT ![o] =
       [row EXCEPT !.status = "completed", !.reason = "",
                   !.internal = IF t.internal > 0 THEN "captured" ELSE @,
                   !.coverage = IF t.kind = "package" THEN "fulfilled" ELSE @,
                   !.place = IF @ = "none" THEN @ ELSE "fulfilled"]]
  /\ campaign' = Used(row.place, c)
  /\ money' = money + (IF t.kind = "topup" THEN t.external ELSE -t.internal)
  /\ sales' = sales + (IF t.kind = "topup" THEN 0 ELSE t.internal + row.allocated)
  /\ funds' = [funds EXCEPT ![o] = @ - t.external]
  /\ delivered' = [delivered EXCEPT ![o] = @ + 1]
  /\ UNCHANGED payable

(* Fulfill after its early return for a completed order.  Commitments      *)
(* given up when the order was closed are restored: the supply always for  *)
(* money received from outside, the wallet only while it still covers it.  *)
Fulfill(o) ==
  LET row == order[o] t == terms[o] IN
  /\ row.status \in {"paid", "exception"} /\ row.reason # "refund"
  /\ row.allocated = t.external
  /\ row.coverage = "released" => Room \/ row.allocated > 0
  /\ row.internal = "released" => Available >= t.internal
  /\ Deliver(o, t, row, campaign)
  /\ UNCHANGED terms

\* Mutant: the campaign is not told.
GiveBackKeepsPlace(o) ==
  [order[o] EXCEPT !.status = "closed", !.reason = "",
     !.internal = IF @ = "held" THEN "released" ELSE @,
     !.coverage = IF @ = "reserved" THEN "released" ELSE @]
(* CloseOrder and ReleaseUndeliveredPackage: what is still held goes back. *)
GiveBack(o) ==
  [order[o] EXCEPT !.status = "closed", !.reason = "",
     !.internal = IF @ = "held" THEN "released" ELSE @,
     !.coverage = IF @ = "reserved" THEN "released" ELSE @,
     !.place = IF @ = "reserved" THEN "released" ELSE @]

-----------------------------------------------------------------------------
(* The customer orders.                                                    *)

(* A package takes its commitments with the order; one that the wallet     *)
(* pays in full is delivered in the same transaction.                      *)
CreatePackage(o, t, m, selected) ==
  LET row == [status |-> "pending", reason |-> "",
              internal |-> IF t.internal > 0 THEN "held" ELSE "none",
              coverage |-> "reserved",
              place |-> IF selected THEN "reserved" ELSE "none", allocated |-> 0]
      c == IF selected THEN [campaign EXCEPT !.reserved = @ + 1] ELSE campaign IN
  /\ order[o].status = "none" /\ t.kind = "package"
  /\ Room /\ Available >= t.internal
  /\ selected => Free
  /\ terms' = [terms EXCEPT ![o] = t]
  /\ IF t.external = 0
     THEN m = None /\ Deliver(o, t, row, c) /\ UNCHANGED method
     ELSE /\ m \in Method /\ method' = [method EXCEPT ![o] = m]
          /\ order' = [order EXCEPT ![o] = row] /\ campaign' = c
          /\ UNCHANGED <<ledgerVars, delivered>>
  /\ UNCHANGED <<pay, call, provider, left, cancelling>>

CreateTopUp(o, t, m) ==
  /\ order[o].status = "none" /\ t.kind = "topup"
  /\ terms' = [terms EXCEPT ![o] = t]
  /\ method' = [method EXCEPT ![o] = m]
  /\ order' = [order EXCEPT ![o].status = "pending"]
  /\ UNCHANGED <<campaign, delivered, ledgerVars, pay, call, provider, left, cancelling>>

(* Another method may take over only from one that failed for certain; the *)
(* advisory lock on the checkout keeps cancellations out.                  *)
ReplaceMethod(o, m) ==
  /\ order[o].status \notin {"none", "completed"} /\ o \notin cancelling
  /\ terms[o].external > 0 /\ order[o].allocated = 0
  /\ m # method[o] /\ pay[o][method[o]].intent = "failed"
  /\ \A n \in Method : pay[o][n].fact = "none"
  /\ method' = [method EXCEPT ![o] = m]
  /\ UNCHANGED <<orderVars, ledgerVars, pay, call, provider, left, cancelling>>

-----------------------------------------------------------------------------
(* payments.Create: claim, call the provider, store what it said.          *)

SetPay(o, m, rows) == pay' = [pay EXCEPT ![o][m] = rows]

ClaimIntent(o, m) ==
  /\ m = method[o] /\ order[o].status \notin {"none", "completed"}
  /\ pay[o][m].intent = "none" /\ left[o] > 0
  /\ SetPay(o, m, [pay[o][m] EXCEPT !.intent = "executing"])
  /\ call' = [call EXCEPT ![o][m] = "calling"]
  /\ UNCHANGED <<orderVars, ledgerVars, method, provider, left, cancelling>>

(* The answer.  A refusal need not mean that an online provider opened     *)
(* nothing: some drivers also call an answer they cannot read a failure.   *)
ProviderAnswers(o, m) ==
  /\ call[o][m] = "calling"
  /\ \E answer \in {"created", "failed"} \cup (IF m \in Online THEN {"outcome_unknown"} ELSE {}),
        opened \in BOOLEAN :
       /\ answer = "created" => opened
       /\ answer = "failed" /\ m \notin Online => ~opened
       /\ call' = [call EXCEPT ![o][m] = answer]
       /\ provider' = [provider EXCEPT ![o][m] = IF opened THEN "open" ELSE "none"]
  /\ UNCHANGED <<orderVars, ledgerVars, method, pay, left, cancelling>>

(* The state is written whatever the row holds by then.                    *)
SaveCheckout(o, m) ==
  /\ call[o][m] \in {"created", "outcome_unknown", "failed"}
  /\ SetPay(o, m, [pay[o][m] EXCEPT !.intent = call[o][m]])
  /\ call' = [call EXCEPT ![o][m] = "none"]
  /\ UNCHANGED <<orderVars, ledgerVars, method, provider, left, cancelling>>

(* The process dies: the intent stays executing and nobody calls again.    *)
LoseCheckout(o, m) ==
  /\ call[o][m] # "none"
  /\ call' = [call EXCEPT ![o][m] = "none"]
  /\ UNCHANGED <<orderVars, ledgerVars, method, pay, provider, left, cancelling>>

Pay(o, m) ==
  /\ provider[o][m] = "open"
  /\ provider' = [provider EXCEPT ![o][m] = IF left[o] > 0 THEN "timely" ELSE "late"]
  /\ UNCHANGED <<orderVars, ledgerVars, method, pay, call, left, cancelling>>

-----------------------------------------------------------------------------
(* A payment becomes a fact, and the fact a receipt with a delivery job.   *)

Attached == [intent |-> "verified", fact |-> "recorded", receipt |-> "free",
             job |-> "ready", tries |-> Attempts]

(* attachReceiptDurably: the fact survives a receipt that cannot be made.  *)
Attach(o, m) == SetPay(o, m, Attached)
KeepPending(o, m) ==
  SetPay(o, m, [pay[o][m] EXCEPT !.intent = "verified_pending_receipt", !.fact = "pending"])

(* A webhook, a lookup or a member of staff reports the payment.  Its      *)
(* value in the settlement currency may have to be confirmed by hand.      *)
RecordFact(o, m) ==
  /\ provider[o][m] \in {"timely", "late"}
  /\ pay[o][m].intent # "none" /\ pay[o][m].fact = "none"
  /\ \/ Attach(o, m)
     \/ KeepPending(o, m)
     \/ SetPay(o, m, [pay[o][m] EXCEPT !.intent = "awaiting_settlement", !.fact = "awaiting"])
  /\ UNCHANGED <<orderVars, ledgerVars, method, call, provider, left, cancelling>>

ConfirmReceiptValuation(o, m) ==
  /\ pay[o][m].fact = "awaiting"
  /\ Attach(o, m) \/ KeepPending(o, m)
  /\ UNCHANGED <<orderVars, ledgerVars, method, call, provider, left, cancelling>>

\* Mutant: only facts that await their settlement are looked at again.
RetryAwaiting(o, m) ==
  /\ pay[o][m].fact = "awaiting"
  /\ Attach(o, m)
  /\ UNCHANGED <<orderVars, ledgerVars, method, call, provider, left, cancelling>>
(* RunPendingFacts replays a fact without a receipt.                       *)
RetryFact(o, m) ==
  /\ pay[o][m].fact = "pending"
  /\ Attach(o, m)
  /\ UNCHANGED <<orderVars, ledgerVars, method, call, provider, left, cancelling>>

-----------------------------------------------------------------------------
(* A receipt is matched with its order, and the order delivered.           *)

(* A receipt pays for an order whole, once, made in time; the order may    *)
(* have any status but completed.                                          *)
\* Mutant: that the order was paid before goes unnoticed.
PaysTimely(o, m) ==
  /\ pay[o][m].receipt = "free" /\ provider[o][m] = "timely"
  /\ order[o].status # "completed"
PaysWhole(o, m) ==
  /\ pay[o][m].receipt = "free" /\ provider[o][m] = "timely"
  /\ order[o].status # "completed" /\ order[o].allocated = 0

(* A closed order becomes an exception: it has to win back what it gave up. *)
AllocateReceipt(o, m, rows) ==
  LET row == order[o]
      gone == row.status = "closed" \/ row.coverage = "released" \/ row.internal = "released" IN
  /\ PaysWhole(o, m)
  /\ order' = [order EXCEPT ![o] =
       [row EXCEPT !.allocated = terms[o].external,
                   !.status = IF gone THEN "exception" ELSE "paid",
                   !.reason = IF gone THEN "restore" ELSE @]]
  /\ funds' = [funds EXCEPT ![o] = @ + terms[o].external]
  /\ SetPay(o, m, rows)
  /\ UNCHANGED <<terms, campaign, delivered, money, sales, payable, method, call, provider,
                 left, cancelling>>

StaffAllocate(o, m) ==
  AllocateReceipt(o, m, [pay[o][m] EXCEPT !.receipt = "allocated"])

(* deliverReceipt: the allocation and the delivery are two transactions of *)
(* one job, which starts over until both are done.                         *)
JobAllocate(o, m) ==
  /\ pay[o][m].job = "ready"
  /\ AllocateReceipt(o, m, [pay[o][m] EXCEPT !.receipt = "allocated"])

JobDeliver(o, m) ==
  /\ pay[o][m].job = "ready" /\ pay[o][m].receipt = "allocated"
  /\ IF order[o].status = "completed" THEN UNCHANGED <<orderVars, ledgerVars>>
                                      ELSE Fulfill(o)
  /\ SetPay(o, m, [pay[o][m] EXCEPT !.job = "done"])
  /\ UNCHANGED <<method, call, provider, left, cancelling>>

JobFails(o, m) ==
  /\ pay[o][m].job = "ready"
  /\ SetPay(o, m, [pay[o][m] EXCEPT !.tries = @ - 1,
                                    !.job = IF pay[o][m].tries = 1 THEN "dead" ELSE @])
  /\ UNCHANGED <<orderVars, ledgerVars, method, call, provider, left, cancelling>>

\* Mutant: the worker looks at paid orders only.
RecoverPaid(o) ==
  /\ order[o].status = "paid" /\ Fulfill(o)
  /\ UNCHANGED <<payVars, left, cancelling>>
(* The worker's "delivery" task, for every order paid or in exception.     *)
RecoverDelivery(o) ==
  /\ Fulfill(o)
  /\ UNCHANGED <<payVars, left, cancelling>>

-----------------------------------------------------------------------------
(* Orders end unpaid.                                                      *)

customerOrderMayCancel(o) ==
  /\ order[o].status = "pending" /\ order[o].allocated = 0
  /\ \A m \in Online : pay[o][m].intent \in {"none", "failed"}
  /\ \A m \in Method : pay[o][m].fact = "none"
  /\ method[o] \in Online => pay[o][method[o]].intent = "failed"

(* The checks of a cancellation, then the order row.  A fact can be        *)
(* recorded in between, and an intent claimed by a call already under way. *)
BeginCancel(o) ==
  /\ o \notin cancelling /\ customerOrderMayCancel(o)
  /\ cancelling' = cancelling \cup {o}
  /\ UNCHANGED <<orderVars, ledgerVars, payVars, left>>

CancelOrder(o) == BeginCancel(o)
ExpireUnpaidOrder(o) == left[o] = 0 /\ BeginCancel(o)

\* Mutant: the row is not looked at again under its lock.
CloseUnchecked(o) ==
  /\ o \in cancelling /\ cancelling' = cancelling \ {o}
  /\ order' = [order EXCEPT ![o] = GiveBack(o)]
  /\ campaign' = GivenBack(order[o].place, campaign)
  /\ UNCHANGED <<terms, delivered, ledgerVars, payVars, left>>
CloseOrder(o) ==
  /\ o \in cancelling /\ cancelling' = cancelling \ {o}
  /\ IF order[o].status = "pending" /\ order[o].allocated = 0
     THEN /\ order' = [order EXCEPT ![o] = GiveBack(o)]
          /\ campaign' = GivenBack(order[o].place, campaign)
     ELSE UNCHANGED <<order, campaign>>
  /\ UNCHANGED <<terms, delivered, ledgerVars, payVars, left>>

-----------------------------------------------------------------------------
(* A paid package that was not delivered is refunded.                      *)

RequestRefund(o) ==
  /\ order[o].status \in {"paid", "exception"} /\ order[o].reason # "refund"
  /\ terms[o].kind = "package" /\ order[o].allocated = terms[o].external
  /\ order' = [order EXCEPT ![o].status = "exception", ![o].reason = "refund"]
  /\ UNCHANGED <<terms, campaign, delivered, ledgerVars, payVars, left, cancelling>>

RejectRefund(o) ==
  LET gone == order[o].coverage = "released" \/ order[o].internal = "released" IN
  /\ order[o].reason = "refund"
  /\ order' = [order EXCEPT ![o].status = IF gone THEN "exception" ELSE "paid",
                            ![o].reason = IF gone THEN "restore" ELSE ""]
  /\ UNCHANGED <<terms, campaign, delivered, ledgerVars, payVars, left, cancelling>>

ApproveRefund(o) ==
  /\ order[o].reason = "refund"
  /\ order' = [order EXCEPT ![o] = GiveBack(o)]
  /\ campaign' = GivenBack(order[o].place, campaign)
  /\ funds' = [funds EXCEPT ![o] = @ - order[o].allocated]
  /\ payable' = [payable EXCEPT ![o] = @ + order[o].allocated]
  /\ UNCHANGED <<terms, delivered, money, sales, payVars, left, cancelling>>

Tick(o) ==
  /\ order[o].status # "none" /\ left[o] > 0
  /\ left' = [left EXCEPT ![o] = @ - 1]
  /\ UNCHANGED <<orderVars, ledgerVars, payVars, cancelling>>

-----------------------------------------------------------------------------
Create(o) ==
  \/ \E t \in Offers[o], m \in Method \cup {None}, selected \in BOOLEAN :
       CreatePackage(o, t, m, selected)
  \/ \E t \in Offers[o], m \in Method : CreateTopUp(o, t, m)

Payment(o, m) ==
  \/ ReplaceMethod(o, m) \/ ClaimIntent(o, m) \/ ProviderAnswers(o, m)
  \/ SaveCheckout(o, m) \/ LoseCheckout(o, m) \/ Pay(o, m)
  \/ RecordFact(o, m) \/ ConfirmReceiptValuation(o, m) \/ RetryFact(o, m)
  \/ StaffAllocate(o, m)

JobStep(o, m) == JobAllocate(o, m) \/ JobDeliver(o, m) \/ JobFails(o, m)

Resolution(o) ==
  \/ RecoverDelivery(o) \/ CancelOrder(o) \/ ExpireUnpaidOrder(o) \/ CloseOrder(o)
  \/ RequestRefund(o) \/ RejectRefund(o) \/ ApproveRefund(o) \/ Tick(o)

Next ==
  \E o \in Order :
    \/ Create(o) \/ Resolution(o)
    \/ \E m \in Method : Payment(o, m) \/ JobStep(o, m)

Spec == Init /\ [][Next]_vars

(* Time passes, and the maintenance worker keeps scheduling the expiry of  *)
(* orders, the pending facts, the delivery jobs and the delivery recovery. *)
(* A receipt is assumed to be made in the end; customers, providers and    *)
(* staff owe nothing.                                                      *)
FairSpec ==
  /\ Spec
  /\ \A o \in Order :
       /\ WF_vars(Tick(o)) /\ WF_vars(RecoverDelivery(o))
       /\ WF_vars(ExpireUnpaidOrder(o)) /\ WF_vars(CloseOrder(o))
       /\ \A m \in Method : WF_vars(RetryFact(o, m)) /\ WF_vars(JobStep(o, m))

-----------------------------------------------------------------------------
Created == {o \in Order : order[o].status # "none"}

(* What was received for an order, and what of it is not spent yet.        *)
OnOrder == [o \in Order |-> funds[o] + payable[o]]
Received == [o \in Order |-> order[o].allocated]

(* An order ends once: delivered exactly when it is completed, its         *)
(* external payment spent, refunded or still on the order, and no money is *)
(* made or lost between wallet, orders, sales and refunds, however         *)
(* payments, cancellations and refunds overlap.                            *)
OneOutcome ==
  /\ \A o \in Order :
       /\ delivered[o] = IF order[o].status = "completed" THEN 1 ELSE 0
       /\ payable[o] > 0 => order[o].status = "closed"
       /\ funds[o] = IF order[o].status = "completed" \/ payable[o] > 0
                     THEN 0 ELSE order[o].allocated
  /\ money + sales + SumFunctionOnSet(OnOrder, Order)
       = Wallet + SumFunctionOnSet(Received, Order)

(* What an order holds of the wallet, the supply and the campaign follows  *)
(* its status, the wallet covers every hold, and the campaign's counters   *)
(* agree with the orders that hold or used a place.                        *)
CommitmentsFollowOrder ==
  /\ \A o \in Created :
       LET row == order[o] t == terms[o]
           keep(status) ==
             /\ row.internal = IF t.internal = 0 THEN "none" ELSE
                  CASE status = "reserved" -> "held" [] status = "released" -> "released"
                    [] OTHER -> "captured"
             /\ row.coverage = IF t.kind = "topup" THEN "none" ELSE status
             /\ row.place \in {"none", status} IN
       CASE row.status \in {"pending", "paid"} -> keep("reserved")
         [] row.status = "closed" \/ row.reason = "restore" -> keep("released")
         [] row.reason = "refund" -> keep("reserved") \/ keep("released")
         [] OTHER -> keep("fulfilled")
  /\ Held <= money
  /\ campaign.reserved = Cardinality(InState(Place, "reserved"))
  /\ campaign.used = Cardinality(InState(Place, "fulfilled"))

(* An order is the sale that Sale promises: paid once, then delivered or   *)
(* owed back, and never undone, whatever the cancellations, jobs, workers  *)
(* and members of staff that look at it at the same time do.               *)
Stage(row) ==
  CASE row.status = "none" -> "none"
    [] row.status = "pending" -> "open"
    [] row.status \in {"paid", "exception"} -> "paid"
    [] row.status = "completed" -> "delivered"
    [] row.status = "closed" -> IF row.allocated = 0 THEN "cancelled" ELSE "refunded"
Sale == INSTANCE Sale WITH
  deal <- terms, state <- [o \in Order |-> Stage(order[o])],
  purse <- money, earned <- sales, escrow <- funds, owed <- payable
RefinesSale == Sale!SaleSpec

(* A payment that became a fact without a receipt, or a receipt, is in the *)
(* end matched with its order, or its job has given up and is left to      *)
(* staff; a crash between the two never loses it.                          *)
RecordedPaymentIsMatched ==
  \A o \in Order, m \in Method :
    pay[o][m].fact \in {"pending", "recorded"} ~>
      pay[o][m].receipt = "allocated" \/ pay[o][m].job = "dead"

(* A paid order is delivered, or a refund of it is asked for: none is      *)
(* stranded, not even when every attempt of its job failed or when it was  *)
(* closed before its payment was seen.  (An exception that needs wallet    *)
(* money spent in the meantime waits for that money.)                      *)
PaidOrderIsDelivered ==
  \A o \in Order :
    order[o].status = "paid" \/ (order[o].reason = "restore" /\ terms[o].internal = 0) ~>
      order[o].status = "completed" \/ order[o].reason = "refund"
=============================================================================
