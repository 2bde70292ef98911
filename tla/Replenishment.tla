---------------------------- MODULE Replenishment ----------------------------
(***************************************************************************)
(* The automatic replenishment of one buyer: internal/cooperation/         *)
(* replenishment.go and wholesale.go, with the handlers of purchase orders *)
(* (portal/procurement.go, finance.go), the delivery jobs and the refunds  *)
(* of undelivered purchases (remediation).                                 *)
(*                                                                         *)
(* An authorization lets the worker prepare a purchase order, collect its  *)
(* price from a stored payment method and deliver it.  Every transaction   *)
(* and every call of the provider is a step of its own, so that staff, the *)
(* buyer, another worker, the provider and a crash come between any two.   *)
(* One purchase costs one unit of money.  Whether the stock has fallen to  *)
(* the trigger, and whether the supplier can cover the sale, is left open. *)
(* The orders are those of the worker, those the buyer places itself and   *)
(* those that staff make out of a receipt; only the first have an attempt. *)
(***************************************************************************)
EXTENDS Integers, FiniteSets

CONSTANTS
  Orders,        \* bound: purchase orders
  Transfer,      \* receipts of payments outside the checkout
  Worker,        \* processes that call Replenisher.Run
  Limit,         \* period_limit_money, in purchases
  Versions,      \* bound: versions of the authorization
  Periods,       \* bound: budget windows
  FirstMode,     \* bound: modes of the first authorization
  None

Order == 1 .. Orders
Way == {"automatic", "online"}
Payment == Order \X Way

VARIABLES
  period,        \* the current budget window
  auth,          \* cooperation_replenishment_authorizations
  order,         \* status of cooperation_purchase_orders, "none" before creation
  receipt,       \* receipt[o]: the payment allocated to o
  attempt,       \* attempt[o]: the cooperation_replenishment_attempts row of o
  checkout,      \* portal_procurement_checkouts: kind of the merchant chosen
  intent,        \* intent[o]: the payments_intents row of the online checkout
  payment,       \* payment[p]: what became of p at the provider
  run            \* run[w]: memory of a worker that has claimed an attempt

authVars == <<period, auth>>
moneyVars == <<receipt, checkout, intent, payment>>
vars == <<authVars, order, attempt, moneyVars, run>>

Mode == {"automatic", "offline"}
\* "cancelled": the last change was a cancellation.
Authorization == [enabled : BOOLEAN, cancelled : BOOLEAN, version : Nat, mode : Mode]

(* "pending" stands for every state from which an attempt is only verified:*)
(* submitting, outcome_unknown, awaiting_payment, awaiting_manual_payment  *)
(* and needs_attention.  "changed" is the error code                       *)
(* authorization_changed_before_submission.                                *)
Finished == {"completed", "cancelled_unpaid"}
Attempt == [state : {"prepared", "pending"} \cup Finished, version : Nat, mode : Mode,
            period : Nat, changed : BOOLEAN, leased : BOOLEAN]
Step == {"deliver", "create", "lookup", "apply", "save"}
Running == [order : Order, step : Step, result : {"pending"} \cup Finished]

ASSUME ReplenishmentAssumption ==
  /\ FirstMode \subseteq Mode
  /\ Orders \in Nat /\ Limit \in Nat /\ Versions \in Nat /\ Periods \in Nat
  /\ None \notin Payment /\ None \notin Transfer /\ Payment \cap Transfer = {}
  /\ None \notin Attempt /\ None \notin Running

\* "kept" stands for executing, created and outcome_unknown.
Intent == {"none", "kept", "failed"}
\* "recorded": there is a receipt fact.
Known == {"open", "captured", "recorded"}

TypeOK ==
  /\ period \in Nat
  /\ auth \in Authorization
  /\ order \in [Order -> {"none", "awaiting", "paid", "completed", "exception", "closed"}]
  /\ receipt \in [Order -> Payment \cup Transfer \cup {None}]
  /\ attempt \in [Order -> Attempt \cup {None}]
  /\ checkout \in [Order -> {"none", "manual", "online"}]
  /\ intent \in [Order -> Intent]
  /\ payment \in [Payment -> {"none"} \cup Known]
  /\ run \in [Worker -> Running \cup {None}]

Init ==
  /\ period = 1
  /\ \E mode \in FirstMode :
       auth = [enabled |-> TRUE, cancelled |-> FALSE, version |-> 1, mode |-> mode]
  /\ order = [o \in Order |-> "none"]
  /\ receipt = [o \in Order |-> None]
  /\ attempt = [o \in Order |-> None]
  /\ checkout = [o \in Order |-> "none"]
  /\ intent = [o \in Order |-> "none"]
  /\ payment = [p \in Payment |-> "none"]
  /\ run = [w \in Worker |-> None]

-----------------------------------------------------------------------------
Fresh(o) == order[o] = "none" /\ \A p \in 1 .. o - 1 : order[p] # "none"

Receipts == {p \in Payment : payment[p] = "recorded"} \cup Transfer
Free(r) == r \in Receipts /\ \A o \in Order : receipt[o] # r

\* Mutant: what staff have to look at no longer counts as under way.
OnlyPrepared == {o \in Order : attempt[o] # None /\ attempt[o].state = "prepared"}
Active == {o \in Order : attempt[o] # None /\ attempt[o].state \notin Finished}

\* Mutant: what is delivered no longer counts.
OnlyActive(q) == {o \in Active : attempt[o].period = q}
(* What counts against the limit of a period.                              *)
Committed(q) ==
  {o \in Order : attempt[o] # None /\ attempt[o].period = q /\ attempt[o].state # "cancelled_unpaid"}

(* UsesAutomaticPayment.                                                   *)
Automatic(o) == attempt[o] # None /\ ~attempt[o].changed /\ attempt[o].mode = "automatic"

-----------------------------------------------------------------------------
(* The authorization.  A save holds the cooperation lock of the buyer from *)
(* its reading of the row to its commit, but a cancellation does not take  *)
(* this lock: a save that had read the row before the last cancellation    *)
(* overwrites it under the same version.                                   *)

Change(new) ==
  /\ auth' = new
  /\ UNCHANGED <<period, order, attempt, moneyVars, run>>

SaveAuthorization(enabled, mode) ==
  \E version \in {auth.version + 1} \cup (IF auth.cancelled THEN {auth.version} ELSE {}) :
    /\ version <= Versions
    /\ Change([enabled |-> enabled, cancelled |-> FALSE, version |-> version, mode |-> mode])

CancelAuthorization ==
  /\ auth.version < Versions
  /\ Change([auth EXCEPT !.enabled = FALSE, !.cancelled = TRUE, !.version = @ + 1])

SuspendReplenishment ==
  /\ auth.enabled /\ auth.version < Versions
  /\ Change([auth EXCEPT !.enabled = FALSE, !.version = @ + 1])

-----------------------------------------------------------------------------
(* The worker.                                                             *)

Prepare(o) ==
  /\ auth.enabled
  /\ Fresh(o)
  /\ Active = {}
  /\ Cardinality(Committed(period)) + 1 <= Limit
  /\ order' = [order EXCEPT ![o] = "awaiting"]
  /\ attempt' = [attempt EXCEPT ![o] =
       [state |-> IF auth.mode = "automatic" THEN "prepared" ELSE "pending",
        version |-> auth.version, mode |-> auth.mode, period |-> period,
        changed |-> FALSE, leased |-> FALSE]]
  /\ UNCHANGED <<authVars, moneyVars, run>>

\* Mutant: a change of the authorization is noted at any time.
LateChange(o) ==
  /\ attempt[o].mode = "automatic"
  /\ ~(auth.enabled /\ auth.version = attempt[o].version)
(* Only an attempt that was never submitted may be given back to the buyer.*)
Changed(o) ==
  /\ attempt[o].state = "prepared"
  /\ ~(auth.enabled /\ auth.version = attempt[o].version)

At(w, step) == run[w] # None /\ run[w].step = step

Begin(w, o, step, result) == run' = [run EXCEPT ![w] = [order |-> o, step |-> step, result |-> result]]

GoOn(w, step) == Begin(w, run[w].order, step, run[w].result)

Report(w, result) == Begin(w, run[w].order, "save", result)

(* process: what the order says is decisive, the attempt only for whether  *)
(* the payment is to be submitted, which one run alone does.               *)
Process(w, o, changed, submit) ==
  IF changed THEN Begin(w, o, "save", "pending")
  ELSE \/ order[o] = "completed" /\ Begin(w, o, "save", "completed")
       \/ order[o] = "closed" /\ Begin(w, o, "save", "cancelled_unpaid")
       \/ order[o] = "paid" /\ Begin(w, o, "deliver", "pending")
       \/ /\ order[o] \in {"awaiting", "exception"}
          /\ IF attempt[o].mode = "offline" THEN Begin(w, o, "save", "pending")
             ELSE Begin(w, o, IF submit THEN "create" ELSE "lookup", "pending")

(* The second transaction of Run, with the first look at the order: what   *)
(* comes between the two is met by the steps that follow.                  *)
Claim(w, o) ==
  /\ run[w] = None
  /\ o \in Active /\ ~attempt[o].leased
  /\ LET changed == attempt[o].changed \/ Changed(o) IN
     /\ attempt' = [attempt EXCEPT
          ![o].state = "pending", ![o].leased = TRUE, ![o].changed = changed]
     /\ Process(w, o, changed, attempt[o].state = "prepared")
  /\ UNCHANGED <<authVars, order, moneyVars>>

(* FulfillPurchase of an order found paid; it is refused when the order    *)
(* was held for a refund since, and may fail.                              *)
Deliver(w, ok) ==
  /\ At(w, "deliver")
  /\ LET o == run[w].order IN
     IF ok /\ order[o] \in {"paid", "completed"}
     THEN order' = [order EXCEPT ![o] = "completed"] /\ Report(w, "completed")
     ELSE UNCHANGED order /\ Report(w, "pending")
  /\ UNCHANGED <<authVars, attempt, moneyVars>>

(* Payments.Create, with the state that it stores left out: whatever went  *)
(* wrong, the attempt waits for what a lookup finds.                       *)
Opens(p, opened) == payment' = IF opened THEN [payment EXCEPT ![p] = "open"] ELSE payment

Create(w, opened, answered) ==
  /\ At(w, "create")
  /\ Opens(<<run[w].order, "automatic">>, opened)
  /\ answered => opened
  /\ IF answered THEN GoOn(w, "apply") ELSE Report(w, "pending")
  /\ UNCHANGED <<authVars, order, attempt, receipt, checkout, intent>>

(* Payments.Reconcile; its failure is ignored.                             *)
Lookup(w, ok) ==
  /\ At(w, "lookup")
  /\ LET p == <<run[w].order, "automatic">> IN
     payment' = IF ok /\ payment[p] = "captured" THEN [payment EXCEPT ![p] = "recorded"] ELSE payment
  /\ GoOn(w, "apply")
  /\ UNCHANGED <<authVars, order, attempt, receipt, checkout, intent>>

(* fundPurchase: an awaiting order takes a free receipt; a repeated        *)
(* application of the same receipt changes nothing.                        *)
Allocates(o, r) == order[o] = "awaiting" /\ Free(r)

(* applyReceipt: the order is completed with the allocation, or nothing is *)
(* kept of it.                                                             *)
CanComplete(o, r) ==
  /\ r \in Receipts
  /\ \/ Allocates(o, r)
     \/ receipt[o] = r /\ order[o] = "paid"
CompleteWith(o, r) ==
  /\ order' = [order EXCEPT ![o] = "completed"]
  /\ receipt' = [receipt EXCEPT ![o] = r]

Apply(w, ok) ==
  /\ At(w, "apply")
  /\ LET o == run[w].order
         p == <<o, "automatic">> IN
     \/ ok /\ CanComplete(o, p) /\ CompleteWith(o, p) /\ Report(w, "completed")
     \/ /\ ~(ok /\ CanComplete(o, p))
        /\ UNCHANGED <<order, receipt>>
        /\ Report(w, IF order[o] = "completed" THEN "completed" ELSE "pending")
  /\ UNCHANGED <<authVars, attempt, checkout, intent, payment>>

(* The index cooperation_one_replenishment_pending refuses to bring a row  *)
(* back beside another active one.                                         *)
Refused(o, result) == result = "pending" /\ attempt[o].state \in Finished /\ Active # {}

\* Mutant: a payment that is not verified yet ends the attempt.
GivenUp(o, result) ==
  IF result = "pending" /\ payment[<<o, "automatic">>] # "recorded" THEN "cancelled_unpaid" ELSE result
(* The result is written whoever holds the attempt by now.                 *)
Stored(o, result) == result

Save(w) ==
  /\ At(w, "save")
  /\ LET o == run[w].order IN
     IF Refused(o, run[w].result)
     THEN UNCHANGED attempt
     ELSE attempt' = [attempt EXCEPT ![o].state = Stored(o, run[w].result), ![o].leased = FALSE]
  /\ run' = [run EXCEPT ![w] = None]
  /\ UNCHANGED <<authVars, order, moneyVars>>

(* The process dies, or a transaction of the run fails.                    *)
Crash(w) ==
  /\ run[w] # None
  /\ run' = [run EXCEPT ![w] = None]
  /\ UNCHANGED <<authVars, order, attempt, moneyVars>>

(* After a minute, which a stalled process may outlast.                    *)
LeaseExpires(o) ==
  /\ attempt[o] # None /\ attempt[o].leased
  /\ attempt' = [attempt EXCEPT ![o].leased = FALSE]
  /\ UNCHANGED <<authVars, order, moneyVars, run>>

-----------------------------------------------------------------------------
(* The buyer.                                                              *)

PlaceOrder(o) ==
  /\ Fresh(o)
  /\ order' = [order EXCEPT ![o] = "awaiting"]
  /\ UNCHANGED <<authVars, attempt, moneyVars, run>>

(* procurementPayment: the choice of a merchant is stored first.           *)
OpenCheckout(o, driver) ==
  /\ ~Automatic(o)
  /\ checkout[o] = "none" /\ order[o] = "awaiting"
  /\ checkout' = [checkout EXCEPT ![o] = driver]
  /\ UNCHANGED <<authVars, order, attempt, receipt, intent, payment, run>>

(* The payment is created then, or by a repeated request; nothing is read  *)
(* of the order any more.  ErrProvider and ErrInvalid are stored as failed,*)
(* which a driver also says of a payment that it has opened, when it       *)
(* cannot read or use the answer.                                          *)
CreateOnline(o, state, opened) ==
  /\ checkout[o] = "online" /\ intent[o] = "none"
  /\ intent' = [intent EXCEPT ![o] = state]
  /\ Opens(<<o, "online">>, opened)
  /\ UNCHANGED <<authVars, order, attempt, receipt, checkout, run>>

(* The action "cancel" with purchasePaymentMayClose.                       *)
MayClose(o) ==
  /\ order[o] = "awaiting" /\ ~Automatic(o)
  /\ \/ checkout[o] # "online"
     \/ intent[o] = "failed" /\ payment[<<o, "online">>] # "recorded"

ClosePurchase(o) ==
  /\ MayClose(o)
  /\ order' = [order EXCEPT ![o] = "closed"]
  /\ UNCHANGED <<authVars, attempt, moneyVars, run>>

-----------------------------------------------------------------------------
(* The supplier's staff.                                                   *)

(* The action "fund", which delivers too, and allocateWholeSalesReceipt,   *)
(* which keeps the allocation when the delivery fails.                     *)
FundPurchase(o, r, delivered) ==
  /\ ~Automatic(o) /\ checkout[o] # "online"
  /\ Allocates(o, r)
  /\ receipt' = [receipt EXCEPT ![o] = r]
  /\ order' = [order EXCEPT ![o] = IF delivered THEN "completed" ELSE "paid"]
  /\ UNCHANGED <<authVars, attempt, checkout, intent, payment, run>>

FulfillPurchase(o) ==
  /\ order[o] = "paid"
  /\ order' = [order EXCEPT ![o] = "completed"]
  /\ UNCHANGED <<authVars, attempt, moneyVars, run>>

(* An order for a payment already received, created, paid and delivered in *)
(* one transaction.                                                        *)
PurchaseFromReceipt(o, r) ==
  /\ Fresh(o) /\ Free(r)
  /\ CompleteWith(o, r)
  /\ UNCHANGED <<authVars, attempt, checkout, intent, payment, run>>

(* A refund of a purchase that was not delivered: requested, given up, or  *)
(* approved, which moves the money to the refund.                          *)
MarkUndeliveredPurchaseRefund(o) ==
  /\ order[o] = "paid"
  /\ order' = [order EXCEPT ![o] = "exception"]
  /\ UNCHANGED <<authVars, attempt, moneyVars, run>>

ClearUndeliveredPurchaseRefund(o) ==
  /\ order[o] = "exception"
  /\ order' = [order EXCEPT ![o] = "paid"]
  /\ UNCHANGED <<authVars, attempt, moneyVars, run>>

CloseUndeliveredPurchase(o) ==
  /\ order[o] = "exception"
  /\ order' = [order EXCEPT ![o] = "closed"]
  /\ UNCHANGED <<authVars, attempt, moneyVars, run>>

-----------------------------------------------------------------------------
(* Providers, webhooks and delivery jobs.                                  *)

ProviderCaptures(p) ==
  /\ payment[p] = "open"
  /\ payment' = [payment EXCEPT ![p] = "captured"]
  /\ UNCHANGED <<authVars, order, attempt, receipt, checkout, intent, run>>

RecordFact(p) ==
  /\ payment[p] = "captured"
  /\ payment' = [payment EXCEPT ![p] = "recorded"]
  /\ UNCHANGED <<authVars, order, attempt, receipt, checkout, intent, run>>

(* deliverProcurementReceipt.  The job of an automatic payment finds no    *)
(* checkout and fails.                                                     *)
DeliverByJob(o) ==
  /\ checkout[o] = "online"
  /\ CanComplete(o, <<o, "online">>)
  /\ CompleteWith(o, <<o, "online">>)
  /\ UNCHANGED <<authVars, attempt, checkout, intent, payment, run>>

(* Nothing depends on the window before the first attempt in it.           *)
NextPeriod ==
  /\ period < Periods /\ Committed(period) # {}
  /\ period' = period + 1
  /\ UNCHANGED <<auth, order, attempt, moneyVars, run>>

-----------------------------------------------------------------------------
Authorize ==
  \/ \E enabled \in BOOLEAN, mode \in Mode : SaveAuthorization(enabled, mode)
  \/ CancelAuthorization
  \/ SuspendReplenishment

Work(w) ==
  \/ \E o \in Order : Claim(w, o)
  \/ \E ok \in BOOLEAN : Deliver(w, ok) \/ Lookup(w, ok) \/ Apply(w, ok)
  \/ \E opened, answered \in BOOLEAN : Create(w, opened, answered)
  \/ Save(w)
  \/ Crash(w)

Buy(o) ==
  \/ PlaceOrder(o)
  \/ \E driver \in {"manual", "online"} : OpenCheckout(o, driver)
  \/ \E state \in {"kept", "failed"}, opened \in BOOLEAN : CreateOnline(o, state, opened)
  \/ ClosePurchase(o)

Sell(o) ==
  \/ \E r \in Payment \cup Transfer :
       \/ \E delivered \in BOOLEAN : FundPurchase(o, r, delivered)
       \/ PurchaseFromReceipt(o, r)
  \/ FulfillPurchase(o)
  \/ MarkUndeliveredPurchaseRefund(o)
  \/ ClearUndeliveredPurchaseRefund(o)
  \/ CloseUndeliveredPurchase(o)

Next ==
  \/ Authorize
  \/ \E o \in Order : Prepare(o) \/ LeaseExpires(o) \/ Buy(o) \/ Sell(o) \/ DeliverByJob(o)
  \/ \E w \in Worker : Work(w)
  \/ \E p \in Payment : ProviderCaptures(p) \/ RecordFact(p)
  \/ NextPeriod

Spec == Init /\ [][Next]_vars

(* Leases run out; attempts are claimed again and again, and no step of a  *)
(* run fails for ever.                                                     *)
Progress ==
  /\ WF_vars(\E o \in Order : LeaseExpires(o))
  /\ WF_vars(\E w \in Worker, o \in Order : Claim(w, o))
  /\ WF_vars(\E w \in Worker : Save(w))
  /\ SF_vars(\E w \in Worker : Lookup(w, TRUE))
  /\ SF_vars(\E w \in Worker : Apply(w, TRUE))

FairSpec == Spec /\ Progress

-----------------------------------------------------------------------------
(* Properties.                                                             *)

Held(p) == payment[p] \in Known

(* An order is paid by one way only.  While the provider may have money of *)
(* an automatic payment, or the buyer's online payment, neither the buyer  *)
(* nor staff settle the order by another payment, although the             *)
(* authorization is changed or cancelled in between; an order holds the    *)
(* money that was allocated to it alone; and it is not given up while such *)
(* a payment is under way.  The code keeps the last but for one case,      *)
(* which is named here: purchasePaymentMayClose takes a creation stored as *)
(* failed for "definitively rejected", though the payment may be open or   *)
(* captured already.                                                       *)
StoredAsFailed(o, way) == way = "online" /\ intent[o] = "failed"
OneWayToPay ==
  /\ \A o \in Order :
       /\ ~(Held(<<o, "automatic">>) /\ Held(<<o, "online">>))
       /\ \A way \in Way : Held(<<o, way>>) =>
            /\ receipt[o] \in {None, <<o, way>>}
            /\ order[o] = "closed" => receipt[o] = <<o, way>> \/ StoredAsFailed(o, way)
  /\ \A o, q \in Order : receipt[o] = receipt[q] => o = q \/ receipt[o] = None

(* One automatic purchase at a time: while the order of one is neither     *)
(* delivered nor closed there is no other ("prevents the same procurement  *)
(* account from starting a second unfinished automatic replenishment"),    *)
(* although results are written without a look at the lease.               *)
OneAtATime ==
  \A o, q \in Order :
    /\ attempt[o] # None /\ order[o] \notin {"completed", "closed"}
    /\ attempt[q] # None /\ order[q] \notin {"completed", "closed"}
    => o = q

(* What the automatic payments of a budget window may take, and did not    *)
(* give back, stays within its limit, whatever becomes of the attempts.    *)
Collected(q) ==
  {o \in Order : attempt[o] # None /\ attempt[o].period = q
                 /\ Held(<<o, "automatic">>) /\ order[o] # "closed"}

CollectedWithinLimit == \A q \in 1 .. Periods : Cardinality(Collected(q)) <= Limit

(* An automatic payment that was made ends in a delivery or in a refund of *)
(* its order, whichever answers and runs were lost, unless staff gave its  *)
(* receipt to another order.                                               *)
Elsewhere(r, o) == \E q \in Order \ {o} : receipt[q] = r

PaidIsDelivered ==
  \A o \in Order :
    payment[<<o, "automatic">>] \in {"captured", "recorded"}
      ~> order[o] \in {"completed", "exception", "closed"} \/ Elsewhere(<<o, "automatic">>, o)
=============================================================================
