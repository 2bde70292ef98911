------------------------------ MODULE Renewals ------------------------------
(***************************************************************************)
(* The automatic renewal of one package by one customer:                   *)
(* internal/commerce/renewal.go, lifecycle.go, packages.go and transfer.go,*)
(* with the handler of the customer (portal/orders.go) and the worker's    *)
(* "renewal" task (portal/renewals.go).                                    *)
(*                                                                         *)
(* The customer consents to the terms of one quote.  A run of the task     *)
(* first records a notice of the terms and the date of the next charge and *)
(* then, in a second transaction, renews: worse terms wait for a new       *)
(* consent, missing funds for funds.  Meanwhile the operator publishes     *)
(* other terms, the customer cancels or consents again, the account is     *)
(* stopped and resumed, and a takeover moves the customer to another       *)
(* operator.                                                               *)
(*                                                                         *)
(* An action is one transaction, except where a transaction reads a row    *)
(* without locking it and uses what it read after other commits: the       *)
(* notice of a run and the stop of an account are cut there.               *)
(***************************************************************************)
EXTENDS Integers, Sequences

CONSTANTS
  Owner,         \* operators the customer may belong to
  Offers,        \* terms an operator may publish
  First,         \* the terms of the package bought, by the order the subscription goes back to
  Run,           \* runs of the renewal task that may be under way at once
  Funds,         \* the most the wallet, and the commission, can hold
  Horizon,       \* bound: the last tick
  Quotes,        \* bound: quotes published
  Versions,      \* bound: versions of the subscription after which only the worker acts
  None

VARIABLES
  now,
  quotes,        \* commerce_package_quotes, in the order of their publication
  package,       \* package[o]: current_quote_id and renewal_enabled of o's package
  owner,         \* the operator of the customer, and of the subscription
  sub,           \* the row of commerce_subscriptions
  notices,       \* portal_renewal_notices accepted: quote and date
  run,           \* run[r]: memory of runRenewal
  customer,      \* status of the customer
  stopping,      \* version a stop under way has read; 0 if it read no row
  money, commission,   \* what the customer can spend
  orders,        \* the renewal orders, each with the delivery made with it
  consent        \* the last consent, and whether a cancellation or stop ended it

customerVars == <<customer, stopping, consent>>
termsVars == <<quotes, package, owner>>
fundsVars == <<money, commission>>
vars == <<now, termsVars, sub, notices, run, customerVars, fundsVars, orders>>

Terms == [owner : Owner, price : Nat \ {0}, credits : Nat \ {0}, period : Nat \ {0}]

Notice == [quote : Nat, due : Nat]

ASSUME RenewalsAssumption ==
  /\ Offers \subseteq Terms /\ First \in Terms
  /\ Funds \in Nat /\ Horizon \in Nat /\ Quotes \in Nat /\ Versions \in Nat
  /\ None \notin Nat /\ None \notin Notice

Running == [step : {"notice", "renew"}, quote : Nat, due : Nat, accepted : BOOLEAN]
Status == {"none", "active", "needs_funds", "needs_confirmation", "cancelled"}
Row == [status : Status, quote : Nat, commission : BOOLEAN, due : Nat,
        notice : Notice \cup {None}, version : Nat]
Renewal == [at : Nat, due : Nat, quote : Nat, money : Nat, commission : Nat]
Consent == [quote : Nat, commission : BOOLEAN, ended : {"no", "stopping", "yes"}]
Published == 1 .. Len(quotes)

TypeOK ==
  /\ now \in Nat
  /\ quotes \in Seq(Terms)
  /\ package \in [Owner -> [quote : {0} \cup Published, open : BOOLEAN]]
  /\ owner \in Owner
  /\ sub \in Row /\ sub.quote \in Published
  /\ notices \subseteq Notice
  /\ run \in [Run -> Running \cup {None}]
  /\ customer \in {"active", "stopped"}
  /\ stopping \in Nat \cup {None}
  /\ money \in Nat /\ commission \in Nat
  /\ orders \subseteq Renewal /\ \A o \in orders : o.quote \in Published
  /\ consent \in Consent /\ consent.quote \in Published

Init ==
  /\ now = 0
  /\ quotes = <<First>>
  /\ package = [o \in Owner |-> [quote |-> IF o = First.owner THEN 1 ELSE 0, open |-> o = First.owner]]
  /\ owner = First.owner
  /\ sub = [status |-> "none", quote |-> 1, commission |-> FALSE, due |-> 0,
            notice |-> None, version |-> 0]
  /\ notices = {}
  /\ run = [r \in Run |-> None]
  /\ customer = "active" /\ stopping = None
  /\ money = Funds /\ commission = 0
  /\ orders = {}
  /\ consent = [quote |-> 1, commission |-> FALSE, ended |-> "yes"]

Current == package[owner].quote
Open == package[owner].open /\ Current > 0
Exists == sub.status # "none"
Delivered == sub.due > 0

\* Mutant: more credits make up for a higher price.
OnlyFewerCredits(old, next) ==
  old.owner # next.owner \/ next.credits < old.credits \/ next.period < old.period
(* RequiresRenewalConfirmation: any change for the worse, whatever gets    *)
(* better with it.                                                         *)
RequiresConfirmation(old, next) ==
  \/ old.owner # next.owner
  \/ next.price > old.price
  \/ next.credits < old.credits
  \/ next.period < old.period

-----------------------------------------------------------------------------
(* The operator and the rest of the world.                                 *)

PublishPackage(t, open) ==
  /\ Len(quotes) < Quotes
  /\ quotes' = Append(quotes, t)
  /\ package' = [package EXCEPT ![t.owner] = [quote |-> Len(quotes) + 1, open |-> open]]
  /\ UNCHANGED <<now, owner, sub, notices, run, customerVars, fundsVars, orders>>

(* TransferResponsibility; a stop under way holds the ownership row.       *)
TakeOver(o) ==
  /\ o # owner /\ stopping = None /\ sub.version < Versions
  /\ owner' = o
  /\ sub' = IF Exists
            THEN [sub EXCEPT !.status = IF @ = "cancelled" THEN @ ELSE "needs_confirmation",
                             !.notice = None, !.version = @ + 1]
            ELSE sub
  /\ UNCHANGED <<now, quotes, package, notices, run, customerVars, fundsVars, orders>>

(* The wallet and the commission have other uses.                          *)
FundsMove ==
  /\ money' \in 0 .. Funds /\ commission' \in 0 .. Funds
  /\ UNCHANGED <<now, termsVars, sub, notices, run, customerVars, orders>>

(* Nothing depends on the time before the delivery.                        *)
Tick ==
  /\ Delivered /\ now < Horizon
  /\ now' = now + 1
  /\ UNCHANGED <<termsVars, sub, notices, run, customerVars, fundsVars, orders>>

-----------------------------------------------------------------------------
(* The customer.                                                           *)

(* A consent names the quote it was shown and, for a subscription, its     *)
(* version, and is refused when either has changed; the handler holds the  *)
(* package while it stores the consent.                                    *)
Accept(allow) ==
  /\ Open /\ sub.version < Versions
  /\ sub' = [sub EXCEPT !.status = "active", !.quote = Current,
                        !.commission = allow, !.version = @ + 1]
  /\ consent' = [quote |-> Current, commission |-> allow, ended |-> "no"]
  /\ UNCHANGED <<now, termsVars, notices, run, customer, stopping, fundsVars, orders>>

(* The order is delivered, and renewed from then on if the customer asked  *)
(* for it when ordering; the order of a customer taken over meanwhile is   *)
(* not renewed without a new consent.                                      *)
Deliver(autoRenew, allow) ==
  /\ ~Delivered
  /\ sub' = [sub EXCEPT
       !.due = now + quotes[sub.quote].period,
       !.status = IF ~autoRenew THEN "none"
                  ELSE IF owner = quotes[sub.quote].owner THEN "active" ELSE "needs_confirmation",
       !.commission = allow /\ autoRenew,
       !.version = IF autoRenew THEN 1 ELSE 0]
  /\ consent' = [quote |-> sub.quote, commission |-> allow /\ autoRenew,
                 ended |-> IF autoRenew THEN "no" ELSE "yes"]
  /\ UNCHANGED <<now, termsVars, notices, run, customer, stopping, fundsVars, orders>>

(* EnableAutoRenewal by way of the order, while its delivery lasts; terms  *)
(* other than those of the order are confirmed in the same transaction.    *)
Enable(allow) ==
  /\ ~Exists /\ Delivered /\ now < sub.due
  /\ Accept(allow)

ConfirmRenewal(allow) ==
  /\ Exists /\ Accept(allow)

Ended(c) == [c EXCEPT !.ended = "yes"]

CancelAutoRenewal ==
  /\ Exists /\ sub.status # "cancelled"
  /\ sub' = [sub EXCEPT !.status = "cancelled", !.version = @ + 1]
  /\ consent' = Ended(consent)
  /\ UNCHANGED <<now, termsVars, notices, run, customer, stopping, fundsVars, orders>>

(* StopCustomerRenewals reads the rows it will cancel without a lock ...   *)
BeginStop ==
  /\ customer = "active" /\ stopping = None
  /\ stopping' = IF sub.status \in {"none", "cancelled"} THEN 0 ELSE sub.version
  /\ consent' = IF consent.ended = "no" THEN [consent EXCEPT !.ended = "stopping"] ELSE consent
  /\ UNCHANGED <<now, termsVars, sub, notices, run, customer, fundsVars, orders>>

\* Mutant: a row that changed meanwhile is left alone.
CancelUnchanged(row, seen) ==
  IF row.version = seen THEN [row EXCEPT !.status = "cancelled", !.version = seen + 1] ELSE row
(* ... and writes them, whatever was committed in between, with the        *)
(* version after the one it read.                                          *)
CancelRead(row, seen) == [row EXCEPT !.status = "cancelled", !.version = seen + 1]

StopUsing ==
  /\ stopping # None
  /\ sub' = IF stopping = 0 THEN sub ELSE CancelRead(sub, stopping)
  /\ customer' = "stopped" /\ stopping' = None
  /\ consent' = IF consent.ended = "stopping" THEN Ended(consent) ELSE consent
  /\ UNCHANGED <<now, termsVars, notices, run, fundsVars, orders>>

ResumeUsing ==
  /\ customer = "stopped" /\ sub.version < Versions
  /\ customer' = "active"
  /\ UNCHANGED <<now, termsVars, sub, notices, run, stopping, consent, fundsVars, orders>>

-----------------------------------------------------------------------------
(* The worker.                                                             *)

\* Mutant: one notice for each date, whatever the terms.
AcceptedForDate(q, due) == \E n \in notices : n.due = due
Accepted(q, due) == [quote |-> q, due |-> due] \in notices

(* The first transaction of runRenewal reads the subscription, the current *)
(* terms and the notice of both.  It may be the repeat of a run.           *)
BeginRun(r) ==
  /\ run[r] = None /\ sub.status \in {"active", "needs_funds"}
  /\ run' = [run EXCEPT ![r] =
       [step |-> IF Open THEN "notice" ELSE "renew", quote |-> Current, due |-> sub.due,
        accepted |-> Accepted(Current, sub.due)]]
  /\ UNCHANGED <<now, termsVars, sub, notices, customerVars, fundsVars, orders>>

(* What RecordRenewalNotice asks of a notice: it is about the next charge  *)
(* and about the package that is renewed.                                  *)
Recordable(n) ==
  /\ sub.status # "cancelled" /\ sub.due = n.due
  /\ quotes[n.quote].owner = owner /\ quotes[sub.quote].owner = owner

RecordNotice(r) ==
  LET n == [quote |-> run[r].quote, due |-> run[r].due] IN
  /\ run[r] # None /\ run[r].step = "notice"
  /\ run[r].accepted \/ Recordable(n)
  /\ IF run[r].accepted
     THEN UNCHANGED <<sub, notices>>
     ELSE /\ sub' = [sub EXCEPT !.notice = n, !.version = @ + 1]
          /\ notices' = notices \cup {n}
  /\ run' = [run EXCEPT ![r].step = "renew"]
  /\ UNCHANGED <<now, termsVars, customerVars, fundsVars, orders>>

FromMoney == IF money < quotes[Current].price THEN money ELSE quotes[Current].price
FromCommission ==
  LET rest == quotes[Current].price - FromMoney
  IN IF ~sub.commission THEN 0 ELSE IF commission < rest THEN commission ELSE rest
Funded == FromMoney + FromCommission = quotes[Current].price

Renewable == sub.status \in {"active", "needs_funds"} /\ now >= sub.due /\ Open
Worse == RequiresConfirmation(quotes[sub.quote], quotes[Current])
Noticed == sub.notice = [quote |-> Current, due |-> sub.due]

\* Mutant: the next period begins where the last one ended, not when the
\* renewal is delivered.
DueAfterDue(row, t) == row.due + t.period
(* Fulfill: the period begins with the delivery.                           *)
DueAfterDelivery(row, t) == now + t.period

(* RenewSubscription, with the order and its delivery: the row is locked,  *)
(* whatever the run has read before.                                       *)
AskConfirmation ==
  /\ Renewable /\ Worse
  /\ sub' = [sub EXCEPT !.status = "needs_confirmation", !.version = @ + 1]
  /\ UNCHANGED <<fundsVars, orders>>

AskFunds ==
  /\ Renewable /\ ~Worse /\ Noticed /\ ~Funded /\ sub.status # "needs_funds"
  /\ sub' = [sub EXCEPT !.status = "needs_funds", !.version = @ + 1]
  /\ UNCHANGED <<fundsVars, orders>>

Charge ==
  /\ Renewable /\ ~Worse /\ Noticed /\ Funded /\ customer = "active"
  /\ orders' = orders \cup
       {[at |-> now, due |-> sub.due, quote |-> Current,
         money |-> FromMoney, commission |-> FromCommission]}
  /\ money' = money - FromMoney /\ commission' = commission - FromCommission
  /\ sub' = [status |-> "active", quote |-> Current, commission |-> sub.commission,
             due |-> DueAfterDelivery(sub, quotes[Current]), notice |-> None,
             version |-> sub.version + 1]

Waits == ~Noticed \/ (~Funded /\ sub.status = "needs_funds") \/ (Funded /\ customer # "active")

RenewSubscription(r) ==
  /\ run[r] # None /\ run[r].step = "renew"
  /\ run' = [run EXCEPT ![r] = None]
  /\ IF now < run[r].due \/ ~Renewable \/ (~Worse /\ Waits)
     THEN UNCHANGED <<sub, fundsVars, orders>>
     ELSE AskConfirmation \/ AskFunds \/ Charge
  /\ UNCHANGED <<now, termsVars, notices, customerVars>>

(* The process dies, or a transaction is refused and rolled back, as that  *)
(* of a notice which is not recordable any more.                           *)
RunFails(r) ==
  /\ run[r] # None
  /\ run' = [run EXCEPT ![r] = None]
  /\ UNCHANGED <<now, termsVars, sub, notices, customerVars, fundsVars, orders>>

-----------------------------------------------------------------------------
Worker(r) == BeginRun(r) \/ RecordNotice(r) \/ RenewSubscription(r) \/ RunFails(r)

CustomerStep ==
  \/ CancelAutoRenewal \/ BeginStop \/ StopUsing \/ ResumeUsing
  \/ \E allow \in BOOLEAN : Enable(allow) \/ ConfirmRenewal(allow)
  \/ \E autoRenew, allow \in BOOLEAN : Deliver(autoRenew, allow)

World ==
  \/ FundsMove \/ Tick
  \/ \E t \in Offers, open \in BOOLEAN : PublishPackage(t, open)
  \/ \E o \in Owner : TakeOver(o)

Next == CustomerStep \/ World \/ \E r \in Run : Worker(r)

Spec == Init /\ [][Next]_vars

(* The schedule makes a new run while the subscription is due, every run   *)
(* ends (its context is cancelled after 45 s), and no transaction of a run *)
(* fails for ever.                                                         *)
FairSpec ==
  /\ Spec
  /\ \A r \in Run :
       /\ WF_vars(BeginRun(r)) /\ WF_vars(RunFails(r))
       /\ SF_vars(RecordNotice(r)) /\ SF_vars(RenewSubscription(r))

-----------------------------------------------------------------------------
(* Nothing is charged but what the customer has agreed to: on a consent    *)
(* that no cancellation and no stop of the account begun after it was      *)
(* stored has ended, on its terms or better ones announced for exactly     *)
(* this date, from the commission only what the wallet lacks and only if   *)
(* allowed.                                                                *)
ChargedAsAgreed ==
  [][\A o \in orders' \ orders :
       /\ consent.ended # "yes" /\ customer = "active"
       /\ ~RequiresConfirmation(quotes[consent.quote], quotes[o.quote])
       /\ o.at >= o.due /\ [quote |-> o.quote, due |-> o.due] \in notices
       /\ o.money + o.commission = quotes[o.quote].price
       /\ o.commission > 0 => consent.commission /\ o.money = money]_vars

(* Of two renewals, one begins when or after the period that the other     *)
(* paid for has ended, however late they were paid and however often a run *)
(* is repeated.                                                            *)
OncePerPeriod ==
  \A a, b \in orders :
    a # b => \/ a.at + quotes[a.quote].period <= b.at
             \/ b.at + quotes[b.quote].period <= a.at

(* A subscription does not stay due for ever while its terms are accepted, *)
(* the customer is active and the funds are there: it is renewed.          *)
RenewedInTheEnd ==
  []<>~(Renewable /\ ~Worse /\ Funded /\ customer = "active")
=============================================================================
