# Verification of TokenHub

TLA+ models of the backend of TokenHub (`src/backend/internal`), the TLC
configurations that check them, and TLAPS proofs about every modelled component:
the queue and the ledger everything else rests on, model requests, customer
orders, refunds, the circuit of routes, automatic renewals and replenishment, and
the commissions of promoters.
Paths below are relative to `src/backend/internal` unless they start with
`src/`.

TokenHub sells model calls: operators (the platform, OEMs, channels) sell
credits (ATG) to customers, customers call models through one API, and the
money and credits are kept in a double entry ledger in PostgreSQL. The API
(`src/backend/cmd/api`) handles requests; workers (`src/backend/cmd/worker`)
run durable jobs, reconciliation, renewals and expiry. Redis is a rate limiter
and a stream, the object store keeps results for hours; the database is the
only source of truth about money and rights.

## 1. Inventory

| Component | State | Operations | Hard behaviour | Correct when |
|---|---|---|---|---|
| `jobs` durable queue | rows of `durable_jobs` (status, attempts, fence, lease, due time) | enqueue, claim, extend, complete, fail, redrive | leases run out while a handler runs, workers die, staff redrive | one usable token per job, one final result, every job completes or is parked |
| `ledger` accounts | accounts (balance, held), journals, entries, holds | ensure account, post, reserve, release, capture, reconcile | concurrent spending, captures beyond a hold, retried commands | money is conserved, holds stay funded, a repeated command is answered truly |
| `ledger` credit grants | grants, their sources, usage events, expiry and reversal rows | issue, reserve, settle, release, expire, reverse, cancel, waive | rounding of shares, corrections around expiry and cancellation | every unit and atom is in one place, first expiring first, dead rights stay dead |
| `ledger` transfers, rounding, monetary settings | accumulated remainders, currency settings | transfer of a customer's assets, charge accumulation | all or nothing over many accounts | nothing lost in transfer |
| `usage` model requests | requests, attempts, API keys, budgets, stored results | admit, claim, execute over routes, poll, settle, time out, correct, store results | two calls of one request, polls, streams cut off, deadline | executed as admitted, in sequence, ends once with one bill |
| `commerce` orders | packages, quotes, orders, receipts, allocations, deliveries | create, close, allocate, fulfill, refund of an undelivered package | payments seen late or twice, closed orders that turn out paid | one outcome per order; commitments follow it |
| `commerce` renewals, receipt accounting, transfers | subscriptions, receipt reservations | enable, confirm, notify, renew, cancel | repeated cycles, consent changed under way | one order per cycle, at authorised terms |
| `payments` checkout and receipts | merchants, intents, webhook inbox, verified facts, valuations | create, webhook, reconcile, record fact, retry | provider outcome unknown, crash after the call | no payment lost, none taken twice for one delivery |
| `payments` refunds | refund intents, query leases, closures | submit, query, seal | query racing a submission, stale answers | money goes back once |
| `cooperation` balances | agreements, procurement balances, sales commitments | reserve and settle procurement, coverage, oversell, refunds to operators | chains of operators locked in order | sales never exceed what upstream covers, but for money already received |
| `cooperation` replenishment | authorizations, purchase orders, attempts with leases, checkouts | authorize, prepare, claim, submit, verify, deliver, fund, close, refund | the authorization changes under way, runs outlive their lease, answers are lost, people pay the same order | one way to pay, one purchase at a time, within the limit, what was paid is delivered |
| `incentives` | campaigns, snapshots, commissions, confirmations, withdrawals | quote, reserve, release, fulfil, confirm, withdraw | counters shared by orders, commissions undone by refunds | counters agree with orders, a commission is paid once |
| `remediation` | refund cases and legs, chargebacks, restrictions, takeovers | request, approve, cancel, execute, resolve | many legs, money at providers | a case returns what was received, once |
| `catalog` | models, prices, upstreams, route health and leases | publish, quote, claim and observe routes | circuit with probes and epochs | an ill route is tried by one probe at a time |
| `modelruntime` | none (a call) | submit, stream, poll, meter usage | partial streams, unknown outcomes | its verdict is what happened |
| `modelpricing` | synchronised price checks | sync, estimate | stale prices | |
| `organization` | operators, staff, customers, ownership versions, sessions, invitations | register, sign in, transfer, freeze, exit | ownership changes under running commands | stale ownership is refused |
| `operations` | notifications, reports, exports, invoices, risks | create, deliver, export | repeated notifications | each fact notified once |
| `outbox` | events, consumers, consumptions | enqueue, publish, consume | no command starts its worker at present | each consumer sees each event once |
| `portal` | commands, schedules, progress cursors, mail jobs | HTTP handlers, `RunWorker` | drives all the others | commands are idempotent |
| `branding`, `platform`, `cmd`, `src/web` | assets, domains, configuration | I/O | | |

How they interact. All packages share one database and pass transactions down
(`within(ctx, tx, f)`), so a handler of `portal` or `remediation` that spans
commerce, ledger, incentives and cooperation is one transaction, with row locks
taken in a fixed order and advisory locks per business key. What leaves a
transaction does so by a durable row: an intent before a provider is called
(`payments`, `usage`), a job (`jobs`), an event. Workers pick these rows up
with leases. `usage` calls `ledger` for holds and settlements, `catalog` for
routes and `modelruntime` for the call itself; `commerce` calls `ledger`
(wallet), `cooperation` (supply) and `incentives` (campaigns); `payments` tells
`commerce` about receipts through a sink of `portal`.

The hazards found in this code are listed in `PROJECT.json`, each at its line,
with the properties that cover it.

## 2. Modules

| Module | Stands for | Role |
|---|---|---|
| `DurableWork` | what a durable queue promises | abstract specification |
| `Jobs` | `jobs/service.go`, `jobs/queries.go` | refines `DurableWork` |
| `Vault` | what a ledger promises: free and locked money | abstract specification |
| `Ledger` | `ledger/service.go`, `ledger/holds.go` | refines `Vault` |
| `LedgerProofs` | | theorems about `Ledger` and `Credits` |
| `Credits` | `ledger/grants.go`, `corrections.go`, `waiver.go` | |
| `MeteredCall` | what a customer is promised about a request | abstract specification |
| `Usage` | `usage/*.go` | refines `MeteredCall` |
| `UsageProofs` | | theorems about `Usage` |
| `Sale` | what a customer is promised about an order: paid once, delivered or owed back, never undone | abstract specification |
| `Checkout` | `commerce`, `payments`, and the parts of `portal`, `incentives`, `cooperation`, `remediation` that an order passes through | composition, refines `Sale` |
| `CheckoutProofs` | | theorems about `Checkout` |
| `Debt` | what a refund promises: a debt paid by real payments, each once | abstract specification |
| `Refunds` | `remediation` refund cases and chargebacks, `payments/refunds.go`, `refund_closures.go`, `external_refunds.go` | refines `Debt` |
| `RefundsProofs` | | theorems about `Refunds` |
| `Circuit` | `catalog/commerce_routing.go`: health and leases of routes | |
| `LeaseProofs` | | theorems about `Jobs` and `Circuit`, the two that hand out leases |
| `Commissions` | `incentives` (accrual, confirmation, funding, withdrawals, corrections) and the chargebacks of `remediation` that dispute them | composition |
| `Renewals` | `commerce/renewal.go`, `lifecycle.go`, `packages.go`, `transfer.go`, `portal/renewals.go` | |
| `CommerceProofs` | | theorems about `Renewals` and `Commissions` |
| `Replenishment` | `cooperation/replenishment.go`, `wholesale.go`, the purchase orders of `portal/procurement.go` and `finance.go` | composition |
| `ReplenishmentProofs` | | theorems about `Replenishment` |
| `SumTheorems` | | lemmas about sums over finite sets, used by the proofs about money |
| `MCJobs`, `MCLedger`, `MCCredits`, `MCUsage`, `MCCheckout`, `MCRefunds`, `MCCircuit`, `MCCommissions`, `MCRenewals`, `MCReplenishment` | instances for TLC | |

`PROJECT.json` maps every definition to the lines it models. Definitions marked
"Mutant" are not part of a specification; each is a plausible bug that breaks
one property.

What an action is. PostgreSQL runs these transactions at READ COMMITTED with
`SELECT ... FOR UPDATE` on the rows they change, or under an advisory lock of
the business object, so a transaction is one action wherever the rows it
decides on are locked. Calls of providers, and anything a process remembers
from one transaction to the next, are state of their own and the process may
die at any step.

**Jobs.** `status`, `attempts`, `maxAttempts`, `fence`, `holder` are columns of
`durable_jobs`; `lease` and `wait` are `lease_until` and `available_at` as the
ticks that are left, which keeps the state space finite without bounding time.
`tokens` is what live workers remember from `Claim`. `Claim(o, dead, due)` is
the whole transaction: it parks every job that died on its final attempt
(`dead`) and leases the `due` ones, as many as its limit and the skipped locks
leave. `Enqueue`, `Complete`, `Fail`, `LeaseLost`, `ExtendLease` and `Redrive`
are the methods of the same names; `Crash` loses a worker's memory.

**Ledger.** A posting is what `normalizePosting` makes of the caller's lines, a
function from accounts to net amounts with its operator, key and original;
comparing fingerprints is comparing postings. `Post`, `Reserve`, `Release` and
`Capture` are the methods with all their checks, the `...Again` actions their
answers to a repeated key. `acked` and `told` are history: what callers were
told. A refused call rolls back and is no step.

**Credits.** One customer, whose methods all run under `lockCustomer`. The
first-expiring-first choice is written in closed form (`FefoTake`: what is
missing after all earlier grants), the split of an amount over source kinds by
largest remainder (`Proportional`), the money of an event as the difference of
cumulative targets (`CumulativeShare`). `ReverseUsage` models the restoration
together with the expiry run at its end. The ledger account of a grant is
represented by its balance and held amount (`owned`, `onHold`), the effect of
the ledger methods that `Ledger` models.

**Usage.** `run[c]` is the memory of a call of `Execute` (admission, claim,
loop over candidate routes, call, record, settle or leave pending), `poll[w]`
that of `RefreshAsync`. Both are lost by `Abandon`. The holds of a request are
not a variable: they are taken and given back in the transactions that change
`status`, so they follow from `status` and `Estimate`. The provider's answer is
one of the records of verdict, metering, delivery and cost that
`modelruntime` can return; `ran` records whether the provider worked.

**Checkout.** One customer's orders and everything they hold: the wallet
(`money` and the holds), the operator's supply, one campaign, `order:funds` and
`refund:payable`. `payments.Create` is cut into `ClaimIntent`,
`ProviderAnswers`, `SaveCheckout`, because the process can die, and other
transactions run, between them; a cancellation is cut into its checks
(`BeginCancel`) and `CloseOrder`, because facts are recorded without the
checkout lock. A provider may have opened a payment although the driver calls
its answer a failure (`payments/kvoucher.go:79-81`, `payments/nowpayments.go:72-75`),
so a customer may pay through two methods. `JobAllocate` and `JobDeliver` are
the two transactions of a delivery job. The job is the abstract item that
`Jobs` provides: it is tried a number of times and then parked. The mapping to
`Sale` shows an order paid while it is "paid" or an exception, whatever it still
has to win back, and a closed one refunded when something was allocated to it.

**Refunds.** `leg[r]` is a case with its single leg (the columns of
`remediation_cases` and `remediation_refund_legs`, `version` the route
version), `capacity` the row that reserves part of a receipt, `route` the
authorizations, manual failures and closures by version, `row` the durable
intent of the provider's execution, `call` what `SubmitRefund` and each
`QueryRefund` remember between their transactions, `remote` the provider.
`Settle` and `Misdirect` are the two ends of `recordPayment`, which
`RecordManualRefund`, `RecordClosedRefund`, `RecordExternalRefund` and the save
of a provider's result reach with different rights (`Bookable`). Every response
between 400 and 499 is a refusal to its reader (`payments/http.go:83`), so
`Answers` lets a query bring back "failed" whatever became of the refund. The
mapping to `Debt` counts a leg as due from its first execution on.

**Circuit.** `health[u]` is the row of `route_health`, `lease[a]` that of an
attempt in `route_leases`. A lease carries the epoch of the circuit it was
taken in and whether it is a probe; time is what is left of it: a lease is
`active` until it expires, an open circuit is `cooling` until it may be probed.
`ClaimRoute` expires what ran out, counts it and takes a lease in one
transaction under the lock of the row, `ObserveRoute` finishes the lease and
counts the observation if it belongs to the present epoch.

**Commissions.** The rows and accounts of one promoter are a record, `books`,
and each helper of the code that changes several of them in turn is an operator
from one such record to the next. A command takes the operator's advisory lock
first (`LockBusiness`), so a command is one action. What was earned is counted
cumulatively (`carry`), so that fractions of an atom are carried from event to
event; a dispute blocks entries when it is recorded (`block`), reserves what is
left of their lots when it is applied (`hold`) and takes or frees it when it is
resolved. The loops of the code over events, flags and entries (`Through`) are
loops here, since each pass decides on the books the one before left. Names that
`Renewals` has too begin with `Commissions`, because one module proves about both.
`AdvanceStep` is one pass of the worker's task "qualification".

**Renewals.** `sub` is the row of `commerce_subscriptions`, `quotes` and
`package` the terms operators publish, `notices` the rows of
`portal_renewal_notices`. A run of the task is cut after the transaction that
reads the terms and after the one that records the notice; `RenewSubscription`
locks the row again and decides afresh. A consent is one action: the page's
version and quote are checked by the handler, which holds the package row while
it stores the consent. The stop of an account is cut between its read of the
subscriptions, which takes no lock, and its write. `consent` is history: what
the customer agreed to last, and whether he ended it. Time starts with the
delivery of the package, since nothing depends on the time before.

**Replenishment.** One buyer. `auth` is the authorization, `attempt[o]` the row
that the worker keeps for the purchase order `o`, `receipt[o]` the payment
allocated to it. `payment` is what the provider makes of a payment, `intent[o]`
what the database says of the online one: a creation stored as "failed" may have
opened the payment all the same (`payments/kvoucher.go:80`,
`payments/nowpayments.go:74`), as in `Checkout`. What is stored of the creation
of an automatic payment decides nothing and is left out.
`run[w]` is the memory of a run of `Replenisher.Run` for one attempt: `Claim` is
its second transaction (with the reading of the order that follows it), then
come the call of the provider or the question for it (`Create`, `Lookup`), the
allocation with the delivery (`Apply`, `Deliver`) and the writing of the result
(`Save`), which does not look at the lease. A save of the authorization may
overwrite a cancellation that it has not seen, because `CancelAuthorization`
takes no lock of the business. Every state from which the worker only asks for
the payment is "pending", since what it does is decided by the order.

## 3. Runs

| Run | Instance | Shows | States |
|---|---|---|---|
| `jobs_queue` | 2 jobs of two attempts, 2 owners, lease and delay of one tick, `FairSpec` | fencing, refinement of `DurableWork`, every job settles | 25,124 |
| `ledger_safety` | 4 accounts, 10 postings, 4 reservations, 2 release keys | reconciliation, true replies, refinement of `Vault`, whose free money is never negative: every hold is funded | 14,282 |
| `credits_rights` | 2 grants, 2 requests, 1 case, 2 corrections, 3 instants | conservation of units and money, real shortfalls, order of use, no revival | 111,645 |
| `usage_calls` | 1 request, 2 bodies, 2 calls, 2 polls, 2 routes, `FairSpec` | races of execution, polling and deadline; refinement of `MeteredCall`; every request ends | 495,586 |
| `usage_money` | 3 requests, 1 call, 2 corrections, usage up to 3 times the estimate | budget, foreign holds, overage, corrections | 642,748 |
| `checkout_orders` | 2 orders, 2 methods, one unit of everything shared, `FairSpec` | one outcome, commitments, refinement of `Sale`, no payment lost, paid orders delivered | 71,957 |
| `refunds` | 2 refunds of one receipt (API with 2 routes, wallet), 2 transfers, 1 query, 1 dispute | books, ended debts, refinement of `Debt` | 404,940 |
| `refunds_sealed` | the same | **violated**: an execution is sealed while the provider may still pay | |
| `routes` | 1 route, 5 attempts, the thresholds of the code (3, 2, 2), `FairSpec` | one probe at a time, changes on evidence of the epoch, always probed again | 50,133 |
| `commissions` | 2 events of 3 at a rate of one half, 2 chargebacks, 1 correction, 1 withdrawal and 1 order over both lots, `CommissionsFairSpec` | books agree, exact earnings, disputed money kept, releases happen | 90,866 |
| `renewals` | 2 operators, 2 quotes, 2 ticks, 1 run at a time, `FairSpec` | once per period, as agreed, renewed in the end | 987,588 |
| `replenishment` | 2 orders, 2 workers, 2 versions of the authorization, automatic at first, 2 periods with a limit of one purchase, `FairSpec` | one way to pay, one at a time, within the limit, what was paid is delivered | 228,726 |

Why these bounds. Every hazard needs two actors at most: two tokens of one job,
two holds on one account, two calls and two polls of one request, two methods
of one order and a second order that takes what the first gives up. Two
attempts and a redrive reach the third claim of a job; one tick of lease and
delay distinguishes before, at and after expiry. Amounts of 0 to 3 with weights
1 and 2 make shares that do not divide evenly, which is where rounding goes
wrong; a grant that expires and one that outlives the clock are enough to
revive, reclassify and cancel. Three requests are needed for the budget: one
settled above its estimate, one open, one to be admitted. In `Checkout` the
window is one tick (in time or late), `Attempts = 2` distinguishes a job that
is retried from one that gives up, and with one unit of money, supply and
campaign every order that is closed can lose all it held. Five attempts trip a
route, lose a probe and close it again with an old answer still under way. Two
events of 3 at one half leave a half atom to be carried; the second chargeback
disputes what the first left. Two ticks hold two renewals, the second of them
late; two quotes let terms change between any two steps of a run. Two purchases
with a limit of one reach the limit, a second purchase in the next period and a
receipt that staff give to the other order; two workers let a run outlive its
lease and write its result after another has ended the attempt. The first
authorization is an automatic one, since an offline one makes no payment; it may
be changed to the offline mode or cancelled once. The bounds named in the modules are `AttemptCap`, `RetryCap`, `Horizon`, `ClockBound`, `MaxUse`,
`Window`, `Attempts`, `Quotes`, `Versions`, `Funds`, `Orders`, `Periods` and
`FirstMode`;
`Jobs`, `Checkout`, `Circuit`, `Commissions` and `Replenishment` have no clock.

Symmetry is used in runs without liveness only. `CHECK_DEADLOCK FALSE` is set
everywhere because a queue may be drained, a request or an order ended, and the
clock at its bound.

Fairness and why the code justifies it.

- `Jobs`: time passes; workers poll every queue each second for ever
  (`portal/worker.go`, `RunWorker`), and a handler ends because it runs under a
  timeout. Nothing is assumed of redrives or renewals of leases.
- `Usage`: time, and `ResolveTimeout`, which the same schedule repeats for
  overdue requests. Executors and pollers owe nothing, not even to go on.
- `Checkout`: time, the expiry of unpaid orders, the retry of facts without a
  receipt, delivery jobs and the recovery of deliveries, all scheduled for ever.
  `RetryFact` assumes that the receipt can be made in the end. Customers,
  providers and staff owe nothing, and a job may fail at every attempt.
- `Circuit`: time only: leases expire and circuits cool down. No attempt owes an
  observation.
- `Commissions`: the task "qualification" (`portal/worker.go:270-286`), written
  out as "again and again the step is taken or would change nothing".
- `Renewals`: a run is begun as long as the subscription is due and every run
  ends, because its context is cancelled after 45 s (weak fairness); no
  transaction of a run fails for ever (strong fairness of `RecordNotice` and
  `RenewSubscription`, since runs may fail in between).
- `Replenishment`: leases run out, attempts that are free are claimed in the end,
  because the worker runs for ever and takes those first that were looked at
  longest ago, and results are written in the end (weak fairness); neither the
  question for a payment nor the allocation fails for ever (strong fairness, since
  runs die in between). Providers, buyers and staff owe nothing.

A property whose mutant survives says nothing about the code; each property
of a passing run has a mutant of a mapped definition that breaks it.

## 4. Findings

1. `refunds_sealed`: a query that the provider refuses (a 4xx answer, for any
   reason) stores "failed" for a refund that is still under way
   (`payments/refunds.go:164`), and the execution can be closed and sealed, although
   the comment at `payments/refund_closures.go:82` excludes running executions.

Met on the way and not shown by a run: an enqueue repeated after a redrive is
refused, because `EnqueueTx` compares `MaxAttempts` with the row
(`jobs/service.go:135`) while a redrive raises it (`jobs/queries.go:60`), where
the comment at `jobs/service.go:58` promises the original action; a completed
generation without reliable usage goes on to the next route
(`usage/execution.go:198`, against the comment at `:201`); a poll that is
refused locally is booked on the row of the generation it asks about, as not
dispatched and free of cost (`usage/execution.go:279`), and finishes the lease
of a running probe; a consent stored with an order that is delivered after the
account was stopped is active again (`commerce/lifecycle.go:9` says that
resuming never re-enables old consents); an online order whose process died
before its payment intent was claimed is neither expired nor cancellable, because
both ask for a failed intent (`portal/orders.go:525,584`), and keeps its wallet
hold, supply and campaign place, where `UnpaidPaymentWindow` is meant to free
them (`Checkout` has the step, and leaves the order pending).

In the purchase orders: a driver that cannot read or use the answer to a payment
that it has opened (`payments/kvoucher.go:80`, `payments/nowpayments.go:74`) reports
an error that is stored as "failed" (`payments/service.go:393`), and the buyer may
close the purchase on this state (`portal/procurement.go:785`), where the comment
at `:758` calls it a definitive rejection; the provider then collects for a closed
order. A customer's order in this position finds its late payment again
(`Checkout`); a purchase stays closed and its receipt is left over.
`Replenishment` has these steps, and `OneWayToPay` excepts this closing by name
and nothing else.

In the replenishment: an attempt that was given back because the authorization
changed keeps this error, and with it the state "needs_attention", although its
order is delivered or closed later (`cooperation/replenishment.go:388`), so that
nothing is replenished any more; an attempt whose process died after the claim
and before the payment was created, or whose payment was declined, is only asked
for ever, and its order cannot be cancelled, while "failed_unpaid" is never
written; the free receipt of an automatic payment can be allocated to another
order, and its own is never delivered then; the delivery job of an automatic
payment always fails, since it has no checkout (`portal/procurement.go:675`), and
the worker alone delivers it; a cancellation of the authorization is overwritten
by a save that read the row before it (`cooperation/replenishment.go:185` locks
nothing and both write the same next version); `createPurchaseOrder` locks the
chain of the supplier before that of the buyer, against the order that
`cooperation/service.go:49` prescribes.

## 5. Proofs

All theorems hold for every value of the constants that satisfies the named
assumptions (`QueueAssumption`, `RetryAssumption`, `LedgerAssumption`,
`AccountsAssumption`, `CreditsAssumption`, `OrdersAssumption`, `OnlineAssumption`,
`OffersAssumption`, `RefundsAssumption`, `AmountsAssumption`,
`TablesAssumption`, `RoutesAssumption`, `RequestsAssumption`,
`LimitsAssumption`, `CircuitAssumption`, `RenewalsAssumption`,
`CommissionsAssumption`, `ReplenishmentAssumption`), which TLC evaluates on the runs of these modules.
The assumptions about sums of money say that a table has finitely many rows.

**`SumTheorems`.** Balances, holds and budgets are sums over the rows of a
table. The sum of a function over a finite set is a fold; `SumRemove` takes one
element out of it, and the rest follows. Induction on the set is made without an
operator parameter: if a statement failed for some subset there would be a
smallest one for which it fails (`SmallestSet`, from the well-foundedness of the
subset order). A sum changes by what one term changes (`SumChange`), is
monotonic (`SumMonotonic`, `SumSubset`), adds up (`SumPlus`) and ignores zeros
(`SumWithoutZeros`). `RanksCount` says that in a strict order of n elements
exactly m have fewer than m ahead of them.

**`LeaseProofs`, the queue.** `TypeOK` is inductive by itself. The fencing
argument needs more: `TokenInv` says that a token never carries a fence or an
attempt beyond its row, that two tokens of one job with the same fence are the
same token, and that a row running under a token's fence carries that token's
attempt. It holds because a claim hands out `fence + 1` and only claims and
redrives move the fence. `OneUsableTokenAlways` follows since a usable token has
the fence of its row. `ResultWithCompletion` says that the history variable
`winner` is set only on a completed row; with it `LatestClaimAlwaysWins`
follows; that nothing touches a completed row gives `ResultIsAlwaysFinal`.
`ImplementsDurableWork` maps each step to an edge of `DurableWork` or a stutter,
row by row (`StatusEdges`).

**`LeaseProofs`, the circuit.** Epochs only grow; the counters of a row are
bounded by the number of leases of the present epoch that were observed so, and
a probe under way belongs to the present epoch of an open circuit.
`OneProbeAlways` and `AlwaysOnEvidence` follow: a circuit can close only after
as many good probes as the counter says.

**`LedgerProofs`, accounts.** `IInv` joins `TypeOK`, `HoldsCovered`,
`OnlyCreditsExceedHold`, `RepliesAreTrue` and what links them,
`ResolutionKnown`: an unresolved hold has told nobody anything, the resolution
of a released hold is a key of a release, that of a captured hold the key of a
posted journal. Each method has its lemma (`PostInv`, `ReserveInv`,
`ReleaseInv`, `CaptureInv`, `QuietInv`); the central step is `FundedKeepsHolds`:
the funding check of a posting, made with the held amounts at that point of the
transaction, leaves every non-control account with what is held on it.
`HoldsStayCovered` states that for the rows of the ledger; the run checks it as
the part of `Vault` that keeps free money non-negative.
`BooksAlwaysReconcile` adds the sums: a journal enters the balance of each
account with its line there, a reservation enters and leaves the held amount
with its amount, and because a posting is balanced per unit the accounts of an
operator always net to zero. `ImplementsVault` maps `Post` to `Move`, `Reserve`
to `Lock`, `Release` to `Unlock` and `Capture` to `Spend`.

**`LedgerProofs`, credit grants.** `CreditsInv` says of each grant, by its own
records (`GrantSound`), that what the account has and what the row counts as
consumed, expired and cancelled are together the quantity issued, that every
class is the sum of its source kinds, that no kind is used beyond what was
issued of it, and that the money attributed stays within the money paid and is
all of it once nothing is left. It also says what explains a held amount (the
active requests and cases, `HeldExplained`), that a correction never gives back
more than the event charged and nothing precedes the settlement (`EventsSound`),
and that the key of an expiry made before names an expired total the grant has
since passed (`KeysSpent`). That last part is needed because an expiry under a
used key would change the rows without the account: with it, an expiry to come
always finds a new key (`KeyIsNew`). Three lemmas carry the arithmetic, for any
number of kinds and grants. `SplitIsExact`: the split by largest remainder adds
up to its amount and takes of no kind more than is left, because the units lost
by rounding down are fewer than the kinds with a remainder, and exactly as many
kinds as there are such units rank before that number (`RanksCount`).
`FefoTakesAll` and `FefoInOrder`: taking in order takes everything asked for
when the offer suffices, and touches a grant only when all earlier ones are used
up. `AttributionKeepsBooks`: an event made from sound books leaves sound books.
A correction restores units and, at its end, expires them again in the same
transaction; the proof goes through the books in between (`GivenSource`,
`GivenRow`, `GivenMoney`) and applies that lemma to them. `CreditsTyped`,
`UnitsAlwaysConserved` and `MoneyAlwaysAttributed` follow from the invariant,
and with a lemma on which actions change what (`WhoChangesWhat`) the three
action properties: `CorrectionNeverRevives`, `ShortfallAlwaysReal` and
`AlwaysUsedInOrder`.

**`CheckoutProofs`.** Neither property is inductive, and neither can be shown
order by order alone, because the wallet, the sales and the campaign belong to
all orders. `OrderSound` says what is true of one order by itself: `Committed`
ties the wallet hold, the coverage and the campaign place to the status and to
the reason of an exception, and `Accounted` ties what was allocated, what is
still on the order, what is owed back and what was delivered to the same status.
It is stronger than the two properties: it knows, for instance, that an order
with nothing to pay externally is never left pending, that one closed unpaid
owes nothing, and that the payment of an exception is still whole, which is what
a delivery out of an exception relies on. `OneOrderMoves` is the central lemma:
a step that changes one order, keeps it sound and moves as much money, hold and
places as this order gains or loses keeps the sums, by `SumChange`. Allocation
and delivery in one transaction, cancellation, closing, refunds and their
rejection are each shown to be such a step (`FulfillMoves`, `AllocateMoves`,
`GiveBackMoves`, `RequestMoves`, ...); a restored order takes its hold, coverage
and place again before it is delivered. `PaymentsInv` types the payments, the
calls and the jobs, and says that nothing is known of a payment of an order that
does not exist. `OneOutcomeAlways` and `CommitmentsAlwaysFollow` follow.
`ImplementsSale` says more, since an invariant does not see whether an outcome is
undone later: each step is mapped to the sale's step of its order (`FulfillSells`,
`AllocateSells`, `ApproveSells`, ...) or to none (`ReviewSells`, `QuietSells`). That
a payment is allocated only to an order that is open or cancelled needs the
invariant: an allocation asks for an order with nothing allocated, and by
`Accounted` an order paid, in exception or refunded has its whole price.

**`RefundsProofs`.** The invariant links, for each refund, the leg, the capacity
that reserves the receipt, the authorizations by route version and the durable
row of the execution: a leg that is paid has consumed its capacity, a payment is
booked under one version, and a stored success is one the provider really made
(`StoredFactsAreReal`). Each action changes the records of one refund, so a
lemma per action states what becomes of these records and the preservation of
the invariant follows refund by refund. `PaidDebtAlwaysEnds` and
`PaymentsAreCountedOnce` follow, and `ImplementsDebt` maps each booking to one
payment of `Debt`. `BooksAlwaysAgree` needs a second invariant on top: the
completed amount of each capacity is the value of the payments booked for it,
and what is held and frozen of the receipt is the sum of what its legs and
disputes still claim, so that each step changes the three books by the same
amount.

**`UsageProofs`.** Two invariants. `IInv` is about the order of events: at most
one call of `Execute` is busy with a request, all attempts but the last of a
request were answered without output (`Tried`), and what a call or a poll under
way remembers is true of the attempt it will write (`RunFits`, `PollFits`),
which is what a claim of the row buys. It is needed because `RecordAttempt` and
`Settle` write from memory, after provider calls that took no lock. From it
follow `AttemptsComeInSequence` and `FailedRequestsNeverRan`. `MInv` is about
money: every bill fits its status and its corrections (`BillSound`), what the
customer paid and what is left are what he had, the open requests' holds are
within it, and spent and held stay within the budget plus the overages that were
reported (`Sound`). It holds for sums over any finite set of requests; from it
follow `CustomerPaysAsCorrected` and `BudgetIsKept`. `PromiseIsKept` maps every
step to one of `MeteredCall` or a stutter.

**`CommerceProofs`, renewals.** The terms consented to, those of the row and those charged
form a chain that never gets worse, because "not worse" is transitive and the
row moves only by a consent or a charge that passed the test. A consent that was
ended has left a cancelled row (`ConsentsFollowed`), hence
`AlwaysChargedAsAgreed`; the date of the next charge lies after every period
paid, hence `AlwaysOncePerPeriod`. Both hold for any set of runs under way at
once, while TLC explores one at a time.

**`CommerceProofs`, commissions.** The three properties are about sums over lots,
entries, uses and chargebacks, and a command changes them several times before it
ends: it confirms events one by one, each of which may release an entry, block
its new lot and settle a debt from it. So the invariant `CommissionsInv` is
mostly about a record of books (`BooksSound`), and every helper has a lemma that
it takes sound books to sound books, whichever command calls it. Its parts are:

- `LotsSound`: what is reserved of a lot is what disputes hold and uses reserve of
  it, what is blocked is still in it, the accounts are the sums, there is no lot
  before the release of its entry, and every lot that holds money is in the queue
  once. The last is what makes taking along the queue take everything;
- `EntriesSound` and `Whole`: an entry is frozen or released exactly while
  something is left of it, and what is left of all of them is what the promoter
  has, had or owes. A correction takes its money from one of the three places, and
  which one depends on the status of the entry;
- `EarnedSound`: the carry is the commission credited and not reversed, and its
  base the consumption that counts. It is apart from `BooksSound` because a
  correction takes back its entries first and moves the carry last
  (`RebasedKeeps`), and the books in between do not satisfy it;
- `FlagsSound`, `ClaimsSound`, `Untouched`, `UsesSound`: a closed chargeback blocks
  and holds nothing, only events that were observed are claimed or carry
  anything, and an open use reserves exactly its amount.

The arithmetic is in three places. `SharesAddUp` and `SharesReachAmount` say that
taking along a queue without repetitions takes from each no more than its limit
and in all the amount asked for, or everything. `PartOfWhole` says that a flag
blocks no more than the flags before it left, so that `FlagsApplied`, over any
number of flags, keeps the blocked part within the lot. `TargetRises` says that a
smaller base has no larger commission, so that a correction never takes back a
negative amount and always finds entries to take it from (`CountedCorrected`).
`DisputedAlwaysKept` needs the release and the payout most: a release settles a
debt only from what its new lot may spend after the flags (`ReleaseMoves`), and a
payout is checked again for what was blocked since its reservation
(`PaidFromSound`).

The loops are proved for any number of passes. No prover can instantiate the
operator that `Through` takes, so the bodies of the loops are told apart by a name
(`Step`); `LoopsEnd` gives the values of a loop, the `Loop...` lemmas say that
`Through` has them, and `AllReached`, an induction on the index made from the
smallest set as above, carries a statement from the first to the last.

**`ReplenishmentProofs`.** `Facts` says which records of one order exist
together: an automatic attempt that was not given back has no checkout and an
order that is awaiting or completed, an online checkout takes no other receipt,
an attempt that ended has an order that ended. `RunFacts` says what a run under
way relies on and no other step takes back: its attempt was submitted, is still
automatic, and the result it will write is true of the order. Every step is
shown to keep the facts of its order and to take nothing back of any order
(`Lasts`), which carries the facts of all other runs. `OneWayAlways` and
`OneAtATimeAlways` follow; a purchase closed without money has no online checkout
or an intent stored as failed, which is the exception that `OneWayToPay` names.
For `LimitAlwaysKept` the invariant counts the
attempts whose order is not closed (`Live`): only `Prepare` adds one, and what
it counts itself (`Committed`) contains them all, also when a late result has
changed their state.

What stays with TLC: the liveness properties (`EveryJobSettles`,
`EveryRequestEnds`, `RecordedPaymentIsMatched`, `PaidOrderIsDelivered`,
`ProbedAgain`, `ReleasedInTheEnd`, `RenewedInTheEnd`, `PaidIsDelivered`), since
fairness and `ENABLED` are outside the prover, and the violated property of
`refunds_sealed`. Every other property of a run, invariant, action property or
refinement, is stated by a theorem.

## 6. What is not modelled, and limits of what is

Limits of the modelled components:

- `Ledger`: `TransferCustomerAssets`, `AccumulateCharge` and its remainders,
  monetary settings, reports. Amounts are integers (atoms of 10^-18); overflow of
  `NUMERIC(38,18)` is not modelled.
- `Credits`: `spendableGrants` reads without row locks; a chargeback freeze that
  commits in between is ordered before or after. Shares can become negative for
  usages worth less than one atom; the database CHECK then aborts, as the model
  does. Takeovers and manual gifts are not modelled.
- `Usage`: one budget window and constant limits; the requests-per-minute limit,
  key administration and stored results are not in the module; the route
  circuit is a module of its own, `Circuit` (in `Usage`, `RouteUnavailable` may
  always happen).
- `Checkout`: commission money, quotes and their expiry, an unknown payment
  time, partial or different amounts, allocation to another order by staff,
  chargebacks, changes of ownership, redrives of delivery jobs, leases of the
  webhook inbox.
- `Commissions`: whether an event qualifies is a choice. The second hop,
  operator transfers, `RestoreCommissionFunding`, wallet freezes, refunds of the
  receipt and recoveries of chargebacks are left out. Events are numbered in the
  order of their occurrence and ripen in it, chargebacks are recorded in the
  order of their index, and the receipt pays exactly this order.
- `Renewals`: one package of one customer. Of the terms that a renewal compares,
  paid and given credits are one number, and timezone, terms summary and the
  identity of the package are left out (`commerce/packages.go:107`). Campaign discounts, supply and a
  closed operator are possible refusals (`RunFails`). A consent committed
  between the unlocked read and the write of a stop survives the stop, and
  versions can be used twice then; the property counts such a consent as live.
  `Versions` bounds the steps of the customer and of takeovers, not those of
  the worker. Two runs of one customer cannot overlap in the code, since a job
  has 45 s under a lease of 60 s.
- `Replenishment`: a purchase costs one unit, and the limit is constant. Whether
  the stock is low and the supplier can cover the sale is open, and so is whether
  the order found nothing of its payment. Receipts from outside the checkout
  (`Transfer`) are not in the instance TLC checks, where staff fund orders from
  receipts of other orders; the proofs cover any set of transfers. Prices, gift tiers, expiry of
  purchase orders, notices and takeovers are left out.

Not modelled at all, with the reason, in `PROJECT.json` "components": the pure
I/O layers (`platform`, `branding`, `cmd`, `src/web`), formats and metering of
providers (`modelruntime`), reports and exports (`operations`), and, for now,
the components of the plan.

## 7. Plan

Done: `Jobs`, `Ledger`, `Credits`, `Usage`, `Checkout`, `Refunds`, `Circuit`,
`Commissions`, `Renewals` and `Replenishment` with their instances, and the proofs
of every property of these that the prover can state. In the order of what can
go wrong most expensively:

1. `Supply`: procurement balances, coverage and oversell along a chain of operators
   (`cooperation`), of which `Checkout` uses the last link and `Replenishment`
   the trigger.
2. Refunds between operators (`cooperation/procurement_refunds.go`,
   `refund_routes.go`), which repeat the protocol of `Refunds`.
3. `Scheduler` over `Jobs`: `schedule`, progress cursors and batches of
   `portal/worker.go`; at most one job of a task open, every due item is reached.
   It justifies the fairness of the other modules.
4. `StoredResults` (`usage/execution.go`), the webhook inbox and `Outbox`.
5. Takeovers and the accounting of receipts (`remediation/takeover.go`,
   `commerce/receipts.go`).
