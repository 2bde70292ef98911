------------------------ MODULE ReplenishmentProofs ------------------------
(***************************************************************************)
(* Proofs about Replenishment, for every number of orders, workers,        *)
(* transfers, versions and periods and every limit.                        *)
(*                                                                         *)
(* The facts about one order say which of its records may exist together   *)
(* (Facts); those about a run, what the order and the attempt it works on  *)
(* cannot take back while it is under way (RunFacts).  What every step     *)
(* leaves of an order, Lasts, carries the facts of all other runs.         *)
(***************************************************************************)
EXTENDS Replenishment, FiniteSetTheorems, TLAPS

-----------------------------------------------------------------------------
(* The invariant.                                                          *)

IsAutomatic(a) == a # None /\ ~a.changed /\ a.mode = "automatic"
HasState(a, state) == a # None /\ a.state = state

\* o's status, receipt, attempt, checkout, stored intent and its two payments.
Facts(o, status, money, a, kind, row, auto, online) ==
  /\ status = "none" =>
       money = None /\ a = None /\ kind = "none" /\ row = "none" /\ auto = "none" /\ online = "none"
  /\ status = "awaiting" => money = None
  /\ status \in {"paid", "exception"} => money # None
  /\ IsAutomatic(a) =>
       /\ status \in {"awaiting", "completed"} /\ kind = "none"
       /\ money \in {None, <<o, "automatic">>}
  /\ HasState(a, "prepared") => IsAutomatic(a) /\ auto = "none"
  /\ HasState(a, "completed") => status = "completed"
  /\ HasState(a, "cancelled_unpaid") => status = "closed"
  /\ auto # "none" => IsAutomatic(a)
  /\ row = "none" => online = "none"
  /\ row # "none" => kind = "online"
  /\ kind = "online" =>
       /\ money \in {None, <<o, "online">>}
       /\ status = "closed" /\ money = None => row = "failed"

OrderFacts(o) ==
  Facts(o, order[o], receipt[o], attempt[o], checkout[o], intent[o],
        payment[<<o, "automatic">>], payment[<<o, "online">>])

Working(r, status, a) ==
  /\ a # None /\ a.state # "prepared"
  /\ r.result = "completed" => status = "completed"
  /\ r.result = "cancelled_unpaid" => status = "closed"
  /\ r.step \in {"create", "lookup", "apply"} => IsAutomatic(a)

RunFacts(w) == run[w] # None => Working(run[w], order[run[w].order], attempt[run[w].order])

Allocated == \A o, q \in Order : receipt[o] = receipt[q] => o = q \/ receipt[o] = None
Single == \A o, q \in Active : o = q

\* What the attempts of a period have not given back.
Live(q) == {o \in Order : attempt[o] # None /\ attempt[o].period = q /\ order[o] # "closed"}
Bounded == \A q \in Nat : Cardinality(Live(q)) <= Limit

IInv ==
  /\ TypeOK
  /\ \A o \in Order : OrderFacts(o)
  /\ \A w \in Worker : RunFacts(w)
  /\ Allocated
  /\ Single
  /\ Bounded

-----------------------------------------------------------------------------
(* What a step leaves of an order and of its attempt.                      *)
Lasts(status, a, status2, a2) ==
  /\ status \in {"completed", "closed"} => status2 = status
  /\ a # None => a2 # None /\ a2.period = a.period /\ a2.mode = a.mode
  /\ a # None /\ a.state # "prepared" => a2.state # "prepared" /\ a2.changed = a.changed

OrderLasts(o) == Lasts(order[o], attempt[o], order'[o], attempt'[o])

Untouched(o) ==
  /\ order'[o] = order[o] /\ receipt'[o] = receipt[o]
  /\ attempt'[o] = attempt[o] /\ checkout'[o] = checkout[o] /\ intent'[o] = intent[o]
  /\ payment'[<<o, "automatic">>] = payment[<<o, "automatic">>]
  /\ payment'[<<o, "online">>] = payment[<<o, "online">>]

(* An order whose records a step leaves alone keeps its facts.             *)
LEMMA UntouchedKeeps ==
  ASSUME NEW o \in Order, OrderFacts(o), Untouched(o)
  PROVE  OrderFacts(o)' /\ OrderLasts(o)
  <1>1. OrderFacts(o)'
    BY DEF OrderFacts, Untouched
  <1>2. OrderLasts(o)
    BY DEF OrderLasts, Lasts, Untouched
  <1> QED
    BY <1>1, <1>2

(* A run keeps its facts while it goes on with its order.                  *)
LEMMA WorkingLasts ==
  ASSUME NEW r, NEW status, NEW a, NEW status2, NEW a2,
         Working(r, status, a), Lasts(status, a, status2, a2)
  PROVE  Working(r, status2, a2)
  BY DEF Working, Lasts, IsAutomatic

(* An attempt has the fields of its type.                                  *)
LEMMA AttemptFields ==
  ASSUME TypeOK, NEW o \in Order, attempt[o] # None
  PROVE  /\ attempt[o] \in Attempt
         /\ attempt[o].state \in {"prepared", "pending", "completed", "cancelled_unpaid"}
         /\ attempt[o].mode \in Mode /\ attempt[o].period \in Nat
         /\ attempt[o].changed \in BOOLEAN
  <1>1. attempt[o] \in Attempt
    BY DEF TypeOK
  <1> QED
    BY <1>1 DEF Attempt, Finished

LEMMA RunFields ==
  ASSUME TypeOK, NEW w \in Worker, run[w] # None
  PROVE  /\ run[w] \in Running /\ run[w].order \in Order
         /\ run[w].result \in {"pending", "completed", "cancelled_unpaid"}
  <1>1. run[w] \in Running
    BY DEF TypeOK
  <1> QED
    BY <1>1 DEF Running, Finished

-----------------------------------------------------------------------------
(* Types.                                                                  *)

LEMMA InitType == Init => TypeOK
  BY ReplenishmentAssumption DEF Init, TypeOK, Authorization, Intent, Known, Payment

LEMMA AuthorizeType ==
  ASSUME TypeOK, Authorize
  PROVE  TypeOK'
  <1> USE DEF TypeOK
  <1>1. ASSUME NEW new, Change(new), new \in Authorization
        PROVE  TypeOK'
    BY <1>1 DEF Change, moneyVars
  <1>2. auth.version + 1 \in Nat /\ auth.version \in Nat
    BY DEF Authorization
  <1>3. ASSUME NEW enabled \in BOOLEAN, NEW mode \in Mode, SaveAuthorization(enabled, mode)
        PROVE  TypeOK'
    <2>1. PICK version \in {auth.version + 1} \cup (IF auth.cancelled THEN {auth.version} ELSE {}) :
            Change([enabled |-> enabled, cancelled |-> FALSE, version |-> version, mode |-> mode])
      BY <1>3 DEF SaveAuthorization
    <2>2. version \in Nat
      BY <1>2
    <2> QED
      BY <2>1, <2>2, <1>1 DEF Authorization
  <1>4. CASE CancelAuthorization
    BY <1>1, <1>2, <1>4 DEF CancelAuthorization, Authorization
  <1>5. CASE SuspendReplenishment
    BY <1>1, <1>2, <1>5 DEF SuspendReplenishment, Authorization
  <1> QED
    BY <1>3, <1>4, <1>5 DEF Authorize

LEMMA PrepareType ==
  ASSUME TypeOK, NEW o \in Order, Prepare(o)
  PROVE  TypeOK'
  <1>1. auth.version \in Nat /\ auth.mode \in Mode /\ period \in Nat
    BY DEF TypeOK, Authorization
  <1>2. [state |-> IF auth.mode = "automatic" THEN "prepared" ELSE "pending",
         version |-> auth.version, mode |-> auth.mode, period |-> period,
         changed |-> FALSE, leased |-> FALSE] \in Attempt
    BY <1>1 DEF Attempt
  <1> QED
    BY <1>2 DEF Prepare, TypeOK, authVars, moneyVars

LEMMA BeginType ==
  ASSUME TypeOK, NEW w \in Worker, NEW o \in Order, NEW changed \in BOOLEAN,
         NEW submit \in BOOLEAN, Process(w, o, changed, submit)
  PROVE  run' \in [Worker -> Running \cup {None}]
  <1>1. ASSUME NEW step \in Step, NEW result \in {"pending"} \cup Finished,
               Begin(w, o, step, result)
        PROVE  run' \in [Worker -> Running \cup {None}]
    BY <1>1 DEF Begin, TypeOK, Running
  <1> QED
    BY <1>1 DEF Process, Step, Finished

LEMMA WorkType ==
  ASSUME TypeOK, NEW w \in Worker, RunFacts(w), Work(w)
  PROVE  TypeOK'
  <1>1. ASSUME NEW o \in Order, Claim(w, o)
        PROVE  TypeOK'
    <2>1. attempt[o] # None /\ attempt[o] \in Attempt /\ attempt[o].changed \in BOOLEAN
      BY <1>1, AttemptFields DEF Claim, Active
    <2>2. (attempt[o].changed \/ Changed(o)) \in BOOLEAN
      BY <2>1 DEF Changed
    <2>3. [attempt[o] EXCEPT !.state = "pending", !.leased = TRUE,
             !.changed = (attempt[o].changed \/ Changed(o))] \in Attempt
      BY <2>1, <2>2 DEF Attempt
    <2>4. attempt' \in [Order -> Attempt \cup {None}]
      BY <1>1, <2>3 DEF Claim, TypeOK
    <2>5. run' \in [Worker -> Running \cup {None}]
      BY <1>1, <2>2, BeginType DEF Claim
    <2> QED
      BY <1>1, <2>4, <2>5 DEF Claim, TypeOK, authVars, moneyVars
  <1>2. ASSUME run[w] # None, NEW result \in {"pending"} \cup Finished, Report(w, result)
        PROVE  run' \in [Worker -> Running \cup {None}]
    BY <1>2, RunFields DEF Report, Begin, TypeOK, Running, Step
  <1>3. ASSUME run[w] # None, NEW step \in Step, GoOn(w, step)
        PROVE  run' \in [Worker -> Running \cup {None}]
    BY <1>3, RunFields DEF GoOn, Begin, TypeOK, Running, Finished
  <1>4. ASSUME NEW ok \in BOOLEAN, Deliver(w, ok)
        PROVE  TypeOK'
    <2>1. run[w] # None /\ run[w].order \in Order
      BY <1>4, RunFields DEF Deliver, At
    <2>2. run' \in [Worker -> Running \cup {None}]
      BY <1>4, <1>2, <2>1 DEF Deliver, Finished
    <2> QED
      BY <1>4, <2>1, <2>2 DEF Deliver, TypeOK, authVars, moneyVars
  <1>5. ASSUME NEW ok \in BOOLEAN, Lookup(w, ok)
        PROVE  TypeOK'
    <2>1. run[w] # None /\ run[w].order \in Order
      BY <1>5, RunFields DEF Lookup, At
    <2>2. run' \in [Worker -> Running \cup {None}]
      BY <1>5, <1>3, <2>1 DEF Lookup, Step
    <2>3. payment' \in [Payment -> {"none"} \cup Known]
      BY <1>5 DEF Lookup, TypeOK, Known
    <2> QED
      BY <1>5, <2>2, <2>3 DEF Lookup, TypeOK, authVars
  <1>6. ASSUME NEW ok \in BOOLEAN, Apply(w, ok)
        PROVE  TypeOK'
    <2>1. run[w] # None /\ run[w].order \in Order
      BY <1>6, RunFields DEF Apply, At
    <2>2. run' \in [Worker -> Running \cup {None}]
      BY <1>6, <1>2, <2>1 DEF Apply, Finished
    <2>3. order' \in [Order -> {"none", "awaiting", "paid", "completed", "exception", "closed"}]
      BY <1>6 DEF Apply, CompleteWith, TypeOK
    <2>4. receipt' \in [Order -> Payment \cup Transfer \cup {None}]
      BY <1>6, <2>1 DEF Apply, CompleteWith, TypeOK, Payment, Way
    <2> QED
      BY <1>6, <2>2, <2>3, <2>4 DEF Apply, TypeOK, authVars
  <1>7. ASSUME NEW opened \in BOOLEAN, NEW answered \in BOOLEAN,
               Create(w, opened, answered)
        PROVE  TypeOK'
    <2>1. run[w] # None
      BY <1>7 DEF Create, At
    <2>2. run' \in [Worker -> Running \cup {None}]
      BY <1>7, <1>2, <1>3, <2>1 DEF Create, Step
    <2>3. payment' \in [Payment -> {"none"} \cup Known]
      BY <1>7 DEF Create, Opens, TypeOK, Known
    <2> QED
      BY <1>7, <2>2, <2>3 DEF Create, TypeOK, authVars
  <1>8. CASE Save(w)
    <2>1. run[w] # None /\ run[w].order \in Order /\ run[w].result \in {"pending", "completed", "cancelled_unpaid"}
      BY <1>8, RunFields DEF Save, At
    <2> DEFINE o == run[w].order
    <2>2. attempt[o] # None
      BY <2>1 DEF RunFacts, Working
    <2>3. [attempt[o] EXCEPT !.state = Stored(o, run[w].result), !.leased = FALSE] \in Attempt
      <3>1. attempt[o] \in Attempt
        BY <2>1, <2>2, AttemptFields
      <3> QED
        BY <2>1, <3>1 DEF Attempt, Stored, Finished
    <2>4. attempt' \in [Order -> Attempt \cup {None}]
      BY <1>8, <2>3 DEF Save, TypeOK
    <2> QED
      BY <1>8, <2>4 DEF Save, TypeOK, authVars, moneyVars
  <1>9. CASE Crash(w)
    BY <1>9 DEF Crash, TypeOK, authVars, moneyVars
  <1> QED
    BY <1>1, <1>4, <1>5, <1>6, <1>7, <1>8, <1>9 DEF Work


LEMMA OrderType ==
  ASSUME TypeOK, NEW o \in Order, LeaseExpires(o) \/ Buy(o) \/ Sell(o) \/ DeliverByJob(o)
  PROVE  TypeOK'
  <1> USE DEF TypeOK, authVars, moneyVars
  <1>1. CASE LeaseExpires(o)
    <2>1. [attempt[o] EXCEPT !.leased = FALSE] \in Attempt
      BY <1>1, AttemptFields DEF LeaseExpires, Attempt
    <2> QED
      BY <1>1, <2>1 DEF LeaseExpires
  <1>2. CASE Buy(o)
    BY <1>2 DEF Buy, PlaceOrder, OpenCheckout, CreateOnline, Opens, ClosePurchase, Intent, Known
  <1>3. CASE Sell(o)
    BY <1>3 DEF Sell, FundPurchase, PurchaseFromReceipt, CompleteWith, FulfillPurchase,
         MarkUndeliveredPurchaseRefund, ClearUndeliveredPurchaseRefund, CloseUndeliveredPurchase
  <1>4. CASE DeliverByJob(o)
    BY <1>4 DEF DeliverByJob, CompleteWith, Payment, Way
  <1> QED
    BY <1>1, <1>2, <1>3, <1>4

LEMMA ProviderType ==
  ASSUME TypeOK, NEW p \in Payment, ProviderCaptures(p) \/ RecordFact(p)
  PROVE  TypeOK'
  BY DEF ProviderCaptures, RecordFact, TypeOK, Intent, Known, authVars

(* Every step leaves the types alone; that of Save needs an attempt.       *)
LEMMA NextType ==
  ASSUME TypeOK, \A w \in Worker : RunFacts(w), [Next]_vars
  PROVE  TypeOK'
  <1>1. CASE UNCHANGED vars
    BY <1>1 DEF vars, authVars, moneyVars, TypeOK
  <1>2. CASE NextPeriod
    BY <1>2 DEF NextPeriod, TypeOK, moneyVars
  <1> QED
    BY <1>1, <1>2, AuthorizeType, PrepareType, WorkType, OrderType, ProviderType DEF Next

-----------------------------------------------------------------------------
(* What follows for all attempts and all runs from what lasts of each.     *)

(* Nothing comes back to a period.                                         *)
LEMMA FewerAttempts ==
  ASSUME TypeOK, Bounded, \A o \in Order : OrderLasts(o),
         \A o \in Order : attempt'[o] # None => attempt[o] # None
  PROVE  Bounded'
  <1>1. ASSUME NEW q \in Nat
        PROVE  Cardinality(Live(q))' <= Limit
    <2>1. Live(q)' \subseteq Live(q)
      BY DEF Live, OrderLasts, Lasts
    <2>2. IsFiniteSet(Order)
      BY FS_Interval, ReplenishmentAssumption DEF Order
    <2>3. IsFiniteSet(Live(q))
      <3>1. Live(q) \subseteq Order
        BY DEF Live
      <3> QED
        BY <2>2, <3>1, FS_Subset
    <2>4. Cardinality(Live(q)') <= Cardinality(Live(q)) /\ Cardinality(Live(q)') \in Nat
      BY <2>1, <2>3, FS_Subset, FS_CardinalityType
    <2>5. Cardinality(Live(q)) <= Limit /\ Cardinality(Live(q)) \in Nat /\ Limit \in Nat
      BY <2>3, FS_CardinalityType, ReplenishmentAssumption DEF Bounded
    <2> QED
      BY <2>4, <2>5
  <1> QED
    BY <1>1 DEF Bounded

LEMMA RunsLast ==
  ASSUME TypeOK, NEW w \in Worker, RunFacts(w), run'[w] = run[w],
         \A o \in Order : attempt[o] # None => OrderLasts(o)
  PROVE  RunFacts(w)'
  <1>1. CASE run[w] = None
    BY <1>1 DEF RunFacts
  <1>2. CASE run[w] # None
    <2>1. run[w].order \in Order
      BY <1>2, RunFields
    <2>2. attempt[run[w].order] # None
      BY <1>2 DEF RunFacts, Working
    <2>3. OrderLasts(run[w].order)
      BY <2>1, <2>2
    <2>4. Working(run[w], order'[run[w].order], attempt'[run[w].order])
      BY <1>2, <2>3, WorkingLasts DEF RunFacts, OrderLasts
    <2> QED
      BY <2>4 DEF RunFacts
  <1> QED
    BY <1>1, <1>2


-----------------------------------------------------------------------------
(* The buyer, staff and delivery jobs: the order they work on keeps its    *)
(* facts, and a receipt is given to one order only.                        *)

LEMMA GivenOnce ==
  ASSUME TypeOK, Allocated, NEW o \in Order, NEW r, Free(r) \/ receipt[o] = r,
         receipt' = [receipt EXCEPT ![o] = r]
  PROVE  Allocated'
  BY DEF Allocated, Free, TypeOK

LEMMA BuyFacts ==
  ASSUME TypeOK, NEW o \in Order, OrderFacts(o), Buy(o)
  PROVE  OrderFacts(o)' /\ OrderLasts(o)
  <1> USE DEF TypeOK, OrderFacts, Facts, OrderLasts, Lasts, authVars, moneyVars
  <1>0. <<o, "automatic">> \in Payment /\ <<o, "online">> \in Payment /\ "online" # "automatic"
    BY DEF Payment, Way
  <1>1. ASSUME NEW driver \in {"manual", "online"}, OpenCheckout(o, driver)
        PROVE  OrderFacts(o)' /\ OrderLasts(o)
    BY <1>1 DEF OpenCheckout, Automatic, IsAutomatic, HasState
  <1>2. ASSUME NEW state \in {"kept", "failed"}, NEW opened \in BOOLEAN,
               CreateOnline(o, state, opened)
        PROVE  OrderFacts(o)' /\ OrderLasts(o)
    BY <1>0, <1>2 DEF CreateOnline, Opens
  <1>3. CASE ClosePurchase(o)
    BY <1>3 DEF ClosePurchase, MayClose, Automatic, IsAutomatic, HasState
  <1>4. CASE PlaceOrder(o)
    BY <1>4 DEF PlaceOrder, Fresh, IsAutomatic, HasState
  <1> QED
    BY <1>1, <1>2, <1>3, <1>4 DEF Buy

LEMMA SellFacts ==
  ASSUME TypeOK, NEW o \in Order, OrderFacts(o), Sell(o) \/ DeliverByJob(o)
  PROVE  OrderFacts(o)' /\ OrderLasts(o)
  <1> USE DEF TypeOK, OrderFacts, Facts, OrderLasts, Lasts, authVars, moneyVars
  <1>0. None \notin Payment \cup Transfer /\ Receipts \subseteq Payment \cup Transfer
    BY ReplenishmentAssumption DEF Receipts
  <1>1. ASSUME NEW r \in Payment \cup Transfer, NEW delivered \in BOOLEAN,
               FundPurchase(o, r, delivered)
        PROVE  OrderFacts(o)' /\ OrderLasts(o)
    BY <1>0, <1>1 DEF FundPurchase, Allocates, Automatic, IsAutomatic, HasState
  <1>2. ASSUME NEW r \in Payment \cup Transfer, PurchaseFromReceipt(o, r)
        PROVE  OrderFacts(o)' /\ OrderLasts(o)
    BY <1>0, <1>2 DEF PurchaseFromReceipt, Fresh, CompleteWith, IsAutomatic, HasState
  <1>3. CASE FulfillPurchase(o)
    BY <1>3 DEF FulfillPurchase, IsAutomatic, HasState
  <1>4. CASE MarkUndeliveredPurchaseRefund(o)
    BY <1>4 DEF MarkUndeliveredPurchaseRefund, IsAutomatic, HasState
  <1>5. CASE ClearUndeliveredPurchaseRefund(o)
    BY <1>5 DEF ClearUndeliveredPurchaseRefund, IsAutomatic, HasState
  <1>6. CASE CloseUndeliveredPurchase(o)
    BY <1>6 DEF CloseUndeliveredPurchase, IsAutomatic, HasState
  <1>7. CASE DeliverByJob(o)
    BY <1>0, <1>7 DEF DeliverByJob, CanComplete, Allocates, CompleteWith, IsAutomatic, HasState
  <1> QED
    BY <1>1, <1>2, <1>3, <1>4, <1>5, <1>6, <1>7 DEF Sell

LEMMA OthersUntouched ==
  ASSUME TypeOK, NEW o \in Order, NEW q \in Order \ {o},
         Buy(o) \/ Sell(o) \/ DeliverByJob(o)
  PROVE  Untouched(q)
  <1> USE DEF Untouched, TypeOK, authVars, moneyVars
  <1>1. CASE Buy(o)
    <2>1. <<q, "automatic">> # <<o, "online">> /\ <<q, "online">> # <<o, "online">>
      OBVIOUS
    <2>2. <<q, "automatic">> \in Payment /\ <<q, "online">> \in Payment
      BY DEF Payment, Way
    <2> QED
      BY <1>1, <2>1, <2>2 DEF Buy, PlaceOrder, OpenCheckout, CreateOnline, Opens, ClosePurchase
  <1>2. CASE Sell(o)
    BY <1>2 DEF Sell, FundPurchase, PurchaseFromReceipt, CompleteWith, FulfillPurchase,
         MarkUndeliveredPurchaseRefund, ClearUndeliveredPurchaseRefund, CloseUndeliveredPurchase
  <1>3. CASE DeliverByJob(o)
    BY <1>3 DEF DeliverByJob, CompleteWith
  <1> QED
    BY <1>1, <1>2, <1>3

LEMMA TradeInv ==
  ASSUME IInv, NEW o \in Order, Buy(o) \/ Sell(o) \/ DeliverByJob(o)
  PROVE  IInv'
  <1> USE DEF IInv
  <1>1. UNCHANGED <<attempt, run>>
    BY DEF Buy, PlaceOrder, OpenCheckout, CreateOnline, ClosePurchase, Sell, FundPurchase, PurchaseFromReceipt,
       FulfillPurchase, MarkUndeliveredPurchaseRefund, ClearUndeliveredPurchaseRefund,
       CloseUndeliveredPurchase, DeliverByJob, authVars, moneyVars
  <1>2. \A q \in Order : OrderFacts(q)' /\ OrderLasts(q)
    BY BuyFacts, SellFacts, OthersUntouched, UntouchedKeeps
  <1>3. \A w \in Worker : RunFacts(w)'
    BY <1>1, <1>2, RunsLast
  <1>4. Allocated'
    <2>1. CASE UNCHANGED receipt
      BY <2>1 DEF Allocated
    <2>2. ASSUME NEW r \in Payment \cup Transfer,
                 (\E delivered \in BOOLEAN : FundPurchase(o, r, delivered)) \/ PurchaseFromReceipt(o, r)
          PROVE  Allocated'
      BY <2>2, GivenOnce DEF FundPurchase, Allocates, PurchaseFromReceipt, CompleteWith
    <2>3. CASE DeliverByJob(o)
      BY <2>3, GivenOnce DEF DeliverByJob, CanComplete, Allocates, CompleteWith
    <2> QED
      BY <2>1, <2>2, <2>3 DEF Buy, PlaceOrder, OpenCheckout, CreateOnline, ClosePurchase, Sell,
         FulfillPurchase, MarkUndeliveredPurchaseRefund, ClearUndeliveredPurchaseRefund,
         CloseUndeliveredPurchase, moneyVars
  <1>5. Single' /\ Bounded'
    <2>1. Active' \subseteq Active
      BY <1>1 DEF Active
    <2>2. Single'
      BY <2>1 DEF Single
    <2> QED
      BY <1>1, <1>2, <2>2, FewerAttempts
  <1>6. TypeOK'
    BY OrderType
  <1> QED
    BY <1>2, <1>3, <1>4, <1>5, <1>6


-----------------------------------------------------------------------------
(* The worker: the order of its run keeps its facts, and the run too.      *)

(* What a step of run w has to show: of the order it works on, of the      *)
(* other orders, and of its own run.                                       *)
WorkKeeps(w) ==
  /\ \A q \in Order : OrderFacts(q)' /\ OrderLasts(q)
  /\ RunFacts(w)'
  /\ Allocated' /\ Single'
  /\ \A q \in Order : attempt'[q] # None => attempt[q] # None
  /\ \A v \in Worker \ {w} : run'[v] = run[v]

LEMMA ClaimKeeps ==
  ASSUME IInv, NEW w \in Worker, NEW o \in Order, Claim(w, o)
  PROVE  WorkKeeps(w)
  <1> USE DEF IInv
  <1> DEFINE changed == attempt[o].changed \/ Changed(o)
             submit == attempt[o].state = "prepared"
             new == [attempt[o] EXCEPT !.state = "pending", !.leased = TRUE, !.changed = changed]
  <1>1. /\ attempt[o] # None /\ attempt[o] \in Attempt /\ attempt[o].changed \in BOOLEAN
        /\ attempt[o].mode \in Mode /\ attempt[o].state \notin Finished
    BY AttemptFields DEF Claim, Active
  <1>2. changed \in BOOLEAN
    BY <1>1 DEF Changed
  <1>3. /\ new \in Attempt /\ new.state = "pending" /\ new.mode = attempt[o].mode
        /\ new.period = attempt[o].period /\ new.changed = changed
    BY <1>1, <1>2 DEF Attempt
  <1>4. attempt' = [attempt EXCEPT ![o] = new]
    BY DEF Claim
  <1> HIDE DEF new
  <1>5. attempt'[o] = new /\ \A q \in Order \ {o} : attempt'[q] = attempt[q]
    BY <1>4 DEF TypeOK
  <1>6. new # None
    BY <1>3, ReplenishmentAssumption
  <1>7. UNCHANGED <<order, receipt, checkout, intent, payment>>
    BY DEF Claim, moneyVars
  <1>8. Changed(o) => IsAutomatic(attempt[o]) /\ attempt[o].state = "prepared" /\ payment[<<o, "automatic">>] = "none"
    BY <1>1 DEF Changed, OrderFacts, Facts, HasState
  <1>9. IsAutomatic(new) <=> IsAutomatic(attempt[o]) /\ ~Changed(o)
    BY <1>1, <1>3, <1>6 DEF IsAutomatic
  <1>10. OrderFacts(o)'
    <2>1. OrderFacts(o)
      OBVIOUS
    <2>2. ~HasState(new, "prepared") /\ ~HasState(new, "completed") /\ ~HasState(new, "cancelled_unpaid")
      BY <1>3 DEF HasState
    <2>3. Facts(o, order[o], receipt[o], new, checkout[o], intent[o], payment[<<o, "automatic">>], payment[<<o, "online">>])
      BY <2>1, <2>2, <1>1, <1>8, <1>9, <1>6 DEF OrderFacts, Facts
    <2> QED
      BY <2>3, <1>5, <1>7 DEF OrderFacts
  <1>11. OrderLasts(o)
    BY <1>1, <1>3, <1>5, <1>6, <1>7, <1>8 DEF OrderLasts, Lasts
  <1>12. \A q \in Order : OrderFacts(q)' /\ OrderLasts(q)
    BY <1>5, <1>7, <1>10, <1>11, UntouchedKeeps DEF Untouched
  <1>13. RunFacts(w)'
    <2>1. ASSUME NEW step \in Step, NEW result \in {"pending"} \cup Finished, Begin(w, o, step, result),
                 result = "completed" => order[o] = "completed",
                 result = "cancelled_unpaid" => order[o] = "closed",
                 step \in {"create", "lookup", "apply"} => IsAutomatic(new)
          PROVE  RunFacts(w)'
      <3>1. run'[w] = [order |-> o, step |-> step, result |-> result]
        BY <2>1 DEF Begin, TypeOK
      <3> QED
        BY <2>1, <3>1, <1>3, <1>5, <1>6, <1>7 DEF RunFacts, Working
    <2>2. Process(w, o, changed, submit)
      BY DEF Claim
    <2>3. ~changed /\ attempt[o].mode # "offline" => IsAutomatic(new)
      BY <1>1, <1>9 DEF IsAutomatic, Mode
    <2> HIDE DEF changed, submit
    <2> QED
      BY <2>1, <2>2, <2>3 DEF Process, Step, Finished
  <1>14. Allocated'
    BY <1>7 DEF Allocated
  <1>15. Single'
    <2>1. Active' \subseteq Active
      BY <1>1, <1>5 DEF Active
    <2> QED
      BY <2>1 DEF Single
  <1>16. \A v \in Worker \ {w} : run'[v] = run[v]
    BY DEF Claim, Process, Begin, TypeOK
  <1>17. \A q \in Order : attempt'[q] # None => attempt[q] # None
    BY <1>1, <1>5
  <1> QED
    BY <1>12, <1>13, <1>14, <1>15, <1>16, <1>17 DEF WorkKeeps


(* A step of run w, which works on o, that leaves the attempts alone.      *)
StepOn(w, o, step, result) ==
  /\ run[w] # None /\ o = run[w].order
  /\ UNCHANGED attempt /\ Allocated'
  /\ OrderFacts(o)' /\ OrderLasts(o)
  /\ \A q \in Order \ {o} : Untouched(q)
  /\ Begin(w, o, step, result)
  /\ result = "completed" => order'[o] = "completed"
  /\ result = "cancelled_unpaid" => order'[o] = "closed"
  /\ step \in {"create", "lookup", "apply"} => IsAutomatic(attempt[o])

LEMMA StepKeeps ==
  ASSUME IInv, NEW w \in Worker, NEW o \in Order, NEW step \in Step,
         NEW result \in {"pending", "completed", "cancelled_unpaid"}, StepOn(w, o, step, result)
  PROVE  WorkKeeps(w)
  <1> USE DEF IInv, StepOn
  <1>2. \A q \in Order : OrderFacts(q)' /\ OrderLasts(q)
    BY UntouchedKeeps
  <1>3. run'[w] = [order |-> o, step |-> step, result |-> result]
    BY DEF TypeOK, Begin
  <1>4. attempt[o] # None /\ attempt[o].state # "prepared"
    BY DEF RunFacts, Working
  <1>5. RunFacts(w)'
    BY <1>3, <1>4 DEF RunFacts, Working
  <1>6. Single'
    BY DEF Single, Active
  <1>7. \A v \in Worker \ {w} : run'[v] = run[v]
    BY DEF TypeOK, Begin
  <1> QED
    BY <1>2, <1>5, <1>6, <1>7 DEF WorkKeeps

(* The order of a run at one of the steps of an automatic payment.         *)
LEMMA AtAutomatic ==
  ASSUME IInv, NEW w \in Worker, run[w] # None, NEW o, o = run[w].order,
         run[w].step \in {"create", "lookup", "apply"}
  PROVE  /\ IsAutomatic(attempt[o]) /\ attempt[o].state # "prepared"
         /\ run[w].result \in {"pending", "completed", "cancelled_unpaid"}
         /\ run[w].result = "completed" => order[o] = "completed"
         /\ run[w].result = "cancelled_unpaid" => order[o] = "closed"
         /\ <<o, "automatic">> \in Payment
         /\ <<o, "automatic">> # None
  <1>1. run[w].order \in Order
    BY RunFields DEF IInv
  <1>2. <<o, "automatic">> \in Payment
    BY <1>1 DEF Payment, Way
  <1> QED
    BY <1>1, <1>2, RunFields, ReplenishmentAssumption DEF IInv, RunFacts, Working

LEMMA DeliverKeeps ==
  ASSUME IInv, NEW w \in Worker, NEW ok \in BOOLEAN, Deliver(w, ok)
  PROVE  WorkKeeps(w)
  <1> USE DEF IInv
  <1>1. run[w] # None /\ run[w].order \in Order
    BY RunFields DEF Deliver, At
  <1>2. PICK o \in Order : o = run[w].order
    BY <1>1
  <1>3. UNCHANGED <<receipt, attempt, checkout, intent, payment>>
    BY DEF Deliver, moneyVars
  <1>4. \A q \in Order \ {o} : Untouched(q)
    BY <1>2, <1>3 DEF Deliver, Untouched, TypeOK
  <1>5. Allocated'
    BY <1>3 DEF Allocated
  <1>6. CASE ok /\ order[o] \in {"paid", "completed"}
    <2>1. order'[o] = "completed" /\ Report(w, "completed")
      BY <1>2, <1>6 DEF Deliver, TypeOK
    <2>2. OrderFacts(o)
      OBVIOUS
    <2>3. OrderFacts(o)' /\ OrderLasts(o)
      BY <2>2, <1>3, <1>6, <2>1 DEF OrderFacts, Facts, OrderLasts, Lasts, IsAutomatic, HasState
    <2>4. StepOn(w, o, "save", "completed")
      BY <1>1, <1>2, <1>3, <1>4, <1>5, <2>1, <2>3 DEF StepOn, Report
    <2> QED
      BY <2>4, StepKeeps DEF Step
  <1>7. CASE ~(ok /\ order[o] \in {"paid", "completed"})
    <2>1. UNCHANGED order /\ Report(w, "pending")
      BY <1>2, <1>7 DEF Deliver
    <2>2. OrderFacts(o)' /\ OrderLasts(o)
      BY <1>3, <2>1, UntouchedKeeps DEF Untouched
    <2>3. StepOn(w, o, "save", "pending")
      BY <1>1, <1>2, <1>3, <1>4, <1>5, <2>1, <2>2 DEF StepOn, Report
    <2> QED
      BY <2>3, StepKeeps DEF Step
  <1> QED
    BY <1>6, <1>7


LEMMA CreateKeeps ==
  ASSUME IInv, NEW w \in Worker, NEW opened \in BOOLEAN, NEW answered \in BOOLEAN,
         Create(w, opened, answered)
  PROVE  WorkKeeps(w)
  <1> USE DEF IInv
  <1>1. run[w] # None /\ run[w].step = "create" /\ run[w].order \in Order
    BY RunFields DEF Create, At
  <1>2. PICK o \in Order : o = run[w].order
    BY <1>1
  <1>3. UNCHANGED <<order, receipt, attempt, checkout, intent>>
    BY DEF Create
  <1>4. /\ <<o, "automatic">> \in Payment /\ <<o, "automatic">> # <<o, "online">>
        /\ \A q \in Order \ {o}, way \in Way : <<q, way>> # <<o, "automatic">> /\ <<q, way>> \in Payment
        /\ <<o, "online">> \in Payment
    BY DEF Payment, Way
  <1>5. \A p \in Payment \ {<<o, "automatic">>} : payment'[p] = payment[p]
    BY <1>2 DEF Create, Opens, TypeOK
  <1>6. \A q \in Order \ {o} : Untouched(q)
    BY <1>3, <1>4, <1>5 DEF Untouched, TypeOK, Way
  <1>7. Allocated'
    BY <1>3 DEF Allocated
  <1>8. IsAutomatic(attempt[o]) /\ attempt[o].state # "prepared"
    BY <1>1, <1>2, AtAutomatic
  <1>9. OrderFacts(o)' /\ OrderLasts(o)
    <2>1. OrderFacts(o)
      OBVIOUS
    <2>2. payment'[<<o, "online">>] = payment[<<o, "online">>]
      BY <1>4, <1>5 DEF TypeOK
    <2>3. ~HasState(attempt[o], "prepared")
      BY <1>8 DEF HasState
    <2>4. OrderFacts(o)'
      BY <2>1, <2>2, <2>3, <1>3, <1>8 DEF OrderFacts, Facts
    <2> QED
      BY <2>4, <1>3 DEF OrderLasts, Lasts
  <1>10. CASE answered
    <2>1. Begin(w, o, "apply", run[w].result)
      BY <1>1, <1>2, <1>10 DEF Create, GoOn
    <2>2. /\ run[w].result \in {"pending", "completed", "cancelled_unpaid"}
          /\ run[w].result = "completed" => order[o] = "completed"
          /\ run[w].result = "cancelled_unpaid" => order[o] = "closed"
      BY <1>1, <1>2, AtAutomatic
    <2>3. StepOn(w, o, "apply", run[w].result)
      BY <1>1, <1>2, <1>3, <1>6, <1>7, <1>8, <1>9, <2>1, <2>2 DEF StepOn
    <2> QED
      BY <2>2, <2>3, StepKeeps DEF Step
  <1>11. CASE ~answered
    <2>1. Begin(w, o, "save", "pending")
      BY <1>1, <1>2, <1>11 DEF Create, Report
    <2>2. StepOn(w, o, "save", "pending")
      BY <1>1, <1>2, <1>3, <1>6, <1>7, <1>9, <2>1 DEF StepOn
    <2> QED
      BY <2>2, StepKeeps DEF Step
  <1> QED
    BY <1>10, <1>11

(* What happens to a payment that was made changes nothing of its order.   *)
LEMMA PaymentKeeps ==
  ASSUME IInv, NEW p \in Payment, payment[p] \in {"open", "captured"}, NEW next \in Known,
         payment' = [payment EXCEPT ![p] = next],
         UNCHANGED <<order, receipt, attempt, checkout, intent>>, NEW q \in Order
  PROVE  OrderFacts(q)' /\ OrderLasts(q)
  <1>1. OrderFacts(q)
    BY DEF IInv
  <1>2. \A way \in Way :
          \/ payment'[<<q, way>>] = payment[<<q, way>>]
          \/ /\ payment[<<q, way>>] \in {"open", "captured"}
             /\ payment'[<<q, way>>] \in {"open", "captured", "recorded"}
    BY DEF IInv, TypeOK, Payment, Known
  <1>3. /\ payment'[<<q, "automatic">>] # "none" => payment[<<q, "automatic">>] # "none"
        /\ payment[<<q, "automatic">>] = "none" => payment'[<<q, "automatic">>] = "none"
        /\ payment'[<<q, "online">>] # "none" => payment[<<q, "online">>] # "none"
        /\ payment[<<q, "online">>] = "none" => payment'[<<q, "online">>] = "none"
    BY <1>2 DEF Way
  <1>4. OrderFacts(q)'
    BY <1>1, <1>3 DEF OrderFacts, Facts
  <1>5. OrderLasts(q)
    BY DEF OrderLasts, Lasts
  <1> QED
    BY <1>4, <1>5

LEMMA LookupKeeps ==
  ASSUME IInv, NEW w \in Worker, NEW ok \in BOOLEAN, Lookup(w, ok)
  PROVE  WorkKeeps(w)
  <1> USE DEF IInv
  <1>1. run[w] # None /\ run[w].step = "lookup" /\ run[w].order \in Order
    BY RunFields DEF Lookup, At
  <1>2. PICK o \in Order : o = run[w].order
    BY <1>1
  <1>3. UNCHANGED <<order, receipt, attempt, checkout, intent>>
    BY DEF Lookup
  <1>4. \A q \in Order : OrderFacts(q)' /\ OrderLasts(q)
    <2>1. CASE UNCHANGED payment
      BY <2>1, <1>3, UntouchedKeeps DEF Untouched
    <2>2. CASE payment' # payment
      <3>1. /\ payment[<<o, "automatic">>] = "captured"
            /\ payment' = [payment EXCEPT ![<<o, "automatic">>] = "recorded"]
        BY <2>2, <1>2 DEF Lookup
      <3>2. <<o, "automatic">> \in Payment
        BY DEF Payment, Way
      <3> QED
        BY <3>1, <3>2, <1>3, PaymentKeeps DEF Known
    <2> QED
      BY <2>1, <2>2
  <1>5. /\ IsAutomatic(attempt[o]) /\ attempt[o].state # "prepared"
        /\ run[w].result \in {"pending", "completed", "cancelled_unpaid"}
        /\ run[w].result = "completed" => order[o] = "completed"
        /\ run[w].result = "cancelled_unpaid" => order[o] = "closed"
    BY <1>1, <1>2, AtAutomatic
  <1>6. Begin(w, o, "apply", run[w].result)
    BY <1>1, <1>2 DEF Lookup, GoOn
  <1>7. run'[w] = [order |-> o, step |-> "apply", result |-> run[w].result]
    BY <1>6 DEF Begin, TypeOK
  <1>8. RunFacts(w)'
    <2>1. attempt[o] # None
      BY <1>5 DEF IsAutomatic
    <2> QED
      BY <1>3, <1>5, <1>7, <2>1 DEF RunFacts, Working
  <1>9. Allocated' /\ Single'
    BY <1>3 DEF Allocated, Single, Active
  <1>10. \A v \in Worker \ {w} : run'[v] = run[v]
    BY <1>6 DEF Begin, TypeOK
  <1> QED
    BY <1>3, <1>4, <1>8, <1>9, <1>10 DEF WorkKeeps

LEMMA ApplyKeeps ==
  ASSUME IInv, NEW w \in Worker, NEW ok \in BOOLEAN, Apply(w, ok)
  PROVE  WorkKeeps(w)
  <1> USE DEF IInv
  <1>1. run[w] # None /\ run[w].step = "apply" /\ run[w].order \in Order
    BY RunFields DEF Apply, At
  <1>2. PICK o \in Order : o = run[w].order
    BY <1>1
  <1>3. UNCHANGED <<attempt, checkout, intent, payment>>
    BY DEF Apply
  <1>4. IsAutomatic(attempt[o]) /\ attempt[o].state # "prepared" /\ <<o, "automatic">> # None
    BY <1>1, <1>2, AtAutomatic
  <1>5. CASE /\ CanComplete(o, <<o, "automatic">>) /\ CompleteWith(o, <<o, "automatic">>)
             /\ Report(w, "completed")
    <2>1. /\ order'[o] = "completed" /\ receipt'[o] = <<o, "automatic">>
          /\ order[o] \in {"awaiting", "paid"}
          /\ \A q \in Order \ {o} : Untouched(q)
      BY <1>3, <1>5 DEF CompleteWith, CanComplete, Allocates, Untouched, TypeOK
    <2>2. Allocated'
      BY <1>5, GivenOnce DEF CompleteWith, CanComplete, Allocates
    <2>3. OrderFacts(o)
      OBVIOUS
    <2>4. OrderFacts(o)'
      BY <2>1, <2>3, <1>3, <1>4 DEF OrderFacts, Facts, IsAutomatic, HasState
    <2>5. OrderLasts(o)
      BY <2>1, <1>3 DEF OrderLasts, Lasts
    <2>6. StepOn(w, o, "save", "completed")
      BY <1>1, <1>2, <1>3, <1>5, <2>1, <2>2, <2>4, <2>5 DEF StepOn, Report
    <2> QED
      BY <2>6, StepKeeps DEF Step
  <1>6. CASE /\ UNCHANGED <<order, receipt>>
             /\ Report(w, IF order[o] = "completed" THEN "completed" ELSE "pending")
    <2>1. \A q \in Order : Untouched(q)
      BY <1>3, <1>6 DEF Untouched
    <2>2. OrderFacts(o)' /\ OrderLasts(o)
      BY <2>1, UntouchedKeeps
    <2>3. Allocated'
      BY <1>6 DEF Allocated
    <2>4. PICK result \in {"pending", "completed", "cancelled_unpaid"} :
            /\ result = (IF order[o] = "completed" THEN "completed" ELSE "pending")
            /\ Report(w, result)
      BY <1>6
    <2>5. StepOn(w, o, "save", result)
      BY <1>1, <1>2, <1>3, <1>6, <2>1, <2>2, <2>3, <2>4 DEF StepOn, Report
    <2> QED
      BY <2>5, StepKeeps DEF Step
  <1> QED
    BY <1>2, <1>5, <1>6 DEF Apply


(* A late result may bring an ended attempt back when nothing else is      *)
(* active, but not the money its order has given back.                     *)
LEMMA SaveKeeps ==
  ASSUME IInv, NEW w \in Worker, Save(w)
  PROVE  WorkKeeps(w)
  <1> USE DEF IInv
  <1>1. run[w] # None /\ run[w].order \in Order /\ run[w].result \in {"pending", "completed", "cancelled_unpaid"}
    BY RunFields DEF Save, At
  <1>2. PICK o \in Order : o = run[w].order
    BY <1>1
  <1>3. PICK result \in {"pending", "completed", "cancelled_unpaid"} : result = run[w].result
    BY <1>1
  <1>4. /\ attempt[o] # None /\ attempt[o].state # "prepared"
        /\ result = "completed" => order[o] = "completed"
        /\ result = "cancelled_unpaid" => order[o] = "closed"
    BY <1>1, <1>2, <1>3 DEF RunFacts, Working
  <1>5. UNCHANGED <<order, receipt, checkout, intent, payment>> /\ run' = [run EXCEPT ![w] = None]
    BY DEF Save, moneyVars
  <1>6. RunFacts(w)' /\ \A v \in Worker \ {w} : run'[v] = run[v]
    BY <1>5 DEF RunFacts, TypeOK
  <1>7. Allocated'
    BY <1>5 DEF Allocated
  <1>8. CASE UNCHANGED attempt
    <2>1. \A q \in Order : OrderFacts(q)' /\ OrderLasts(q)
      BY <1>5, <1>8, UntouchedKeeps DEF Untouched
    <2>2. Single'
      BY <1>8 DEF Single, Active
    <2> QED
      BY <1>6, <1>7, <1>8, <2>1, <2>2 DEF WorkKeeps
  <1>9. CASE attempt' # attempt
    <2> DEFINE new == [attempt[o] EXCEPT !.state = result, !.leased = FALSE]
    <2>1. attempt' = [attempt EXCEPT ![o] = new] /\ ~Refused(o, result)
      BY <1>2, <1>3, <1>9 DEF Save, Stored
    <2>2. /\ new \in Attempt /\ new.state = result /\ new.mode = attempt[o].mode
          /\ new.period = attempt[o].period /\ new.changed = attempt[o].changed
      <3>1. attempt[o] \in Attempt
        BY <1>4 DEF TypeOK
      <3> QED
        BY <3>1 DEF Attempt, Finished
    <2>3. new # None
      BY <2>2, ReplenishmentAssumption
    <2> HIDE DEF new
    <2>4. attempt'[o] = new /\ \A q \in Order \ {o} : attempt'[q] = attempt[q]
      BY <2>1 DEF TypeOK
    <2>5. IsAutomatic(new) <=> IsAutomatic(attempt[o])
      BY <1>4, <2>2, <2>3 DEF IsAutomatic
    <2>6. OrderFacts(o)' /\ OrderLasts(o)
      <3>1. OrderFacts(o)
        OBVIOUS
      <3>2. /\ ~HasState(new, "prepared")
            /\ HasState(new, "completed") => order[o] = "completed"
            /\ HasState(new, "cancelled_unpaid") => order[o] = "closed"
        BY <1>4, <2>2 DEF HasState
      <3>3. Facts(o, order[o], receipt[o], new, checkout[o], intent[o], payment[<<o, "automatic">>], payment[<<o, "online">>])
        BY <3>1, <3>2, <2>3, <2>5, <1>4 DEF OrderFacts, Facts
      <3>4. OrderFacts(o)'
        BY <3>3, <2>4, <1>5 DEF OrderFacts
      <3> QED
        BY <3>4, <1>4, <1>5, <2>2, <2>3, <2>4 DEF OrderLasts, Lasts
    <2>7. \A q \in Order : OrderFacts(q)' /\ OrderLasts(q)
      BY <1>5, <2>4, <2>6, UntouchedKeeps DEF Untouched
    <2>8. Single'
      <3>1. CASE Active = {}
        <4>1. Active' \subseteq {o}
          BY <3>1, <2>4 DEF Active
        <4> QED
          BY <4>1 DEF Single
      <3>2. CASE Active # {}
        <4>1. Active' \subseteq Active
          BY <3>2, <1>4, <2>1, <2>2, <2>4 DEF Active, Refused, Finished
        <4> QED
          BY <4>1 DEF Single
      <3> QED
        BY <3>1, <3>2
    <2>9. \A q \in Order : attempt'[q] # None => attempt[q] # None
      BY <1>4, <2>4
    <2> QED
      BY <1>6, <1>7, <2>7, <2>8, <2>9 DEF WorkKeeps
  <1> QED
    BY <1>8, <1>9

LEMMA CrashKeeps ==
  ASSUME IInv, NEW w \in Worker, Crash(w)
  PROVE  WorkKeeps(w)
  <1> USE DEF IInv, Crash, moneyVars
  <1>1. RunFacts(w)' /\ \A v \in Worker \ {w} : run'[v] = run[v]
    BY DEF RunFacts, TypeOK
  <1>2. \A q \in Order : OrderFacts(q)' /\ OrderLasts(q)
    BY UntouchedKeeps DEF Untouched
  <1>3. Allocated' /\ Single'
    BY DEF Allocated, Single, Active
  <1> QED
    BY <1>1, <1>2, <1>3 DEF WorkKeeps

LEMMA WorkInv ==
  ASSUME IInv, NEW w \in Worker, Work(w)
  PROVE  IInv'
  <1>1. WorkKeeps(w)
    BY ClaimKeeps, DeliverKeeps, LookupKeeps, ApplyKeeps, CreateKeeps, SaveKeeps, CrashKeeps DEF Work
  <1>2. TypeOK'
    BY WorkType DEF IInv
  <1>3. \A v \in Worker : RunFacts(v)'
    BY <1>1, RunsLast DEF WorkKeeps, IInv
  <1>4. Bounded'
    BY <1>1, FewerAttempts DEF WorkKeeps, IInv
  <1> QED
    BY <1>1, <1>2, <1>3, <1>4 DEF WorkKeeps, IInv

-----------------------------------------------------------------------------
(* A new attempt: nothing else is active, and there is room in the period. *)
LEMMA PrepareInv ==
  ASSUME IInv, NEW o \in Order, Prepare(o)
  PROVE  IInv'
  <1> USE DEF IInv
  <1>1. PICK new \in Attempt : /\ attempt' = [attempt EXCEPT ![o] = new]
                               /\ new.period = period /\ new.changed = FALSE
                               /\ new.mode \in Mode
                               /\ new.state = IF new.mode = "automatic" THEN "prepared" ELSE "pending"
    <2> DEFINE n == [state |-> IF auth.mode = "automatic" THEN "prepared" ELSE "pending",
                     version |-> auth.version, mode |-> auth.mode, period |-> period,
                     changed |-> FALSE, leased |-> FALSE]
    <2>1. auth.version \in Nat /\ auth.mode \in Mode /\ period \in Nat
      BY DEF TypeOK, Authorization
    <2>2. n \in Attempt
      BY <2>1 DEF Attempt
    <2>3. attempt' = [attempt EXCEPT ![o] = n]
      BY DEF Prepare
    <2> QED
      BY <2>1, <2>2, <2>3
  <1>2. new # None
    BY ReplenishmentAssumption
  <1>3. attempt'[o] = new /\ \A q \in Order \ {o} : attempt'[q] = attempt[q]
    BY <1>1 DEF TypeOK
  <1>4. /\ order[o] = "none" /\ order'[o] = "awaiting" /\ \A q \in Order \ {o} : order'[q] = order[q]
        /\ UNCHANGED <<receipt, checkout, intent, payment, run, period>>
    BY DEF Prepare, Fresh, TypeOK, moneyVars, authVars
  <1>5. /\ receipt[o] = None /\ attempt[o] = None /\ checkout[o] = "none"
        /\ payment[<<o, "automatic">>] = "none" /\ payment[<<o, "online">>] = "none"
    BY <1>4 DEF OrderFacts, Facts
  <1>6. OrderFacts(o)'
    BY <1>1, <1>2, <1>3, <1>4, <1>5 DEF OrderFacts, Facts, IsAutomatic, HasState
  <1>7. ASSUME NEW q \in Order \ {o}
        PROVE  OrderFacts(q)' /\ OrderLasts(q)
    BY <1>3, <1>4, UntouchedKeeps DEF Untouched
  <1>8. \A w \in Worker : RunFacts(w)'
    BY <1>4, <1>5, <1>7, RunsLast
  <1>9. Allocated'
    BY <1>4 DEF Allocated
  <1>10. Single'
    <2>1. Active' \subseteq {o}
      BY <1>3 DEF Prepare, Active
    <2> QED
      BY <2>1 DEF Single
  <1>11. Bounded'
    <2> SUFFICES ASSUME NEW q \in Nat
                 PROVE  Cardinality(Live(q))' <= Limit
      BY DEF Bounded
    <2>1. IsFiniteSet(Order) /\ Limit \in Nat
      BY FS_Interval, ReplenishmentAssumption DEF Order
    <2>2. CASE q # period
      <3>1. Live(q)' = Live(q)
        BY <2>2, <1>1, <1>3, <1>4, <1>5 DEF Live
      <3> QED
        BY <3>1 DEF Bounded
    <2>3. CASE q = period
      <3>1. Live(q) \subseteq Committed(q) /\ Committed(q) \subseteq Order
        BY DEF Live, Committed, OrderFacts, Facts, HasState
      <3>2. IsFiniteSet(Committed(q))
        BY <2>1, <3>1, FS_Subset
      <3>3. /\ IsFiniteSet(Live(q)) /\ Cardinality(Live(q)) <= Cardinality(Committed(q))
            /\ Cardinality(Live(q)) \in Nat /\ Cardinality(Committed(q)) \in Nat
        BY <3>1, <3>2, FS_Subset, FS_CardinalityType
      <3>4. Live(q)' = Live(q) \cup {o} /\ o \notin Live(q)
        BY <2>3, <1>1, <1>2, <1>3, <1>4, <1>5 DEF Live
      <3>5. Cardinality(Live(q) \cup {o}) = Cardinality(Live(q)) + 1
        BY <3>3, <3>4, FS_AddElement
      <3>6. Cardinality(Committed(q)) + 1 <= Limit
        BY <2>3 DEF Prepare
      <3> QED
        BY <2>1, <3>3, <3>4, <3>5, <3>6
    <2> QED
      BY <2>2, <2>3
  <1>12. TypeOK'
    BY PrepareType
  <1> QED
    BY <1>6, <1>7, <1>8, <1>9, <1>10, <1>11, <1>12


-----------------------------------------------------------------------------
(* The other steps touch no order.                                         *)
LEMMA QuietInv ==
  ASSUME IInv, UNCHANGED <<order, receipt, checkout, intent, payment, run>>, TypeOK',
         \A q \in Order : \/ attempt'[q] = attempt[q]
                          \/ /\ attempt[q] # None
                             /\ attempt' = [attempt EXCEPT ![q].leased = FALSE]
  PROVE  IInv'
  <1> USE DEF IInv
  <1>1. ASSUME NEW q \in Order
        PROVE  /\ attempt[q] = None => attempt'[q] = None
               /\ attempt[q] # None =>
                    /\ attempt'[q] # None
                    /\ attempt'[q].state = attempt[q].state /\ attempt'[q].mode = attempt[q].mode
                    /\ attempt'[q].period = attempt[q].period
                    /\ attempt'[q].changed = attempt[q].changed
    <2>1. CASE attempt'[q] = attempt[q]
      BY <2>1
    <2>2. CASE attempt[q] # None /\ attempt' = [attempt EXCEPT ![q].leased = FALSE]
      <3>1. attempt[q] \in Attempt
        BY <2>2, AttemptFields
      <3>2. attempt'[q] = [attempt[q] EXCEPT !.leased = FALSE]
        BY <2>2 DEF TypeOK
      <3>3. attempt'[q] \in Attempt
        BY <3>1, <3>2 DEF Attempt
      <3>4. attempt'[q] # None
        BY <3>3, ReplenishmentAssumption
      <3> QED
        BY <2>2, <3>1, <3>2, <3>4 DEF Attempt
    <2> QED
      BY <2>1, <2>2
  <1>2. ASSUME NEW q \in Order
        PROVE  OrderFacts(q)' /\ OrderLasts(q)
    <2>1. IsAutomatic(attempt'[q]) <=> IsAutomatic(attempt[q])
      BY <1>1 DEF IsAutomatic
    <2>2. \A state : HasState(attempt'[q], state) <=> HasState(attempt[q], state)
      BY <1>1 DEF HasState
    <2>3. OrderFacts(q)
      OBVIOUS
    <2>4. OrderFacts(q)'
      BY <1>1, <2>1, <2>2, <2>3 DEF OrderFacts, Facts
    <2> QED
      BY <1>1, <2>4 DEF OrderLasts, Lasts
  <1>3. \A w \in Worker : RunFacts(w)'
    BY <1>2, RunsLast
  <1>4. Allocated' /\ Single'
    BY <1>1 DEF Allocated, Single, Active
  <1>5. Bounded'
    BY <1>1, <1>2, FewerAttempts
  <1> QED
    BY <1>2, <1>3, <1>4, <1>5

LEMMA ProviderInv ==
  ASSUME IInv, NEW p \in Payment, ProviderCaptures(p) \/ RecordFact(p)
  PROVE  IInv'
  <1> USE DEF IInv
  <1>1. UNCHANGED <<order, receipt, attempt, checkout, intent, run>>
    BY DEF ProviderCaptures, RecordFact
  <1>2. \A q \in Order : OrderFacts(q)' /\ OrderLasts(q)
    BY <1>1, PaymentKeeps DEF ProviderCaptures, RecordFact, Known
  <1>3. \A w \in Worker : RunFacts(w)'
    BY <1>1, <1>2, RunsLast
  <1>4. Allocated' /\ Single'
    BY <1>1 DEF Allocated, Single, Active
  <1>5. Bounded'
    BY <1>1, <1>2, FewerAttempts
  <1>6. TypeOK'
    BY ProviderType
  <1> QED
    BY <1>2, <1>3, <1>4, <1>5, <1>6

LEMMA InitInv == Init => IInv
  <1> SUFFICES ASSUME Init
               PROVE  IInv
    OBVIOUS
  <1>1. TypeOK
    BY InitType
  <1>2. \A o \in Order : attempt[o] = None /\ receipt[o] = None /\ OrderFacts(o)
    BY DEF Init, OrderFacts, Facts, IsAutomatic, HasState, Payment, Way
  <1>3. \A w \in Worker : RunFacts(w)
    BY DEF Init, RunFacts
  <1>4. Allocated /\ Single
    BY <1>2 DEF Allocated, Single, Active
  <1>5. Bounded
    <2>1. \A q \in Nat : Live(q) = {}
      BY <1>2 DEF Live
    <2> QED
      BY <2>1, FS_EmptySet, ReplenishmentAssumption DEF Bounded
  <1> QED
    BY <1>1, <1>2, <1>3, <1>4, <1>5 DEF IInv

LEMMA StepInv == IInv /\ [Next]_vars => IInv'
  <1> SUFFICES ASSUME IInv, [Next]_vars
               PROVE  IInv'
    OBVIOUS
  <1>1. TypeOK'
    BY NextType DEF IInv
  <1>2. CASE UNCHANGED vars \/ Authorize \/ NextPeriod
    BY <1>1, <1>2, QuietInv DEF vars, Authorize, SaveAuthorization, CancelAuthorization,
       SuspendReplenishment, Change, NextPeriod, authVars, moneyVars
  <1>3. ASSUME NEW o \in Order, LeaseExpires(o)
        PROVE  IInv'
    BY <1>1, <1>3, QuietInv DEF LeaseExpires, moneyVars, IInv, TypeOK
  <1> QED
    BY <1>2, <1>3, PrepareInv, TradeInv, WorkInv, ProviderInv DEF Next

-----------------------------------------------------------------------------
(* The theorems.                                                           *)

LEMMA Invariance == Spec => []IInv
  BY InitInv, StepInv, PTL DEF Spec

(* The types of Replenishment are kept by every behaviour; the result of a *)
(* run, which is written whoever holds the attempt, finds a row to go to.  *)
THEOREM TypeAlwaysOK == Spec => []TypeOK
  <1>1. IInv => TypeOK
    BY DEF IInv
  <1> QED
    BY <1>1, Invariance, PTL

(* Whatever the authorization, staff, the buyer and other runs do between  *)
(* the transactions of a run, and whatever the provider made of a payment  *)
(* that was stored as failed, an order is paid by one way only, money      *)
(* allocated to it is nobody else's, and only a creation stored as failed  *)
(* lets it be closed under a payment.                                      *)
THEOREM OneWayAlways == Spec => []OneWayToPay
  <1>1. ASSUME IInv
        PROVE  OneWayToPay
    <2>1. ASSUME NEW o \in Order
          PROVE  /\ ~(Held(<<o, "automatic">>) /\ Held(<<o, "online">>))
                 /\ \A way \in Way : Held(<<o, way>>) =>
                      /\ receipt[o] \in {None, <<o, way>>}
                      /\ order[o] = "closed" => receipt[o] = <<o, way>> \/ StoredAsFailed(o, way)
      <3>1. OrderFacts(o)
        BY <1>1 DEF IInv
      <3> QED
        BY <3>1 DEF OrderFacts, Facts, Held, Known, Way, StoredAsFailed
    <2> QED
      BY <1>1, <2>1 DEF OneWayToPay, IInv, Allocated
  <1> QED
    BY <1>1, Invariance, PTL

(* Results written without a look at the lease start no second purchase.   *)
THEOREM OneAtATimeAlways == Spec => []OneAtATime
  <1>1. ASSUME IInv
        PROVE  OneAtATime
    <2>1. ASSUME NEW o \in Order, attempt[o] # None, order[o] \notin {"completed", "closed"}
          PROVE  o \in Active
      BY <1>1, <2>1 DEF IInv, OrderFacts, Facts, HasState, Active, Finished
    <2> QED
      BY <1>1, <2>1 DEF IInv, Single, OneAtATime
  <1> QED
    BY <1>1, Invariance, PTL

(* What automatic payments take in a period stays within its limit,        *)
(* whatever becomes of their attempts afterwards.                          *)
THEOREM LimitAlwaysKept == Spec => []CollectedWithinLimit
  <1>1. ASSUME IInv
        PROVE  CollectedWithinLimit
    <2> SUFFICES ASSUME NEW q \in 1 .. Periods
                 PROVE  Cardinality(Collected(q)) <= Limit
      BY DEF CollectedWithinLimit
    <2>1. q \in Nat /\ Limit \in Nat /\ IsFiniteSet(Order)
      BY FS_Interval, ReplenishmentAssumption DEF Order
    <2>2. Collected(q) \subseteq Live(q) /\ Live(q) \subseteq Order
      BY DEF Collected, Live
    <2>3. IsFiniteSet(Live(q))
      BY <2>1, <2>2, FS_Subset
    <2>4. /\ Cardinality(Collected(q)) <= Cardinality(Live(q))
          /\ Cardinality(Live(q)) \in Nat /\ Cardinality(Collected(q)) \in Nat
      BY <2>2, <2>3, FS_Subset, FS_CardinalityType
    <2> QED
      BY <1>1, <2>1, <2>4 DEF IInv, Bounded
  <1> QED
    BY <1>1, Invariance, PTL
=============================================================================
