--------------------------- MODULE CommerceProofs ---------------------------
(***************************************************************************)
(* What is proved of Renewals and of Commissions: the two ends of what a   *)
(* customer buys, the charges it has agreed to and the share of them a     *)
(* promoter earns.                                                         *)
(*                                                                         *)
(* Renewals, for any number of runs at once, any terms and any number of   *)
(* publications: every charge is one the customer has agreed to, and no    *)
(* period is paid for twice.  The invariant follows the terms along: those *)
(* consented to last, those the subscription is authorized for, which are  *)
(* never worse, and the dates, of which the next always lies behind every  *)
(* period paid for.  A cancellation or stop may end a consent only once    *)
(* the row that carries it is cancelled.                                   *)
(*                                                                         *)
(* Commissions, for any consumption, rate, chargebacks, corrections and    *)
(* uses: the ledger and the provenance of the lots agree, the promoter has *)
(* exactly what it earned, and what is disputed stays.  The invariant says *)
(* of the books which part of every lot is reserved, blocked and left, and *)
(* the lemmas follow the books through every helper a command calls, those *)
(* that run in a loop by the values they take on the way.                  *)
(***************************************************************************)
EXTENDS Renewals, Commissions, SumTheorems

-----------------------------------------------------------------------------
(*                                 RENEWALS                                *)

(* A stop under way has noted the consents it will end, and one that found *)
(* nothing to cancel leaves a row that only a new consent brings back.     *)
ConsentInv ==
  /\ sub.status # "none" => sub.version > 0
  /\ consent.ended = "yes" => sub.status \in {"none", "cancelled"}
  /\ consent.ended = "stopping" =>
       /\ stopping # None
       /\ stopping = 0 => sub.status \in {"none", "cancelled"}
  /\ sub.commission = consent.commission
  /\ ~RequiresConfirmation(quotes[consent.quote], quotes[sub.quote])

NoticeInv == sub.notice # None => sub.notice \in notices

PaidInv == \A o \in orders : o.at + quotes[o.quote].period <= sub.due

IInv == TypeOK /\ ConsentInv /\ NoticeInv /\ PaidInv /\ OncePerPeriod

-----------------------------------------------------------------------------
(* Terms that are not worse than terms that are not worse are not worse.   *)
LEMMA NotWorseTransitive ==
  ASSUME NEW a \in Terms, NEW b \in Terms, NEW c \in Terms,
         ~RequiresConfirmation(a, b), ~RequiresConfirmation(b, c)
  PROVE  ~RequiresConfirmation(a, c)
  BY DEF RequiresConfirmation, Terms

LEMMA NotWorseThanItself ==
  ASSUME NEW a \in Terms
  PROVE  ~RequiresConfirmation(a, a)
  BY DEF RequiresConfirmation, Terms

(* The terms published so far stay as they are.                            *)
LEMMA QuotesKept ==
  ASSUME TypeOK, NEW t \in Terms, quotes' = Append(quotes, t)
  PROVE  /\ quotes' \in Seq(Terms) /\ Len(quotes') = Len(quotes) + 1
         /\ \A q \in 1 .. Len(quotes) : quotes'[q] = quotes[q]
  BY DEF TypeOK

LEMMA InitInv == Init => IInv
  <1> SUFFICES ASSUME Init PROVE IInv
    OBVIOUS
  <1>1. First \in Terms /\ Funds \in Nat
    BY RenewalsAssumption
  <1>2. /\ quotes \in Seq(Terms) /\ Len(quotes) = 1 /\ quotes[1] = First
        /\ First.owner \in Owner /\ First.period \in Nat
    BY <1>1 DEF Init, Terms
  <1>3. TypeOK
    BY <1>1, <1>2 DEF Init, TypeOK, Notice, Row, Status, Consent, Published
  <1>4. ConsentInv
    BY <1>1, <1>2, NotWorseThanItself DEF Init, ConsentInv
  <1>5. NoticeInv /\ PaidInv /\ OncePerPeriod
    BY DEF Init, NoticeInv, PaidInv, OncePerPeriod
  <1>6. QED BY <1>3, <1>4, <1>5 DEF IInv

-----------------------------------------------------------------------------
(* One lemma for each transaction.                                         *)

LEMMA PublishKeeps ==
  ASSUME IInv, NEW t \in Offers, NEW open \in BOOLEAN, PublishPackage(t, open)
  PROVE  IInv'
  <1>1. t \in Terms /\ t.owner \in Owner
    BY RenewalsAssumption DEF Terms
  <1>2. /\ quotes' \in Seq(Terms) /\ Len(quotes') = Len(quotes) + 1
        /\ \A q \in 1 .. Len(quotes) : quotes'[q] = quotes[q]
    BY <1>1, QuotesKept DEF PublishPackage, IInv
  <1>3. Len(quotes) \in Nat /\ 1 .. Len(quotes) \subseteq 1 .. Len(quotes')
    BY <1>2 DEF IInv, TypeOK
  <1>4. TypeOK'
    <2>1. package' \in [Owner -> [quote : {0} \cup Published', open : BOOLEAN]]
      BY <1>1, <1>2, <1>3 DEF PublishPackage, IInv, TypeOK, Published
    <2>2. UNCHANGED <<now, owner, sub, notices, run, customerVars, fundsVars, orders>>
      BY DEF PublishPackage
    <2>3. /\ sub.quote \in 1 .. Len(quotes') /\ consent.quote \in 1 .. Len(quotes')
          /\ \A o \in orders : o.quote \in 1 .. Len(quotes')
      BY <1>3 DEF IInv, TypeOK, Published
    <2>4. QED BY <1>2, <2>1, <2>2, <2>3 DEF IInv, TypeOK, Published, customerVars, fundsVars
  <1>5. ConsentInv'
    <2>1. /\ quotes'[consent.quote] = quotes[consent.quote]
          /\ quotes'[sub.quote] = quotes[sub.quote]
      BY <1>2 DEF IInv, TypeOK, Published
    <2>2. QED BY <2>1 DEF PublishPackage, customerVars, IInv, ConsentInv
  <1>6. NoticeInv' /\ PaidInv' /\ OncePerPeriod'
    <2>1. \A o \in orders : quotes'[o.quote] = quotes[o.quote]
      BY <1>2 DEF IInv, TypeOK, Published
    <2>2. QED BY <2>1 DEF PublishPackage, IInv, NoticeInv, PaidInv, OncePerPeriod
  <1>7. QED BY <1>4, <1>5, <1>6 DEF IInv

LEMMA TakeOverKeeps ==
  ASSUME IInv, NEW o \in Owner, TakeOver(o)
  PROVE  IInv'
  <1> DEFINE s == IF sub.status = "cancelled" THEN "cancelled" ELSE "needs_confirmation"
  <1>1. UNCHANGED <<now, quotes, package, notices, run, customerVars, fundsVars, orders>>
    BY DEF TakeOver
  <1>2. CASE sub' = sub
    BY <1>1, <1>2 DEF TakeOver, IInv, TypeOK, Published, ConsentInv, NoticeInv, PaidInv,
                      OncePerPeriod, fundsVars, customerVars
  <1>3. CASE /\ sub' = [sub EXCEPT !.status = s, !.notice = None, !.version = @ + 1]
             /\ sub.status # "none"
    <2>1. sub \in Row /\ s \in Status /\ (s = "cancelled" <=> sub.status = "cancelled")
      BY DEF IInv, TypeOK, Status
    <2> HIDE DEF s
    <2>2. /\ sub' \in Row /\ sub'.version > 0 /\ sub'.status = s /\ sub'.quote = sub.quote
          /\ sub'.commission = sub.commission /\ sub'.due = sub.due /\ sub'.notice = None
      <3>1. sub.version + 1 \in Nat /\ sub.version + 1 > 0
        BY <2>1 DEF Row
      <3>2. QED BY <1>3, <2>1, <3>1 DEF Row
    <2>3. TypeOK'
      BY <1>1, <2>2 DEF TakeOver, IInv, TypeOK, Published, customerVars, fundsVars
    <2>4. ConsentInv' /\ NoticeInv' /\ PaidInv' /\ OncePerPeriod'
      BY <1>1, <1>3, <2>1, <2>2
         DEF IInv, ConsentInv, NoticeInv, PaidInv, OncePerPeriod, customerVars
    <2>5. QED BY <2>3, <2>4 DEF IInv
  <1>4. QED BY <1>2, <1>3 DEF TakeOver, Exists

LEMMA AcceptKeeps ==
  ASSUME IInv, NEW allow \in BOOLEAN, Accept(allow)
  PROVE  IInv'
  <1>1. Current \in Published /\ Current \in Nat /\ quotes[Current] \in Terms /\ sub \in Row
    BY DEF Accept, Open, Current, IInv, TypeOK, Published
  <1>2. /\ sub' = [sub EXCEPT !.status = "active", !.quote = Current,
                              !.commission = allow, !.version = @ + 1]
        /\ consent' = [quote |-> Current, commission |-> allow, ended |-> "no"]
        /\ UNCHANGED <<now, termsVars, notices, run, customer, stopping, fundsVars, orders>>
    BY DEF Accept
  <1>3. /\ sub' \in Row /\ sub'.version > 0 /\ sub'.status = "active" /\ sub'.quote = Current
        /\ sub'.commission = allow /\ sub'.due = sub.due /\ sub'.notice = sub.notice
    <2>1. sub.version + 1 \in Nat /\ sub.version + 1 > 0
      BY <1>1 DEF Row
    <2> DEFINE q == Current
    <2>2. /\ q \in Nat /\ q = Current
          /\ sub' = [sub EXCEPT !.status = "active", !.quote = q,
                                !.commission = allow, !.version = @ + 1]
      BY <1>1, <1>2
    <2> HIDE DEF q
    <2>3. QED BY <1>1, <2>1, <2>2 DEF Row, Status
  <1>4. /\ consent' \in Consent /\ consent'.quote = Current /\ consent'.commission = allow
        /\ consent'.ended = "no"
    BY <1>1, <1>2 DEF Consent
  <1>5. TypeOK'
    BY <1>1, <1>2, <1>3, <1>4 DEF IInv, TypeOK, Published, termsVars, fundsVars
  <1>6. ConsentInv'
    <2>1. ~RequiresConfirmation(quotes[Current], quotes[Current])
      BY <1>1, NotWorseThanItself
    <2>2. quotes' = quotes
      BY <1>2 DEF termsVars
    <2>3. QED BY <1>3, <1>4, <2>1, <2>2 DEF ConsentInv
  <1>7. NoticeInv' /\ PaidInv' /\ OncePerPeriod'
    BY <1>2, <1>3 DEF IInv, NoticeInv, PaidInv, OncePerPeriod, termsVars
  <1>8. QED BY <1>5, <1>6, <1>7 DEF IInv

LEMMA DeliverKeeps ==
  ASSUME IInv, NEW autoRenew \in BOOLEAN, NEW allow \in BOOLEAN, Deliver(autoRenew, allow)
  PROVE  IInv'
  <1> DEFINE d == now + quotes[sub.quote].period
             s == IF ~autoRenew THEN "none"
                  ELSE IF owner = quotes[sub.quote].owner THEN "active" ELSE "needs_confirmation"
             c == allow /\ autoRenew
             v == IF autoRenew THEN 1 ELSE 0
  <1>1. UNCHANGED <<now, termsVars, notices, run, customer, stopping, fundsVars, orders>>
    BY DEF Deliver
  <1>2. sub \in Row /\ sub.quote \in Published /\ sub.due = 0 /\ quotes[sub.quote] \in Terms
    BY DEF Deliver, Delivered, IInv, TypeOK, Published, Row
  <1>3. d \in Nat /\ s \in Status /\ c \in BOOLEAN /\ v \in Nat /\ (s # "none" => v > 0)
    BY <1>2, SMTT(30) DEF IInv, TypeOK, Terms, Status
  <1>4. sub' = [sub EXCEPT !.due = d, !.status = s, !.commission = c, !.version = v]
    BY DEF Deliver
  <1>5. /\ consent' = [quote |-> sub.quote, commission |-> c,
                       ended |-> IF autoRenew THEN "no" ELSE "yes"]
        /\ consent'.ended = "yes" => s = "none"
    BY DEF Deliver
  <1> HIDE DEF d, s, c, v
  <1>6. /\ sub' \in Row /\ (sub'.status # "none" => sub'.version > 0) /\ sub'.status = s
        /\ sub'.quote = sub.quote /\ sub'.commission = c /\ sub'.notice = sub.notice
    BY <1>2, <1>3, <1>4 DEF Row
  <1>7. /\ consent' \in Consent /\ consent'.quote = sub.quote /\ consent'.commission = c
        /\ consent'.ended # "stopping"
    BY <1>2, <1>3, <1>5 DEF Consent, Row
  <1>8. orders = {}
    <2>1. ASSUME NEW o \in orders PROVE FALSE
      <3>1. o.at \in Nat /\ quotes[o.quote] \in Terms
        BY DEF IInv, TypeOK, Renewal, Published
      <3>2. quotes[o.quote].period \in Nat \ {0}
        BY <3>1 DEF Terms
      <3>3. o.at + quotes[o.quote].period <= 0
        BY <1>2 DEF IInv, PaidInv
      <3>4. QED BY <3>1, <3>2, <3>3
    <2>2. QED BY <2>1
  <1>9. TypeOK'
    BY <1>1, <1>2, <1>6, <1>7 DEF IInv, TypeOK, Published, termsVars, fundsVars
  <1>10. ConsentInv'
    <2>1. ~RequiresConfirmation(quotes[sub.quote], quotes[sub.quote])
      BY <1>2, NotWorseThanItself
    <2>2. quotes' = quotes
      BY <1>1 DEF termsVars
    <2>3. QED BY <1>5, <1>6, <1>7, <2>1, <2>2 DEF ConsentInv
  <1>11. NoticeInv' /\ PaidInv' /\ OncePerPeriod'
    BY <1>1, <1>6, <1>8 DEF IInv, NoticeInv, PaidInv, OncePerPeriod
  <1>12. QED BY <1>9, <1>10, <1>11 DEF IInv

LEMMA CancelKeeps == ASSUME IInv, CancelAutoRenewal PROVE IInv'
  <1>1. UNCHANGED <<now, termsVars, notices, run, customer, stopping, fundsVars, orders>>
    BY DEF CancelAutoRenewal
  <1>2. /\ sub' \in Row /\ sub'.version > 0 /\ sub'.status = "cancelled"
        /\ sub'.quote = sub.quote /\ sub'.commission = sub.commission
        /\ sub'.due = sub.due /\ sub'.notice = sub.notice
    <2>1. sub \in Row /\ "cancelled" \in Status
      BY DEF IInv, TypeOK, Status
    <2>2. sub.version + 1 \in Nat /\ sub.version + 1 > 0
      BY <2>1 DEF Row
    <2>3. sub' = [sub EXCEPT !.status = "cancelled", !.version = sub.version + 1]
      BY DEF CancelAutoRenewal
    <2>4. QED BY <2>1, <2>2, <2>3 DEF Row
  <1>3. /\ consent' \in Consent /\ consent'.quote = consent.quote
        /\ consent'.commission = consent.commission /\ consent'.ended = "yes"
    BY DEF CancelAutoRenewal, Ended, IInv, TypeOK, Consent
  <1>4. TypeOK'
    BY <1>1, <1>2, <1>3 DEF IInv, TypeOK, Published, termsVars, fundsVars
  <1>5. ConsentInv' /\ NoticeInv' /\ PaidInv' /\ OncePerPeriod'
    BY <1>1, <1>2, <1>3 DEF IInv, ConsentInv, NoticeInv, PaidInv, OncePerPeriod, termsVars
  <1>6. QED BY <1>4, <1>5 DEF IInv

LEMMA BeginStopKeeps == ASSUME IInv, BeginStop PROVE IInv'
  <1>1. UNCHANGED <<now, termsVars, sub, notices, run, customer, fundsVars, orders>>
    BY DEF BeginStop
  <1>2. /\ stopping' \in Nat
        /\ stopping' = 0 => sub.status \in {"none", "cancelled"}
    BY DEF BeginStop, IInv, TypeOK, ConsentInv, Row
  <1>3. stopping' # None
    BY <1>2, RenewalsAssumption
  <1>4. /\ consent' \in Consent /\ consent'.quote = consent.quote
        /\ consent'.commission = consent.commission
        /\ consent'.ended = "yes" => consent.ended = "yes"
    BY DEF BeginStop, IInv, TypeOK, Consent
  <1>5. TypeOK'
    BY <1>1, <1>2, <1>4 DEF IInv, TypeOK, Published, termsVars, fundsVars
  <1>6. ConsentInv' /\ NoticeInv' /\ PaidInv' /\ OncePerPeriod'
    BY <1>1, <1>2, <1>3, <1>4 DEF IInv, ConsentInv, NoticeInv, PaidInv, OncePerPeriod, termsVars
  <1>7. QED BY <1>5, <1>6 DEF IInv

LEMMA StopKeeps == ASSUME IInv, StopUsing PROVE IInv'
  <1>1. UNCHANGED <<now, termsVars, notices, run, fundsVars, orders>>
    BY DEF StopUsing
  <1>2. /\ sub' \in Row /\ sub'.quote = sub.quote /\ sub'.commission = sub.commission
        /\ sub'.due = sub.due /\ sub'.notice = sub.notice
        /\ sub'.status # "none" => sub'.version > 0
        /\ \/ sub'.status = "cancelled"
           \/ stopping = 0 /\ sub'.status = sub.status
    <2>1. CASE stopping = 0
      BY <2>1 DEF StopUsing, IInv, TypeOK, ConsentInv
    <2>2. CASE stopping # 0
      <3>1. sub \in Row /\ "cancelled" \in Status /\ stopping + 1 \in Nat /\ stopping + 1 > 0
        BY <2>2 DEF StopUsing, IInv, TypeOK, Status
      <3>2. sub' = [sub EXCEPT !.status = "cancelled", !.version = stopping + 1]
        BY <2>2 DEF StopUsing, CancelRead
      <3>3. QED BY <3>1, <3>2 DEF Row
    <2>3. QED BY <2>1, <2>2
  <1>3. /\ consent' \in Consent /\ consent'.quote = consent.quote
        /\ consent'.commission = consent.commission /\ consent'.ended # "stopping"
        /\ consent'.ended = "yes" => consent.ended \in {"yes", "stopping"}
    BY DEF StopUsing, Ended, IInv, TypeOK, Consent
  <1>4. customer' = "stopped" /\ stopping' = None
    BY DEF StopUsing
  <1>5. TypeOK'
    BY <1>1, <1>2, <1>3, <1>4 DEF IInv, TypeOK, Published, termsVars, fundsVars
  <1>6. ConsentInv' /\ NoticeInv' /\ PaidInv' /\ OncePerPeriod'
    BY <1>1, <1>2, <1>3 DEF IInv, ConsentInv, NoticeInv, PaidInv, OncePerPeriod, termsVars
  <1>7. QED BY <1>5, <1>6 DEF IInv

LEMMA ElsewhereKeeps == ASSUME IInv, ResumeUsing \/ FundsMove \/ Tick PROVE IInv'
  <1>1. UNCHANGED <<quotes, package, owner, sub, notices, run, stopping, consent, orders>>
    BY DEF ResumeUsing, FundsMove, Tick, termsVars, fundsVars, customerVars
  <1>2. /\ now' \in Nat /\ customer' \in {"active", "stopped"}
        /\ money' \in Nat /\ commission' \in Nat
    BY RenewalsAssumption
       DEF ResumeUsing, FundsMove, Tick, IInv, TypeOK, termsVars, fundsVars, customerVars
  <1>3. QED BY <1>1, <1>2 DEF IInv, TypeOK, Published, ConsentInv, NoticeInv, PaidInv, OncePerPeriod

LEMMA RunKeeps ==
  ASSUME IInv, NEW r \in Run, BeginRun(r) \/ RunFails(r)
  PROVE  IInv'
  <1>1. UNCHANGED <<now, termsVars, sub, notices, customerVars, fundsVars, orders>>
    BY DEF BeginRun, RunFails
  <1>2. run' \in [Run -> Running \cup {None}]
    <2>1. CASE RunFails(r)
      BY <2>1 DEF RunFails, IInv, TypeOK
    <2>2. CASE BeginRun(r)
      <3>1. /\ Current \in Nat /\ sub.due \in Nat /\ Accepted(Current, sub.due) \in BOOLEAN
        BY DEF Current, Accepted, IInv, TypeOK, Published, Row
      <3>2. [step |-> IF Open THEN "notice" ELSE "renew", quote |-> Current, due |-> sub.due,
             accepted |-> Accepted(Current, sub.due)] \in Running
        BY <3>1 DEF Running
      <3>3. QED BY <2>2, <3>2 DEF BeginRun, IInv, TypeOK
    <2>3. QED BY <2>1, <2>2
  <1>3. QED BY <1>1, <1>2 DEF IInv, TypeOK, Published, ConsentInv, NoticeInv, PaidInv, OncePerPeriod,
                          termsVars, fundsVars, customerVars

LEMMA RecordKeeps ==
  ASSUME IInv, NEW r \in Run, RecordNotice(r)
  PROVE  IInv'
  <1> DEFINE n == [quote |-> run[r].quote, due |-> run[r].due]
  <1>1. run[r] \in Running
    BY DEF RecordNotice, IInv, TypeOK
  <1>2. n \in Notice
    BY <1>1 DEF Running, Notice
  <1>3. run' \in [Run -> Running \cup {None}]
    BY <1>1 DEF RecordNotice, Running, IInv, TypeOK
  <1>4. UNCHANGED <<now, termsVars, customerVars, fundsVars, orders>>
    BY DEF RecordNotice
  <1>5. \/ UNCHANGED <<sub, notices>>
        \/ /\ sub' = [sub EXCEPT !.notice = n, !.version = @ + 1]
           /\ notices' = notices \cup {n}
    BY DEF RecordNotice
  <1>6. \/ UNCHANGED <<sub, notices>>
        \/ /\ sub' \in Row /\ sub'.version > 0 /\ sub'.status = sub.status
           /\ sub'.quote = sub.quote /\ sub'.commission = sub.commission
           /\ sub'.due = sub.due /\ sub'.notice = n /\ notices' = notices \cup {n}
    <2>1. sub \in Row /\ sub.version + 1 \in Nat /\ sub.version + 1 > 0
      BY DEF IInv, TypeOK, Row
    <2>2. QED BY <1>2, <1>5, <2>1 DEF Row
  <1> HIDE DEF n
  <1>7. TypeOK'
    BY <1>2, <1>3, <1>4, <1>6 DEF IInv, TypeOK, Published, termsVars, fundsVars, customerVars
  <1>8. ConsentInv' /\ NoticeInv' /\ PaidInv' /\ OncePerPeriod'
    BY <1>4, <1>6 DEF IInv, ConsentInv, NoticeInv, PaidInv, OncePerPeriod,
                      termsVars, customerVars
  <1>9. QED BY <1>7, <1>8 DEF IInv

-----------------------------------------------------------------------------
(* The renewal.                                                            *)

LEMMA AskKeeps ==
  ASSUME IInv, AskConfirmation \/ AskFunds,
         UNCHANGED <<now, termsVars, notices, customerVars>>,
         run' \in [Run -> Running \cup {None}]
  PROVE  IInv'
  <1>1. /\ sub.status \in {"active", "needs_funds"} /\ UNCHANGED <<fundsVars, orders>>
        /\ \E s \in {"needs_confirmation", "needs_funds"} :
             sub' = [sub EXCEPT !.status = s, !.version = @ + 1]
    BY DEF AskConfirmation, AskFunds, Renewable
  <1>2. /\ sub' \in Row /\ sub'.version > 0
        /\ sub'.status \in {"needs_confirmation", "needs_funds"}
        /\ sub'.quote = sub.quote /\ sub'.commission = sub.commission
        /\ sub'.due = sub.due /\ sub'.notice = sub.notice
    <2>1. sub \in Row /\ {"needs_confirmation", "needs_funds"} \subseteq Status
      BY DEF IInv, TypeOK, Status
    <2>2. sub.version + 1 \in Nat /\ sub.version + 1 > 0
      BY <2>1 DEF Row
    <2>3. PICK s \in {"needs_confirmation", "needs_funds"} :
            sub' = [sub EXCEPT !.status = s, !.version = sub.version + 1]
      BY <1>1
    <2>4. s \in Status
      BY <2>1
    <2>5. QED BY <2>1, <2>2, <2>3, <2>4 DEF Row
  <1>3. TypeOK'
    BY <1>1, <1>2 DEF IInv, TypeOK, Published, termsVars, fundsVars, customerVars
  <1>4. ConsentInv' /\ NoticeInv' /\ PaidInv' /\ OncePerPeriod'
    BY <1>1, <1>2 DEF IInv, ConsentInv, NoticeInv, PaidInv, OncePerPeriod,
                      termsVars, customerVars
  <1>5. QED BY <1>3, <1>4 DEF IInv

(* The funds of a charge: the wallet first, the commission for the rest.   *)
LEMMA ChargedFunds ==
  ASSUME TypeOK, Open, Funded
  PROVE  /\ Current \in Published /\ quotes[Current] \in Terms
         /\ FromMoney \in Nat /\ FromCommission \in Nat
         /\ money - FromMoney \in Nat /\ commission - FromCommission \in Nat
         /\ FromMoney + FromCommission = quotes[Current].price
         /\ FromCommission > 0 => sub.commission /\ FromMoney = money
  <1>1. Current \in Published /\ quotes[Current] \in Terms
    BY DEF Open, Current, TypeOK, Published
  <1>2. /\ quotes[Current].price \in Nat /\ money \in Nat /\ commission \in Nat
        /\ sub.commission \in BOOLEAN
    BY <1>1 DEF Terms, Row, TypeOK
  <1>3. FromMoney \in Nat /\ money - FromMoney \in Nat /\ FromMoney <= quotes[Current].price
    BY <1>2 DEF FromMoney
  <1>4. FromCommission \in Nat /\ commission - FromCommission \in Nat
    BY <1>2, <1>3 DEF FromCommission
  <1>5. FromCommission > 0 => sub.commission /\ FromMoney = money
    BY <1>2, <1>3 DEF FromCommission, FromMoney
  <1>6. QED BY <1>1, <1>3, <1>4, <1>5 DEF Funded

LEMMA ChargeKeeps ==
  ASSUME IInv, Charge, UNCHANGED <<now, termsVars, notices, customerVars>>,
         run' \in [Run -> Running \cup {None}]
  PROVE  IInv'
  <1> DEFINE o == [at |-> now, due |-> sub.due, quote |-> Current,
                   money |-> FromMoney, commission |-> FromCommission]
  <1>1. /\ Current \in Published /\ quotes[Current] \in Terms
        /\ FromMoney \in Nat /\ FromCommission \in Nat
        /\ money - FromMoney \in Nat /\ commission - FromCommission \in Nat
    BY ChargedFunds DEF Charge, Renewable, IInv
  <1>2. /\ now \in Nat /\ sub.due \in Nat /\ sub.due <= now
        /\ quotes[Current].period \in Nat
    BY <1>1 DEF Charge, Renewable, Terms, Row, IInv, TypeOK
  <1>3. /\ orders' = orders \cup {o}
        /\ money' = money - FromMoney /\ commission' = commission - FromCommission
        /\ sub' = [status |-> "active", quote |-> Current, commission |-> sub.commission,
                   due |-> now + quotes[Current].period, notice |-> None,
                   version |-> sub.version + 1]
        /\ quotes' = quotes
    BY DEF Charge, DueAfterDelivery, termsVars
  <1>4. /\ o \in Renewal
        /\ o.at = now /\ o.quote = Current
    BY <1>1, <1>2 DEF Renewal, Published
  <1> HIDE DEF o
  <1>5. TypeOK'
    <2>1. sub' \in Row /\ sub'.quote = Current
      <3>1. /\ sub.version + 1 \in Nat /\ sub.commission \in BOOLEAN /\ Current \in Nat
            /\ now + quotes[Current].period \in Nat
        BY <1>1, <1>2 DEF IInv, TypeOK, Row, Published
      <3>2. QED BY <1>3, <3>1 DEF Row, Status
    <2>2. orders' \subseteq Renewal /\ \A a \in orders' : a.quote \in Published
      BY <1>1, <1>3, <1>4 DEF IInv, TypeOK
    <2>3. QED BY <1>1, <1>3, <2>1, <2>2 DEF IInv, TypeOK, Published, termsVars, customerVars
  <1>6. ConsentInv'
    <2>1. /\ quotes[consent.quote] \in Terms /\ quotes[sub.quote] \in Terms
          /\ ~RequiresConfirmation(quotes[consent.quote], quotes[sub.quote])
          /\ ~RequiresConfirmation(quotes[sub.quote], quotes[Current])
      BY DEF Charge, Worse, IInv, TypeOK, Published, ConsentInv
    <2>2. ~RequiresConfirmation(quotes[consent.quote], quotes[Current])
      BY <1>1, <2>1, NotWorseTransitive
    <2>3. consent.ended # "yes" /\ (consent.ended = "stopping" => stopping # None /\ stopping # 0)
      BY DEF Charge, Renewable, IInv, ConsentInv
    <2>4. /\ sub'.status = "active" /\ sub'.version > 0 /\ sub'.quote = Current
          /\ sub'.commission = sub.commission
      <3>1. sub.version + 1 > 0
        BY DEF IInv, TypeOK, Row
      <3>2. QED BY <1>3, <3>1
    <2>5. QED BY <1>3, <2>2, <2>3, <2>4 DEF IInv, ConsentInv, customerVars
  <1>7. \A a \in orders : a.at + quotes[a.quote].period \in Int /\ a.at + quotes[a.quote].period <= now
    <2>1. ASSUME NEW a \in orders
          PROVE  a.at + quotes[a.quote].period \in Int /\ a.at + quotes[a.quote].period <= now
      <3>1. a.at \in Nat /\ quotes[a.quote] \in Terms
        BY DEF IInv, TypeOK, Renewal, Published
      <3>2. quotes[a.quote].period \in Nat
        BY <3>1 DEF Terms
      <3>3. a.at + quotes[a.quote].period <= sub.due
        BY DEF IInv, PaidInv
      <3>4. QED BY <1>2, <3>1, <3>2, <3>3
    <2>2. QED BY <2>1
  <1>8. NoticeInv'
    BY <1>3 DEF NoticeInv
  <1>9. PaidInv'
    BY <1>2, <1>3, <1>4, <1>7 DEF PaidInv
  <1>10. OncePerPeriod'
    BY <1>3, <1>4, <1>7 DEF IInv, OncePerPeriod
  <1>11. QED BY <1>5, <1>6, <1>8, <1>9, <1>10 DEF IInv

LEMMA RenewKeeps ==
  ASSUME IInv, NEW r \in Run, RenewSubscription(r)
  PROVE  IInv'
  <1>1. UNCHANGED <<now, termsVars, notices, customerVars>>
    BY DEF RenewSubscription
  <1>2. run' \in [Run -> Running \cup {None}]
    BY DEF RenewSubscription, IInv, TypeOK
  <1>3. CASE UNCHANGED <<sub, fundsVars, orders>>
    BY <1>1, <1>2, <1>3 DEF IInv, TypeOK, Published, ConsentInv, NoticeInv, PaidInv, OncePerPeriod,
                            termsVars, fundsVars, customerVars
  <1>4. CASE AskConfirmation \/ AskFunds \/ Charge
    BY <1>1, <1>2, <1>4, AskKeeps, ChargeKeeps
  <1>5. QED BY <1>3, <1>4 DEF RenewSubscription

-----------------------------------------------------------------------------
LEMMA StepKeeps == IInv /\ [Next]_vars => IInv'
  <1> SUFFICES ASSUME IInv, [Next]_vars PROVE IInv'
    OBVIOUS
  <1>1. CASE CustomerStep
    BY <1>1, DeliverKeeps, AcceptKeeps, CancelKeeps, BeginStopKeeps, StopKeeps, ElsewhereKeeps
       DEF CustomerStep, Enable, ConfirmRenewal
  <1>2. CASE World
    BY <1>2, PublishKeeps, TakeOverKeeps, ElsewhereKeeps DEF World
  <1>3. CASE \E r \in Run : Worker(r)
    BY <1>3, RunKeeps, RecordKeeps, RenewKeeps DEF Worker
  <1>4. CASE UNCHANGED vars
    BY <1>4 DEF vars, IInv, TypeOK, Published, ConsentInv, NoticeInv, PaidInv, OncePerPeriod,
                termsVars, fundsVars, customerVars
  <1>5. QED BY <1>1, <1>2, <1>3, <1>4 DEF Next

(* What holds when orders appear.                                          *)
LEMMA StepCharges ==
  ASSUME IInv, Next, NEW o \in orders' \ orders
  PROVE  /\ consent.ended # "yes" /\ customer = "active"
         /\ ~RequiresConfirmation(quotes[consent.quote], quotes[o.quote])
         /\ o.at >= o.due /\ [quote |-> o.quote, due |-> o.due] \in notices
         /\ o.money + o.commission = quotes[o.quote].price
         /\ o.commission > 0 => consent.commission /\ o.money = money
  <1>1. Charge
    <2>1. CASE CustomerStep
      BY <2>1 DEF CustomerStep, Deliver, Enable, ConfirmRenewal, Accept, CancelAutoRenewal, BeginStop,
                  StopUsing, ResumeUsing
    <2>2. CASE World
      BY <2>2 DEF World, FundsMove, Tick, PublishPackage, TakeOver
    <2>3. ASSUME NEW r \in Run, Worker(r) PROVE Charge
      BY <2>3 DEF Worker, BeginRun, RecordNotice, RunFails, RenewSubscription,
                  AskConfirmation, AskFunds
    <2>4. QED BY <2>1, <2>2, <2>3 DEF Next
  <1>2. o = [at |-> now, due |-> sub.due, quote |-> Current,
             money |-> FromMoney, commission |-> FromCommission]
    BY <1>1 DEF Charge
  <1>3. /\ Current \in Published /\ quotes[Current] \in Terms
        /\ FromMoney + FromCommission = quotes[Current].price
        /\ FromCommission > 0 => sub.commission /\ FromMoney = money
    BY <1>1, ChargedFunds DEF Charge, Renewable, IInv
  <1>4. ~RequiresConfirmation(quotes[consent.quote], quotes[Current])
    <2>1. /\ quotes[consent.quote] \in Terms /\ quotes[sub.quote] \in Terms
          /\ ~RequiresConfirmation(quotes[consent.quote], quotes[sub.quote])
          /\ ~RequiresConfirmation(quotes[sub.quote], quotes[Current])
      BY <1>1 DEF Charge, Worse, IInv, TypeOK, Published, ConsentInv
    <2>2. QED BY <1>3, <2>1, NotWorseTransitive
  <1>5. consent.ended # "yes" /\ customer = "active" /\ sub.commission = consent.commission
    BY <1>1 DEF Charge, Renewable, IInv, ConsentInv
  <1>6. now >= sub.due
    BY <1>1 DEF Charge, Renewable
  <1>7. [quote |-> Current, due |-> sub.due] \in notices
    <2>1. sub.notice = [quote |-> Current, due |-> sub.due]
      BY <1>1 DEF Charge, Noticed
    <2>2. sub.notice \in Notice
      BY <1>3, <2>1 DEF IInv, TypeOK, Row, Notice, Published
    <2>3. sub.notice # None
      BY <2>2, RenewalsAssumption
    <2>4. QED BY <2>1, <2>3 DEF IInv, NoticeInv
  <1>8. QED BY <1>2, <1>3, <1>4, <1>5, <1>6, <1>7

-----------------------------------------------------------------------------
(* Every variable keeps its type, a consent that was ended is carried by a *)
(* cancelled row only, and the subscription is never authorized for terms  *)
(* worse than those consented to (renewal.go, lifecycle.go).               *)
THEOREM ConsentsFollowed == Spec => [](TypeOK /\ ConsentInv)
  <1>1. IInv => TypeOK /\ ConsentInv
    BY DEF IInv
  <1>2. QED BY <1>1, InitInv, StepKeeps, PTL DEF Spec

(* No two renewals pay for overlapping periods (renewal.go:264-279).       *)
THEOREM AlwaysOncePerPeriod == Spec => []OncePerPeriod
  <1>1. IInv => OncePerPeriod
    BY DEF IInv
  <1>2. QED BY <1>1, InitInv, StepKeeps, PTL DEF Spec

(* Every charge is one the customer has agreed to (renewal.go:193-263).    *)
THEOREM AlwaysChargedAsAgreed == Spec => ChargedAsAgreed
  <1> DEFINE Agreed ==
        \A o \in orders' \ orders :
          /\ consent.ended # "yes" /\ customer = "active"
          /\ ~RequiresConfirmation(quotes[consent.quote], quotes[o.quote])
          /\ o.at >= o.due /\ [quote |-> o.quote, due |-> o.due] \in notices
          /\ o.money + o.commission = quotes[o.quote].price
          /\ o.commission > 0 => consent.commission /\ o.money = money
  <1>1. IInv /\ [Next]_vars => [Agreed]_vars
    BY StepCharges
  <1>2. QED BY <1>1, InitInv, StepKeeps, PTL DEF Spec, ChargedAsAgreed

-----------------------------------------------------------------------------
(*                               COMMISSIONS                               *)

-----------------------------------------------------------------------------
(* Numbers.                                                                *)

(* A set of indices that contains 0 and with each index the next contains  *)
(* them all: otherwise there would be a first one missing.                 *)
LEMMA AllReached ==
  ASSUME NEW n \in Nat, NEW G, 0 \in G, \A i \in 1..n : i - 1 \in G => i \in G
  PROVE  \A i \in 0..n : i \in G
  <1> SUFFICES ASSUME NEW m \in 0..n, m \notin G PROVE FALSE
    OBVIOUS
  <1> DEFINE T == {0..k : k \in {x \in 0..n : x \notin G}}
  <1>1. 0..m \in T /\ IsFiniteSet(0..m)
    BY FS_Interval
  <1>2. PICK X \in T : /\ X \subseteq 0..m /\ IsFiniteSet(X)
                       /\ \A Y \in T : Y \subseteq X => Y = X
    <2> HIDE DEF T
    <2>1. 0..m \in T
      BY <1>1
    <2>2. IsFiniteSet(0..m)
      BY <1>1
    <2>3. QED BY <2>1, <2>2, SmallestSet, SMTT(40)
  <1>3. PICK k \in 0..n : k \notin G /\ X = 0..k
    OBVIOUS
  <1>4. k # 0 /\ k \in 1..n /\ k - 1 \in 0..n
    BY <1>3
  <1>5. k - 1 \notin G
    BY <1>3, <1>4
  <1>6. 0..(k - 1) \in T
    BY <1>4, <1>5
  <1>7. 0..(k - 1) \subseteq X /\ k \in X /\ k \notin 0..(k - 1)
    BY <1>3, <1>4
  <1> QED BY <1>2, <1>6, <1>7

(* A share of at most one takes no more than there is.                     *)
LEMMA PartOfWhole ==
  ASSUME NEW x \in Nat, NEW a \in Nat, NEW d \in Nat \ {0}, a <= d
  PROVE  (x * a) \div d \in 0..x
  <1>1. x * a \in Nat /\ x * a <= x * d
    OBVIOUS
  <1>2. PICK p \in Nat, q \in Nat, r \in Nat :
          p = x * a /\ q = p \div d /\ r = p % d
    <2>1. (x * a) \div d \in Nat /\ (x * a) % d \in Nat
      BY <1>1
    <2>2. QED BY <1>1, <2>1
  <1>3. p = d * q + r /\ p <= x * d
    BY <1>1, <1>2
  <1>4. q <= x
    BY <1>3
  <1> QED BY <1>2, <1>4

LEMMA TargetRises ==
  ASSUME NEW x \in Nat, NEW y \in Nat, x <= y
  PROVE  Target(x) \in Nat /\ Target(x) <= Target(y) /\ Target(0) = 0
  <1>1. RateNum \in Nat /\ RateDen \in Nat \ {0}
    BY CommissionsAssumption
  <1>2. x * RateNum \in Nat /\ y * RateNum \in Nat /\ x * RateNum <= y * RateNum
    BY <1>1
  <1>3. PICK p \in Nat, q \in Nat : p = x * RateNum /\ q = y * RateNum /\ p <= q
    BY <1>2
  <1>4. p \div RateDen \in Nat /\ p \div RateDen <= q \div RateDen
    BY <1>1, <1>3
  <1>5. (0 * RateNum) \div RateDen = 0
    BY <1>1
  <1> QED BY <1>3, <1>4, <1>5 DEF Target

LEMMA SeqIsFunction ==
  ASSUME NEW S, NEW s \in Seq(S)
  PROVE  Len(s) \in Nat /\ DOMAIN s = 1..Len(s) /\ s \in [1..Len(s) -> S]
  OBVIOUS

LEMMA Lengths ==
  /\ Len(Paid) \in Nat /\ Event = 1..Len(Paid) /\ IsFiniteSet(Event)
  /\ Len(Claim) \in Nat /\ Dispute = 1..Len(Claim) /\ IsFiniteSet(Dispute)
  /\ IsFiniteSet(Use)
  /\ Paid \in [Event -> Nat \ {0}] /\ Claim \in [Dispute -> Nat \ {0}]
  <1>1. Paid \in Seq(Nat \ {0}) /\ Claim \in Seq(1..Due) /\ IsFiniteSet(Use)
    BY CommissionsAssumption
  <1>2. Len(Paid) \in Nat /\ Event = 1..Len(Paid) /\ Paid \in [Event -> Nat \ {0}]
    BY <1>1 DEF Event
  <1>3. Len(Claim) \in Nat /\ Dispute = 1..Len(Claim)
    BY <1>1 DEF Dispute
  <1>4. \A d \in Dispute : Claim[d] \in 1..Due
    <2>1. Claim \in [1..Len(Claim) -> 1..Due]
      BY <1>1, SeqIsFunction
    <2>2. QED BY <1>3, <2>1
  <1>5. Claim \in [Dispute -> Nat \ {0}]
    <2>1. Due \in Nat
      <3>1. Due = SumFunctionOnSet(Paid, Event)
        BY DEF Due, Total
      <3>2. IsFiniteSet(Event) /\ \A e \in Event : Paid[e] \in Nat
        <4>1. IsFiniteSet(Event)
          BY <1>2, FS_Interval
        <4>2. QED BY <1>2, <4>1
      <3>3. QED BY <3>1, <3>2, SumNat
    <2>2. \A d \in Dispute : Claim[d] \in Nat \ {0}
      BY <1>4, <2>1
    <2>3. Claim = [d \in Dispute |-> Claim[d]]
      BY <1>1 DEF Dispute
    <2>4. QED BY <2>2, <2>3
  <1>6. IsFiniteSet(Event) /\ IsFiniteSet(Dispute)
    BY <1>2, <1>3, FS_Interval
  <1> QED BY <1>1, <1>2, <1>3, <1>5, <1>6

-----------------------------------------------------------------------------
(* Loops.  The provers cannot instantiate an operator, so the bodies of    *)
(* the loops of the model are told apart by a name and an argument.        *)
Step(k, b, i) ==
  CASE k.name = "flags"    -> IF k.arg \in b.source[i] THEN Block(b, i, k.arg) ELSE b
    [] k.name = "due"      -> ConfirmDue(b, i)
    [] k.name = "earned"   -> ConfirmEarned(b, i)
    [] k.name = "late"     -> ReleaseLate(b, i)
    [] k.name = "back"     -> ReverseEntry(b, i, k.arg[i])
    [] OTHER               -> Settle(b, k.arg.dispute, i, k.arg.reversed)

IsLoop(f, k, n, b) == f = [i \in 0..n |-> IF i = 0 THEN b ELSE Step(k, f[i - 1], i)]

(* Every loop ends.                                                        *)
LEMMA LoopsEnd ==
  ASSUME NEW k, NEW n \in Nat, NEW b
  PROVE  \E f : IsLoop(f, k, n, b)
  <1> DEFINE G == {m \in 0..n : \E f : IsLoop(f, k, m, b)}
  <1>1. 0 \in G
    <2> DEFINE f == [i \in 0..0 |-> b]
    <2>1. f = [i \in 0..0 |-> IF i = 0 THEN b ELSE Step(k, f[i - 1], i)]
      OBVIOUS
    <2>2. IsLoop(f, k, 0, b)
      BY <2>1 DEF IsLoop
    <2>3. QED BY <2>2
  <1>2. ASSUME NEW m \in 1..n, m - 1 \in G PROVE m \in G
    <2>1. PICK g : IsLoop(g, k, m - 1, b)
      BY <1>2
    <2> DEFINE S(i, x) == Step(k, x, i)
               f == [i \in 0..m |-> IF i = m THEN S(m, g[m - 1]) ELSE g[i]]
    <2>2. g = [i \in 0..(m - 1) |-> IF i = 0 THEN b ELSE S(i, g[i - 1])]
      BY <2>1 DEF IsLoop
    <2> HIDE DEF S
    <2>3. \A i \in 0..m : f[i] = IF i = 0 THEN b ELSE S(i, f[i - 1])
      <3>1. f[0] = b
        BY <2>2
      <3>2. ASSUME NEW i \in 1..m PROVE f[i] = S(i, f[i - 1])
        <4>1. CASE i = m
          BY <4>1
        <4>2. CASE i # m
          BY <2>2, <4>2
        <4>3. QED BY <4>1, <4>2
      <3>3. \A i \in 0..m : i = 0 \/ i \in 1..m
        OBVIOUS
      <3> HIDE DEF f
      <3>4. QED BY <3>1, <3>2, <3>3
    <2>4. f = [i \in 0..m |-> IF i = 0 THEN b ELSE S(i, f[i - 1])]
      BY <2>3
    <2>5. IsLoop(f, k, m, b)
      BY <2>4 DEF IsLoop, S
    <2>6. QED BY <2>5
  <1> HIDE DEF G
  <1>3. n \in G
    BY <1>1, <1>2, AllReached
  <1> QED BY <1>3 DEF G

LEMMA LoopValues ==
  ASSUME NEW k, NEW n \in Nat, NEW b, NEW f, IsLoop(f, k, n, b)
  PROVE  f[0] = b /\ \A i \in 1..n : f[i] = Step(k, f[i - 1], i)
  <1> DEFINE S(i, x) == Step(k, x, i)
  <1>1. f = [i \in 0..n |-> IF i = 0 THEN b ELSE S(i, f[i - 1])]
    BY DEF IsLoop
  <1> HIDE DEF S
  <1>2. f[0] = b /\ \A i \in 1..n : f[i] = S(i, f[i - 1])
    BY <1>1
  <1> QED BY <1>2 DEF S

LEMMA LoopDue ==
  ASSUME NEW n \in Nat, NEW b
  PROVE  \E f : /\ f[0] = b /\ \A i \in 1..n : f[i] = ConfirmDue(f[i - 1], i)
                /\ Through(ConfirmDue, n, b) = f[n]
  <1> DEFINE is(f) == f = [i \in 0..n |-> IF i = 0 THEN b ELSE ConfirmDue(f[i - 1], i)]
             k == [name |-> "due"]
             f == CHOOSE f : is(f)
  <1>1. PICK g : IsLoop(g, k, n, b)
    BY LoopsEnd
  <1>2. is(g)
    BY <1>1 DEF IsLoop, Step
  <1>3. is(f)
    BY <1>2
  <1>4. Through(ConfirmDue, n, b) = f[n]
    BY DEF Through
  <1> HIDE DEF f
  <1>5. f[0] = b
    BY <1>3
  <1>6. \A i \in 1..n : f[i] = ConfirmDue(f[i - 1], i)
    BY <1>3
  <1> QED BY <1>4, <1>5, <1>6

LEMMA LoopEarned ==
  ASSUME NEW n \in Nat, NEW b
  PROVE  \E f : /\ f[0] = b /\ \A i \in 1..n : f[i] = ConfirmEarned(f[i - 1], i)
                /\ Through(ConfirmEarned, n, b) = f[n]
  <1> DEFINE is(f) == f = [i \in 0..n |-> IF i = 0 THEN b ELSE ConfirmEarned(f[i - 1], i)]
             k == [name |-> "earned"]
             f == CHOOSE f : is(f)
  <1>1. PICK g : IsLoop(g, k, n, b)
    BY LoopsEnd
  <1>2. is(g)
    BY <1>1 DEF IsLoop, Step
  <1>3. is(f)
    BY <1>2
  <1>4. Through(ConfirmEarned, n, b) = f[n]
    BY DEF Through
  <1> HIDE DEF f
  <1>5. f[0] = b
    BY <1>3
  <1>6. \A i \in 1..n : f[i] = ConfirmEarned(f[i - 1], i)
    BY <1>3
  <1> QED BY <1>4, <1>5, <1>6

LEMMA LoopLate ==
  ASSUME NEW n \in Nat, NEW b
  PROVE  \E f : /\ f[0] = b /\ \A i \in 1..n : f[i] = ReleaseLate(f[i - 1], i)
                /\ Through(ReleaseLate, n, b) = f[n]
  <1> DEFINE is(f) == f = [i \in 0..n |-> IF i = 0 THEN b ELSE ReleaseLate(f[i - 1], i)]
             k == [name |-> "late"]
             f == CHOOSE f : is(f)
  <1>1. PICK g : IsLoop(g, k, n, b)
    BY LoopsEnd
  <1>2. is(g)
    BY <1>1 DEF IsLoop, Step
  <1>3. is(f)
    BY <1>2
  <1>4. Through(ReleaseLate, n, b) = f[n]
    BY DEF Through
  <1> HIDE DEF f
  <1>5. f[0] = b
    BY <1>3
  <1>6. \A i \in 1..n : f[i] = ReleaseLate(f[i - 1], i)
    BY <1>3
  <1> QED BY <1>4, <1>5, <1>6

LEMMA LoopFlags ==
  ASSUME NEW b, NEW e
  PROVE  \E f : /\ f[0] = b /\ \A i \in 1..Len(Claim) : f[i] =
                     IF e \in f[i - 1].source[i] THEN Block(f[i - 1], i, e) ELSE f[i - 1]
                /\ ApplyFlags(b, e) = f[Len(Claim)]
  <1> DEFINE is(f) == f = [i \in 0..Len(Claim) |-> IF i = 0 THEN b ELSE
                           IF e \in f[i - 1].source[i] THEN Block(f[i - 1], i, e) ELSE f[i - 1]]
             k == [name |-> "flags", arg |-> e]
             f == CHOOSE f : is(f)
  <1>1. PICK g : IsLoop(g, k, Len(Claim), b)
    BY LoopsEnd, Lengths
  <1>2. is(g)
    BY <1>1 DEF IsLoop, Step
  <1>3. is(f)
    BY <1>2
  <1>4. ApplyFlags(b, e) = f[Len(Claim)]
    BY DEF Through, ApplyFlags
  <1> HIDE DEF f
  <1>5. Len(Claim) \in Nat
    BY Lengths
  <1>6. f[0] = b
    BY <1>3, <1>5
  <1>7. \A i \in 1..Len(Claim) : f[i] = IF e \in f[i - 1].source[i] THEN Block(f[i - 1], i, e)
                                    ELSE f[i - 1]
    BY <1>3, <1>5
  <1> QED BY <1>4, <1>6, <1>7

LEMMA LoopBack ==
  ASSUME NEW b, NEW s
  PROVE  \E f : /\ f[0] = b /\ \A i \in 1..Len(Paid) : f[i] = ReverseEntry(f[i - 1], i, s[i])
                /\ TakeBack(b, s) = f[Len(Paid)]
  <1> DEFINE is(f) == f = [i \in 0..Len(Paid) |-> IF i = 0 THEN b ELSE ReverseEntry(f[i - 1], i, s[i])]
             k == [name |-> "back", arg |-> s]
             f == CHOOSE f : is(f)
  <1>1. PICK g : IsLoop(g, k, Len(Paid), b)
    BY LoopsEnd, Lengths
  <1>2. is(g)
    BY <1>1 DEF IsLoop, Step
  <1>3. is(f)
    BY <1>2
  <1>4. TakeBack(b, s) = f[Len(Paid)]
    BY DEF Through, TakeBack
  <1> HIDE DEF f
  <1>5. Len(Paid) \in Nat
    BY Lengths
  <1>6. f[0] = b
    BY <1>3, <1>5
  <1>7. \A i \in 1..Len(Paid) : f[i] = ReverseEntry(f[i - 1], i, s[i])
    BY <1>3, <1>5
  <1> QED BY <1>4, <1>6, <1>7

LEMMA LoopSettled ==
  ASSUME NEW b, NEW d, NEW r
  PROVE  \E f : /\ f[0] = b /\ \A i \in 1..Len(Paid) : f[i] = Settle(f[i - 1], d, i, r)
                /\ SettleEvents(b, d, r) = f[Len(Paid)]
  <1> DEFINE is(f) == f = [i \in 0..Len(Paid) |-> IF i = 0 THEN b ELSE Settle(f[i - 1], d, i, r)]
             k == [name |-> "settle", arg |-> [dispute |-> d, reversed |-> r]]
             f == CHOOSE f : is(f)
  <1>1. PICK g : IsLoop(g, k, Len(Paid), b)
    BY LoopsEnd, Lengths
  <1>2. is(g)
    BY <1>1 DEF IsLoop, Step
  <1>3. is(f)
    BY <1>2
  <1>4. SettleEvents(b, d, r) = f[Len(Paid)]
    BY DEF Through, SettleEvents
  <1> HIDE DEF f
  <1>5. Len(Paid) \in Nat
    BY Lengths
  <1>6. f[0] = b
    BY <1>3, <1>5
  <1>7. \A i \in 1..Len(Paid) : f[i] = Settle(f[i - 1], d, i, r)
    BY <1>3, <1>5
  <1> QED BY <1>4, <1>6, <1>7

-----------------------------------------------------------------------------
(* Sharing an amount along a queue.                                        *)
Distinct(q) == \A i, j \in DOMAIN q : q[i] = q[j] => i = j

(* It is taken from each no more than it has, and in all as much as asked  *)
(* for, or all there is.                                                   *)
LEMMA SharesAddUp ==
  ASSUME NEW q \in Seq(Event), Distinct(q), NEW limit \in [Event -> Nat], NEW a \in Nat
  PROVE  /\ Shares(q, limit, a) \in [Event -> Nat]
         /\ \A e \in Event : Shares(q, limit, a)[e] <= limit[e]
         /\ Total(Shares(q, limit, a), Event) = Least(a, Total(limit, Range(q)))
  <1> DEFINE n == Len(q)
             upto(i) == {q[j] : j \in 1..i}
             s == Shares(q, limit, a)
             L(i) == SumFunctionOnSet(limit, upto(i))
             T(i) == SumFunctionOnSet(s, upto(i))
  <1>1. n \in Nat /\ DOMAIN q = 1..n /\ q \in [1..n -> Event]
    BY SeqIsFunction
  <1>2. \A i \in 0..n : upto(i) \subseteq Event /\ IsFiniteSet(upto(i))
    <2> SUFFICES ASSUME NEW i \in 0..n PROVE upto(i) \subseteq Event /\ IsFiniteSet(upto(i))
      OBVIOUS
    <2>1. upto(i) \subseteq Event
      BY <1>1
    <2>2. QED BY <2>1, Lengths, FS_Subset
  <1>3. \A i \in 0..n : L(i) \in Nat
    BY <1>2, SumNat
  <1>4. \A i \in 1..n : s[q[i]] = Least(limit[q[i]], Positive(a - L(i - 1)))
    <2> SUFFICES ASSUME NEW i \in 1..n
                 PROVE  s[q[i]] = Least(limit[q[i]], Positive(a - L(i - 1)))
      OBVIOUS
    <2> DEFINE e == q[i]
               c == CHOOSE j \in DOMAIN q : q[j] = e
    <2>1. e \in Event /\ e \in Range(q) /\ i \in DOMAIN q
      BY <1>1 DEF Range
    <2>2. c \in DOMAIN q /\ q[c] = e
      BY <2>1
    <2>3. c = i
      BY <2>1, <2>2 DEF Distinct
    <2>4. s[e] = Least(limit[e], Positive(a - Total(limit, {q[j] : j \in 1..c - 1})))
      BY <2>1 DEF Shares
    <2>5. Total(limit, {q[j] : j \in 1..c - 1}) = L(i - 1)
      BY <2>3 DEF Total
    <2>6. QED BY <2>4, <2>5
  <1>5. \A e \in Event : s[e] \in Nat /\ s[e] <= limit[e]
                         /\ (e \notin Range(q) => s[e] = 0)
    <2> SUFFICES ASSUME NEW e \in Event
                 PROVE  s[e] \in Nat /\ s[e] <= limit[e] /\ (e \notin Range(q) => s[e] = 0)
      OBVIOUS
    <2>1. CASE e \notin Range(q)
      BY <2>1 DEF Shares
    <2>2. CASE e \in Range(q)
      <3>1. PICK i \in 1..n : q[i] = e
        BY <1>1, <2>2 DEF Range
      <3>2. i - 1 \in 0..n
        BY <1>1
      <3>4. L(i - 1) \in Nat
        BY <1>3, <3>2
      <3> HIDE DEF s, L
      <3>5. s[e] = Least(limit[e], Positive(a - L(i - 1))) /\ limit[e] \in Nat
        BY <1>4, <3>1
      <3>6. s[e] \in Nat /\ s[e] <= limit[e]
        BY <3>4, <3>5 DEF Least, Positive
      <3>7. QED BY <2>2, <3>6
    <2>3. QED BY <2>1, <2>2
  <1>6. s \in [Event -> Nat]
    <2>1. s = [e \in Event |-> s[e]]
      BY DEF Shares
    <2> HIDE DEF s
    <2>2. QED BY <1>5, <2>1
  <1> HIDE DEF s, n
  <1>7. \A i \in 0..n : T(i) = Least(a, L(i))
    <2> DEFINE G == {i \in 0..n : T(i) = Least(a, L(i))}
    <2>1. 0 \in G
      <3>1. upto(0) = {}
        OBVIOUS
      <3>2. L(0) = 0 /\ T(0) = 0
        BY <3>1, SumEmpty
      <3> HIDE DEF L, T
      <3>3. QED BY <1>1, <3>2 DEF Least
    <2>2. ASSUME NEW i \in 1..n, i - 1 \in G PROVE i \in G
      <3>1. upto(i) = upto(i - 1) \cup {q[i]} /\ i - 1 \in 0..n /\ q[i] \in Event
        BY <1>1
      <3>2. q[i] \notin upto(i - 1)
        BY <1>1 DEF Distinct
      <3>3. IsFiniteSet(upto(i - 1)) /\ upto(i - 1) \subseteq Event
        BY <1>2, <3>1
      <3>4. L(i) = limit[q[i]] + L(i - 1)
        <4>1. \A e \in upto(i - 1) \cup {q[i]} : limit[e] \in Int
          BY <3>1, <3>3
        <4> HIDE DEF upto
        <4>2. QED BY <3>1, <3>2, <3>3, <4>1, SumAdd
      <3>5. T(i) = s[q[i]] + T(i - 1)
        <4>1. \A e \in upto(i - 1) \cup {q[i]} : s[e] \in Int
          BY <3>1, <3>3, <1>6
        <4> HIDE DEF upto
        <4>2. QED BY <3>1, <3>2, <3>3, <4>1, SumAdd
      <3>6. T(i - 1) = Least(a, L(i - 1)) /\ L(i - 1) \in Nat /\ limit[q[i]] \in Nat
        BY <2>2, <3>1, <1>3
      <3>7. s[q[i]] = Least(limit[q[i]], Positive(a - L(i - 1)))
        BY <1>4
      <3> HIDE DEF L, T, upto
      <3>8. T(i) = Least(a, L(i))
        BY <3>4, <3>5, <3>6, <3>7, SMTT(30) DEF Least, Positive
      <3>9. QED BY <3>8
    <2> HIDE DEF G, L, T, upto
    <2>3. \A i \in 0..n : i \in G
      BY <1>1, <2>1, <2>2, AllReached
    <2>4. QED BY <2>3 DEF G
  <1>8. upto(n) = Range(q) /\ n \in 0..n
    BY <1>1 DEF Range
  <1>9. Total(s, Range(q)) = Least(a, Total(limit, Range(q)))
    BY <1>7, <1>8 DEF Total
  <1>10. Total(s, Range(q)) = Total(s, Event)
    <2>1. Range(q) \subseteq Event
      BY <1>2, <1>8
    <2> HIDE DEF upto
    <2>2. QED BY <2>1, <1>5, <1>6, Lengths, SumWithoutZeros DEF Total
  <1> QED BY <1>5, <1>6, <1>9, <1>10 DEF s

(* Nothing to take outside the queue: all of it counts.                    *)
LEMMA SharesReachAmount ==
  ASSUME NEW q \in Seq(Event), Distinct(q), NEW limit \in [Event -> Nat], NEW a \in Nat,
         a <= Total(limit, Event), \A e \in Event : limit[e] > 0 => e \in Range(q)
  PROVE  Total(Shares(q, limit, a), Event) = a
  <1>1. Range(q) \subseteq Event
    BY SeqIsFunction DEF Range
  <1>2. \A e \in Event \ Range(q) : limit[e] = 0
    OBVIOUS
  <1>3. Total(limit, Range(q)) = Total(limit, Event)
    BY <1>1, <1>2, Lengths, SumWithoutZeros DEF Total
  <1>4. Total(limit, Event) \in Nat
    BY Lengths, SumNat DEF Total
  <1> QED BY <1>3, <1>4, SharesAddUp DEF Least

-----------------------------------------------------------------------------
(* The invariant.                                                          *)
Lot == [amount : Nat, reserved : Nat, consumed : Nat]
Entry == [status : EntryStatus, amount : Nat, reversed : Nat]
Carry == [base : Nat, credited : Nat, reversed : Nat]
Books ==
  [event : [Event -> EventStatus], corrected : [Event -> Nat], based : [Event -> BOOLEAN],
   entry : [Event -> Entry], carry : Carry, lot : [Event -> Lot], lots : Seq(Event),
   pending : Nat, frozen : Nat, available : Nat, held : Nat, paidOut : Nat, credit : Nat,
   source : [Dispute -> SUBSET Event], block : [Dispute -> [Event -> Nat]],
   hold : [Dispute -> [Event -> Nat]]]
Uses == [Use -> [status : UseStatus, share : [Event -> Nat]]]
Cases == [Dispute -> [state : CaseState, applied : BOOLEAN,
                      num : Nat, den : Nat, credit : Nat,
                      claimed : [Event -> Nat], claim : [Event -> ClaimState]]]

(* What is reserved of a lot is held by disputes and uses; what is blocked *)
(* of it is still there; there is no lot before the release of its entry.  *)
NoLot == [amount |-> 0, reserved |-> 0, consumed |-> 0]
Awaits(b, e) == b.entry[e].status \in {"none", "frozen"}
UsedOf(u, e) == Total([x \in Use |-> u[x].share[e]], Use)
LotSound(b, u, e) ==
  /\ b.lot[e].reserved = DisputeHeld(b, e) + UsedOf(u, e)
  /\ Unreserved(b, e) >= 0
  /\ Blocked(b, e) <= b.lot[e].amount - b.lot[e].consumed
  /\ Awaits(b, e) => b.lot[e] = NoLot
  /\ b.lot[e].amount > 0 => e \in Range(b.lots)
  /\ e \in Range(b.lots) => ~Awaits(b, e)

InLots(b) == [e \in Event |-> b.lot[e].amount - b.lot[e].consumed]
ReservedIn(b) == [e \in Event |-> b.lot[e].reserved]
LotsSound(b, u) ==
  /\ Distinct(b.lots) /\ \A e \in Event : LotSound(b, u, e)
  /\ b.available = Total(InLots(b), Event)
  /\ b.held = Total(ReservedIn(b), Event)

(* What is left of an entry is frozen or released.                         *)
LeftOf(b, e) == b.entry[e].amount - b.entry[e].reversed
FrozenIn(b) == [e \in Event |-> IF Frozen(b, e) THEN LeftOf(b, e) ELSE 0]
EntriesSound(b) ==
  /\ \A e \in Event :
       /\ LeftOf(b, e) >= 0
       /\ b.entry[e].status \in {"frozen", "available"} <=> LeftOf(b, e) > 0
  /\ b.frozen = Total(FrozenIn(b), Event)

(* The promoter has, had or owes the commission that is left.              *)
LeftIn(b) == [e \in Event |-> LeftOf(b, e)]
Whole(b) == Total(LeftIn(b), Event) + b.pending = b.frozen + b.available + b.paidOut

(* It is the commission of the base, and the base is what was consumed.    *)
BaseIn(b) == [e \in Event |-> IF b.based[e] THEN Paid[e] - b.corrected[e] ELSE 0]
EarnedSound(b) ==
  /\ b.carry.credited - b.carry.reversed = Total(LeftIn(b), Event)
  /\ Total(LeftIn(b), Event) = Target(b.carry.base)
  /\ b.carry.base = Total(BaseIn(b), Event)
  /\ \A e \in Event : b.corrected[e] <= Paid[e]

(* Only an open chargeback flags, and only an applied one holds.           *)
FlagsSound(b, c) ==
  \A d \in Dispute :
    /\ c[d].state # "disputed" => /\ b.source[d] = {} /\ b.block[d] = Nothing
                                  /\ b.hold[d] = Nothing
    /\ b.source[d] # {} => c[d].den > 0
    /\ c[d].num <= c[d].den
    /\ ~c[d].applied => b.hold[d] = Nothing

Untouched(b, n) ==
  \A e \in Event : e > n => b.entry[e].status = "none" /\ ~b.based[e] /\ b.corrected[e] = 0

UsesSound(u) ==
  \A x \in Use : /\ u[x].status \in Reserving => Total(u[x].share, Event) = Amount[x]
                 /\ u[x].status \notin Reserving => u[x].share = Nothing

(* Only what was observed is claimed.                                      *)
ClaimsSound(c, n) == \A d \in Dispute, e \in Event : c[d].claim[e] # "none" => e <= n

(* The books beside the carry, which a correction moves last.              *)
BooksSound(b, u, c) ==
  /\ b \in Books /\ LotsSound(b, u) /\ EntriesSound(b) /\ Whole(b) /\ FlagsSound(b, c)

Others ==
  /\ accrued \in 0..Len(Paid) /\ ripe \in 0..accrued /\ blocked \in BOOLEAN
  /\ use \in Uses /\ case \in Cases /\ fixed \subseteq DOMAIN Fix

CommissionsInv ==
  /\ Others /\ BooksSound(books, use, case) /\ EarnedSound(books)
  /\ Untouched(books, accrued) /\ UsesSound(use) /\ ClaimsSound(case, accrued)

(* The fields of the books.                                                *)
LEMMA Fields ==
  ASSUME NEW b \in Books
  PROVE  /\ b.event \in [Event -> EventStatus] /\ b.corrected \in [Event -> Nat]
         /\ b.based \in [Event -> BOOLEAN] /\ b.entry \in [Event -> Entry]
         /\ b.carry \in Carry /\ b.lot \in [Event -> Lot] /\ b.lots \in Seq(Event)
         /\ b.pending \in Nat /\ b.frozen \in Nat /\ b.available \in Nat /\ b.held \in Nat
         /\ b.paidOut \in Nat /\ b.credit \in Nat
         /\ b.source \in [Dispute -> SUBSET Event]
         /\ b.block \in [Dispute -> [Event -> Nat]] /\ b.hold \in [Dispute -> [Event -> Nat]]
  BY DEF Books

LEMMA LotFields ==
  ASSUME NEW b \in Books, NEW e \in Event
  PROVE  /\ b.lot[e] \in Lot /\ b.lot[e].amount \in Nat /\ b.lot[e].reserved \in Nat
         /\ b.lot[e].consumed \in Nat
         /\ b.entry[e] \in Entry /\ b.entry[e].status \in EntryStatus
         /\ b.entry[e].amount \in Nat /\ b.entry[e].reversed \in Nat
         /\ b.carry.base \in Nat /\ b.carry.credited \in Nat /\ b.carry.reversed \in Nat
  BY Fields DEF Lot, Entry, Carry

LEMMA Blocks ==
  ASSUME NEW b \in Books, NEW e \in Event
  PROVE  Blocked(b, e) \in Nat /\ DisputeHeld(b, e) \in Nat
  <1>1. /\ \A d \in Dispute : [x \in Dispute |-> b.block[x][e]][d] \in Nat
        /\ \A d \in Dispute : [x \in Dispute |-> b.hold[x][e]][d] \in Nat
    BY Fields
  <1> QED BY <1>1, Lengths, SumNat DEF Blocked, DisputeHeld, Total

LEMMA UsedIsNat ==
  ASSUME NEW u \in Uses, NEW e \in Event
  PROVE  UsedOf(u, e) \in Nat
  <1>1. \A x \in Use : [y \in Use |-> u[y].share[e]][x] \in Nat
    BY DEF Uses
  <1> QED BY <1>1, Lengths, SumNat DEF UsedOf, Total

(* What may be spent of a lot leaves what is blocked of it.                *)
LEMMA SpendableLeaves ==
  ASSUME NEW b \in Books, NEW u \in Uses, NEW e \in Event, LotSound(b, u, e)
  PROVE  /\ Unreserved(b, e) \in Nat
         /\ Spendable(b)[e] \in Nat /\ Spendable(b)[e] <= Unreserved(b, e)
         /\ Blocked(b, e) <= b.lot[e].amount - b.lot[e].consumed - Spendable(b)[e]
         /\ Spendable(b)[e] > 0 => e \in Range(b.lots)
  <1>1. /\ Blocked(b, e) \in Nat /\ DisputeHeld(b, e) \in Nat /\ UsedOf(u, e) \in Nat
        /\ b.lot[e].amount \in Nat /\ b.lot[e].reserved \in Nat /\ b.lot[e].consumed \in Nat
    BY Blocks, UsedIsNat, LotFields
  <1>2. Spendable(b)[e]
          = Positive(Unreserved(b, e) - Positive(Blocked(b, e) - DisputeHeld(b, e)))
    BY DEF Spendable
  <1>3. Unreserved(b, e) = b.lot[e].amount - b.lot[e].reserved - b.lot[e].consumed
    BY DEF Unreserved
  <1>4. /\ b.lot[e].reserved = DisputeHeld(b, e) + UsedOf(u, e)
        /\ Unreserved(b, e) >= 0
        /\ Blocked(b, e) <= b.lot[e].amount - b.lot[e].consumed
        /\ b.lot[e].amount > 0 => e \in Range(b.lots)
    BY DEF LotSound
  <1> QED BY <1>1, <1>2, <1>3, <1>4 DEF Positive

LEMMA SpendableFits ==
  ASSUME NEW b \in Books, NEW u \in Uses, LotsSound(b, u)
  PROVE  /\ Spendable(b) \in [Event -> Nat] /\ Total(Spendable(b), Event) \in Nat
         /\ b.lots \in Seq(Event) /\ Distinct(b.lots)
         /\ \A e \in Event : Spendable(b)[e] > 0 => e \in Range(b.lots)
  <1>1. \A e \in Event : Spendable(b)[e] \in Nat
                         /\ (Spendable(b)[e] > 0 => e \in Range(b.lots))
    BY SpendableLeaves DEF LotsSound
  <1>2. Spendable(b) = [e \in Event |-> Spendable(b)[e]]
    BY DEF Spendable
  <1>3. Spendable(b) \in [Event -> Nat]
    BY <1>1, <1>2
  <1>4. Total(Spendable(b), Event) \in Nat
    BY <1>3, Lengths, SumNat DEF Total
  <1> QED BY <1>1, <1>3, <1>4, Fields DEF LotsSound

(* A recovery.                                                             *)
LEMMA RecoverEffect ==
  ASSUME NEW b \in Books, NEW s \in [Event -> Nat],
         Total(s, Event) \in Nat, Total(s, Event) <= b.available
  PROVE  LET r == Recover(b, s) IN
         /\ r \in Books
         /\ r.available = b.available - Total(s, Event)
         /\ \A e \in Event : /\ r.lot[e].amount = b.lot[e].amount
                             /\ r.lot[e].reserved = b.lot[e].reserved
                             /\ r.lot[e].consumed = b.lot[e].consumed + s[e]
         /\ r.event = b.event /\ r.corrected = b.corrected /\ r.based = b.based
         /\ r.entry = b.entry /\ r.carry = b.carry /\ r.lots = b.lots
         /\ r.pending = b.pending /\ r.frozen = b.frozen /\ r.held = b.held
         /\ r.paidOut = b.paidOut /\ r.credit = b.credit
         /\ r.source = b.source /\ r.block = b.block /\ r.hold = b.hold
  <1> DEFINE L == [e \in Event |-> [b.lot[e] EXCEPT !.consumed = b.lot[e].consumed + s[e]]]
             A == b.available - Total(s, Event)
             r == [b EXCEPT !.lot = L, !.available = A]
  <1>1. b.lot \in [Event -> Lot] /\ b.available \in Nat
    BY Fields
  <1>2. /\ L \in [Event -> Lot]
        /\ \A e \in Event : /\ L[e].amount = b.lot[e].amount
                            /\ L[e].reserved = b.lot[e].reserved
                            /\ L[e].consumed = b.lot[e].consumed + s[e]
    BY <1>1 DEF Lot
  <1>3. A \in Nat
    BY <1>1
  <1>4. Recover(b, s) = r
    BY DEF Recover
  <1> HIDE DEF L, A
  <1>5. r \in Books
    BY <1>2, <1>3 DEF Books
  <1>6. /\ r.available = A /\ r.lot = L
        /\ r.event = b.event /\ r.corrected = b.corrected /\ r.based = b.based
        /\ r.entry = b.entry /\ r.carry = b.carry /\ r.lots = b.lots
        /\ r.pending = b.pending /\ r.frozen = b.frozen /\ r.held = b.held
        /\ r.paidOut = b.paidOut /\ r.credit = b.credit
        /\ r.source = b.source /\ r.block = b.block /\ r.hold = b.hold
    BY DEF Books
  <1> HIDE DEF r
  <1> QED BY <1>2, <1>4, <1>5, <1>6 DEF A

(* What is in the lots, and what of it is reserved, follow the shares.     *)
LEMMA InLotsMove ==
  ASSUME NEW b \in Books, NEW r \in Books, NEW s \in [Event -> Nat],
         \A e \in Event : r.lot[e].amount = b.lot[e].amount
                          /\ r.lot[e].consumed = b.lot[e].consumed + s[e]
  PROVE  Total(InLots(b), Event) = Total(InLots(r), Event) + Total(s, Event)
  <1>1. \A e \in Event : /\ InLots(r)[e] \in Int /\ s[e] \in Int
                         /\ InLots(b)[e] = InLots(r)[e] + s[e]
    <2> TAKE e \in Event
    <2>1. /\ b.lot[e].amount \in Nat /\ b.lot[e].consumed \in Nat
          /\ r.lot[e].amount \in Nat /\ r.lot[e].consumed \in Nat
      BY LotFields
    <2>2. /\ InLots(b)[e] = b.lot[e].amount - b.lot[e].consumed
          /\ InLots(r)[e] = r.lot[e].amount - r.lot[e].consumed
      BY DEF InLots
    <2>3. QED BY <2>1, <2>2
  <1> QED BY <1>1, Lengths, SumPlus DEF Total

LEMMA InLotsStay ==
  ASSUME NEW b \in Books, NEW r \in Books,
         \A e \in Event : r.lot[e].amount = b.lot[e].amount
                          /\ r.lot[e].consumed = b.lot[e].consumed
  PROVE  Total(InLots(r), Event) = Total(InLots(b), Event)
  <1>1. InLots(r) = InLots(b)
    BY DEF InLots
  <1> QED BY <1>1

LEMMA ReservedMove ==
  ASSUME NEW b \in Books, NEW r \in Books, NEW s \in [Event -> Nat],
         \A e \in Event : r.lot[e].reserved = b.lot[e].reserved + s[e]
  PROVE  Total(ReservedIn(r), Event) = Total(ReservedIn(b), Event) + Total(s, Event)
  <1>1. \A e \in Event : /\ ReservedIn(b)[e] \in Int /\ s[e] \in Int
                         /\ ReservedIn(r)[e] = ReservedIn(b)[e] + s[e]
    BY LotFields DEF ReservedIn
  <1> QED BY <1>1, Lengths, SumPlus DEF Total

LEMMA ReservedStay ==
  ASSUME NEW b \in Books, NEW r \in Books,
         \A e \in Event : r.lot[e].reserved = b.lot[e].reserved
  PROVE  Total(ReservedIn(r), Event) = Total(ReservedIn(b), Event)
  <1>1. ReservedIn(r) = ReservedIn(b)
    BY DEF ReservedIn
  <1> QED BY <1>1

LEMMA SharesAreNat ==
  ASSUME NEW s \in [Event -> Nat]
  PROVE  Total(s, Event) \in Nat
  BY Lengths, SumNat DEF Total

(* What is in a lot is never negative.                                     *)
LEMMA InLotsNat ==
  ASSUME NEW b \in Books, NEW u \in Uses, LotsSound(b, u)
  PROVE  \A e \in Event : InLots(b)[e] \in Nat
  <1> TAKE e \in Event
  <1>1. /\ b.lot[e].amount \in Nat /\ b.lot[e].reserved \in Nat /\ b.lot[e].consumed \in Nat
        /\ Unreserved(b, e) \in Nat
    BY LotFields, SpendableLeaves DEF LotsSound
  <1> QED BY <1>1 DEF InLots, Unreserved

(* A recovery that leaves what is reserved and what is blocked.            *)
LEMMA RecoverLots ==
  ASSUME NEW b \in Books, NEW u \in Uses, LotsSound(b, u), NEW s \in [Event -> Nat],
         \A e \in Event : /\ s[e] <= Unreserved(b, e)
                          /\ Blocked(b, e) <= b.lot[e].amount - b.lot[e].consumed - s[e]
  PROVE  Total(s, Event) \in Nat /\ Total(s, Event) <= b.available
         /\ LotsSound(Recover(b, s), u)
  <1> DEFINE r == Recover(b, s)
  <1>1. Total(s, Event) \in Nat
    BY SharesAreNat
  <1>2. \A e \in Event : /\ b.lot[e].amount \in Nat /\ b.lot[e].reserved \in Nat
                         /\ b.lot[e].consumed \in Nat /\ Unreserved(b, e) \in Nat
                         /\ InLots(b)[e] \in Nat
                         /\ InLots(b)[e] = b.lot[e].amount - b.lot[e].consumed
                         /\ Unreserved(b, e)
                              = b.lot[e].amount - b.lot[e].reserved - b.lot[e].consumed
    <2>1. \A e \in Event : Unreserved(b, e) \in Nat
      BY SpendableLeaves DEF LotsSound
    <2>2. QED BY <2>1, LotFields, InLotsNat DEF InLots, Unreserved
  <1>3. Total(s, Event) <= b.available
    <2>1. \A e \in Event : s[e] \in Int /\ InLots(b)[e] \in Int /\ s[e] <= InLots(b)[e]
      BY <1>2
    <2>2. QED BY <2>1, Lengths, SumMonotonic DEF Total, LotsSound
  <1>4. /\ r \in Books /\ r.available = b.available - Total(s, Event)
        /\ \A e \in Event : /\ r.lot[e].amount = b.lot[e].amount
                            /\ r.lot[e].reserved = b.lot[e].reserved
                            /\ r.lot[e].consumed = b.lot[e].consumed + s[e]
        /\ r.entry = b.entry /\ r.lots = b.lots /\ r.held = b.held
        /\ r.block = b.block /\ r.hold = b.hold
    BY <1>1, <1>3, RecoverEffect
  <1> HIDE DEF r
  <1>5. \A e \in Event : LotSound(r, u, e)
    <2> TAKE e \in Event
    <2>1. /\ Blocked(r, e) = Blocked(b, e) /\ DisputeHeld(r, e) = DisputeHeld(b, e)
          /\ Awaits(r, e) = Awaits(b, e)
      BY <1>4 DEF Blocked, DisputeHeld, Awaits
    <2>2. LotSound(b, u, e)
      BY DEF LotsSound
    <2>3. Awaits(r, e) => r.lot[e] = NoLot
      <3>1. ASSUME Awaits(r, e) PROVE r.lot[e] = NoLot
        <4>1. b.lot[e] = NoLot
          BY <2>1, <2>2, <3>1 DEF LotSound
        <4>2. s[e] = 0
          BY <1>2, <4>1 DEF NoLot
        <4>3. r.lot[e] \in Lot
          BY <1>4, LotFields
        <4>4. r.lot[e].amount = 0 /\ r.lot[e].reserved = 0 /\ r.lot[e].consumed = 0
          BY <1>4, <4>1, <4>2 DEF NoLot
        <4>5. QED BY <4>3, <4>4 DEF Lot, NoLot
      <3>2. QED BY <3>1
    <2>4. /\ r.lot[e].reserved = DisputeHeld(r, e) + UsedOf(u, e)
          /\ r.lot[e].amount > 0 => e \in Range(r.lots)
          /\ e \in Range(r.lots) => ~Awaits(r, e)
      BY <1>4, <2>1, <2>2 DEF LotSound
    <2>5. Unreserved(r, e) >= 0 /\ Blocked(r, e) <= r.lot[e].amount - r.lot[e].consumed
      <3>1. Unreserved(r, e) = r.lot[e].amount - r.lot[e].reserved - r.lot[e].consumed
        BY DEF Unreserved
      <3>2. Blocked(b, e) \in Nat
        BY Blocks
      <3>3. QED BY <1>2, <1>4, <2>1, <3>1, <3>2
    <2>6. QED BY <2>3, <2>4, <2>5 DEF LotSound
  <1>6. r.available = Total(InLots(r), Event)
    <2>1. Total(InLots(b), Event) = Total(InLots(r), Event) + Total(s, Event)
      BY <1>4, InLotsMove
    <2>2. b.available = Total(InLots(b), Event) /\ b.available \in Nat
      BY Fields DEF LotsSound
    <2>3. Total(InLots(r), Event) \in Int
      <3>1. \A e \in Event : InLots(r)[e] \in Int
        BY <1>4, LotFields DEF InLots
      <3>2. QED BY <3>1, Lengths, SumInt DEF Total
    <2>4. QED BY <1>1, <1>4, <2>1, <2>2, <2>3
  <1>7. r.held = Total(ReservedIn(r), Event)
    <2>1. Total(ReservedIn(r), Event) = Total(ReservedIn(b), Event)
      BY <1>4, ReservedStay
    <2>2. QED BY <1>4, <2>1 DEF LotsSound
  <1>8. Distinct(r.lots)
    BY <1>4 DEF LotsSound
  <1>9. LotsSound(r, u)
    BY <1>5, <1>6, <1>7, <1>8 DEF LotsSound
  <1> QED BY <1>1, <1>3, <1>9 DEF r

(* The queue is recovered from as far as the lots may spend.               *)
LEMMA SpendIsRecoverable ==
  ASSUME NEW b \in Books, NEW u \in Uses, LotsSound(b, u), NEW s \in [Event -> Nat],
         \A e \in Event : s[e] <= Spendable(b)[e]
  PROVE  \A e \in Event : /\ s[e] <= Unreserved(b, e)
                          /\ Blocked(b, e) <= b.lot[e].amount - b.lot[e].consumed - s[e]
  <1> TAKE e \in Event
  <1>1. LotSound(b, u, e)
    BY DEF LotsSound
  <1>2. /\ Unreserved(b, e) \in Nat /\ Spendable(b)[e] \in Nat
        /\ Spendable(b)[e] <= Unreserved(b, e)
        /\ Blocked(b, e) <= b.lot[e].amount - b.lot[e].consumed - Spendable(b)[e]
    BY <1>1, SpendableLeaves
  <1>3. b.lot[e].amount \in Nat /\ b.lot[e].consumed \in Nat /\ Blocked(b, e) \in Nat
    BY LotFields, Blocks
  <1> QED BY <1>2, <1>3

-----------------------------------------------------------------------------
(* Advancing a promoter or a customer.                                     *)

LEMMA LotsSame ==
  ASSUME NEW b, NEW r, NEW u, LotsSound(b, u),
         r.lot = b.lot, r.lots = b.lots, r.available = b.available, r.held = b.held,
         r.block = b.block, r.hold = b.hold,
         \A e \in Event : Awaits(r, e) => Awaits(b, e)
  PROVE  LotsSound(r, u)
  <1>1. \A e \in Event : LotSound(r, u, e)
    BY DEF LotsSound, LotSound, DisputeHeld, Blocked, Unreserved
  <1>2. InLots(r) = InLots(b) /\ ReservedIn(r) = ReservedIn(b)
    BY DEF InLots, ReservedIn
  <1> QED BY <1>1, <1>2 DEF LotsSound

LEMMA EntriesSame ==
  ASSUME NEW b, NEW r, EntriesSound(b), r.entry = b.entry, r.frozen = b.frozen
  PROVE  EntriesSound(r)
  <1>1. \A e \in Event : LeftOf(r, e) = LeftOf(b, e)
    BY DEF LeftOf
  <1>2. FrozenIn(r) = FrozenIn(b)
    BY <1>1 DEF FrozenIn, Frozen
  <1> QED BY <1>1, <1>2 DEF EntriesSound

LEMMA LeftSame ==
  ASSUME NEW b, NEW r, \A e \in Event : LeftOf(r, e) = LeftOf(b, e)
  PROVE  LeftIn(r) = LeftIn(b)
  BY DEF LeftIn

(* The whole of the lots, the reserved part included.                      *)
LEMMA AvailableIsNat ==
  ASSUME NEW b \in Books, NEW u \in Uses, LotsSound(b, u)
  PROVE  Available(b) \in Nat
  <1>1. \A e \in Event : /\ ReservedIn(b)[e] \in Int /\ InLots(b)[e] \in Int
                         /\ ReservedIn(b)[e] <= InLots(b)[e]
    <2> TAKE e \in Event
    <2>1. /\ b.lot[e].amount \in Nat /\ b.lot[e].reserved \in Nat
          /\ b.lot[e].consumed \in Nat /\ Unreserved(b, e) \in Nat
      BY LotFields, SpendableLeaves DEF LotsSound
    <2>2. QED BY <2>1 DEF ReservedIn, InLots, Unreserved
  <1>2. Total(ReservedIn(b), Event) <= Total(InLots(b), Event)
    BY <1>1, Lengths, SumMonotonic DEF Total
  <1>3. b.available \in Nat /\ b.held \in Nat
    BY Fields
  <1> QED BY <1>2, <1>3 DEF LotsSound, Available

(* What an advance leaves as it was.                                       *)
Advanced(b, r) ==
  /\ r.corrected = b.corrected /\ r.based = b.based /\ r.carry = b.carry
  /\ r.source = b.source /\ r.hold = b.hold /\ r.paidOut = b.paidOut /\ r.credit = b.credit
  /\ \A e \in Event : /\ LeftOf(r, e) = LeftOf(b, e)
                      /\ r.entry[e].status = "none" <=> b.entry[e].status = "none"
  /\ \A d \in Dispute : b.source[d] = {} => r.block[d] = b.block[d]

LEMMA AdvancedTwice ==
  ASSUME NEW a, NEW b, NEW r, Advanced(a, b), Advanced(b, r)
  PROVE  Advanced(a, r)
  BY DEF Advanced

LEMMA FlagsSame ==
  ASSUME NEW b, NEW r, NEW c, FlagsSound(b, c), Advanced(b, r)
  PROVE  FlagsSound(r, c)
  BY DEF FlagsSound, Advanced

LEMMA EarnedSame ==
  ASSUME NEW b, NEW r, EarnedSound(b), Advanced(b, r)
  PROVE  EarnedSound(r)
  <1>1. LeftIn(r) = LeftIn(b)
    BY LeftSame DEF Advanced
  <1>2. BaseIn(r) = BaseIn(b)
    BY DEF BaseIn, Advanced
  <1> QED BY <1>1, <1>2 DEF EarnedSound, Advanced

LEMMA UntouchedSame ==
  ASSUME NEW b, NEW r, NEW n, Untouched(b, n), Advanced(b, r)
  PROVE  Untouched(r, n)
  BY DEF Untouched, Advanced

(* Offsets are settled from what the lots may spend.                       *)
LEMMA SettleOffsetsKeeps ==
  ASSUME NEW b, NEW u \in Uses, NEW c, BooksSound(b, u, c)
  PROVE  BooksSound(SettleOffsets(b), u, c) /\ Advanced(b, SettleOffsets(b))
  <1> DEFINE limit == Spendable(b)
             a == Least(Least(Available(b), b.pending), Total(limit, Event))
             s == Shares(b.lots, limit, a)
             q == Recover(b, s)
             r == [q EXCEPT !.pending = q.pending - a]
  <1>1. /\ b \in Books /\ LotsSound(b, u) /\ EntriesSound(b) /\ Whole(b) /\ FlagsSound(b, c)
        /\ b.pending \in Nat /\ b.available \in Nat
    BY Fields DEF BooksSound
  <1>2. SettleOffsets(b) = r
    BY DEF SettleOffsets
  <1>3. /\ limit \in [Event -> Nat] /\ Total(limit, Event) \in Nat
        /\ b.lots \in Seq(Event) /\ Distinct(b.lots)
        /\ \A e \in Event : limit[e] > 0 => e \in Range(b.lots)
    BY <1>1, SpendableFits
  <1>4. a \in Nat /\ a <= b.pending /\ a <= Total(limit, Event)
    <2>1. Available(b) \in Nat
      BY <1>1, AvailableIsNat
    <2> HIDE DEF limit
    <2>2. QED BY <1>1, <1>3, <2>1 DEF Least
  <1> HIDE DEF limit, a
  <1>5. s \in [Event -> Nat] /\ (\A e \in Event : s[e] <= limit[e])
    BY <1>3, <1>4, SharesAddUp
  <1>6. Total(s, Event) = a
    BY <1>3, <1>4, SharesReachAmount
  <1> HIDE DEF s
  <1>7. Total(s, Event) <= b.available /\ LotsSound(q, u)
    <2>1. \A e \in Event : /\ s[e] <= Unreserved(b, e)
                           /\ Blocked(b, e) <= b.lot[e].amount - b.lot[e].consumed - s[e]
      BY <1>1, <1>5, SpendIsRecoverable DEF limit
    <2>2. QED BY <1>1, <1>5, <2>1, RecoverLots
  <1>8. /\ q \in Books /\ q.available = b.available - a
        /\ q.event = b.event /\ q.corrected = b.corrected /\ q.based = b.based
        /\ q.entry = b.entry /\ q.carry = b.carry
        /\ q.pending = b.pending /\ q.frozen = b.frozen
        /\ q.paidOut = b.paidOut /\ q.credit = b.credit
        /\ q.source = b.source /\ q.block = b.block /\ q.hold = b.hold
    BY <1>1, <1>4, <1>5, <1>6, <1>7, RecoverEffect
  <1> HIDE DEF q
  <1>9. /\ r \in Books
        /\ r.lot = q.lot /\ r.lots = q.lots /\ r.available = q.available /\ r.held = q.held
        /\ r.block = q.block /\ r.hold = q.hold /\ r.entry = q.entry /\ r.frozen = q.frozen
        /\ r.pending = b.pending - a /\ r.paidOut = q.paidOut
        /\ r.corrected = q.corrected /\ r.based = q.based /\ r.carry = q.carry
        /\ r.source = q.source /\ r.credit = q.credit
    <2>1. q.pending - a \in Nat
      BY <1>1, <1>4, <1>8
    <2>2. QED BY <1>8, <2>1 DEF Books
  <1> HIDE DEF r
  <1>10. LotsSound(r, u)
    BY <1>7, <1>9, LotsSame DEF Awaits
  <1>11. EntriesSound(r)
    BY <1>1, <1>8, <1>9, EntriesSame
  <1>12. Advanced(b, r)
    BY <1>8, <1>9 DEF Advanced, LeftOf
  <1>13. Whole(r)
    <2>1. LeftIn(r) = LeftIn(b)
      BY <1>12, LeftSame DEF Advanced
    <2>2. Total(LeftIn(b), Event) + b.pending = b.frozen + b.available + b.paidOut
      BY <1>1 DEF Whole
    <2>3. /\ b.frozen \in Nat /\ b.paidOut \in Nat /\ Total(LeftIn(b), Event) \in Int
      <3>1. \A e \in Event : LeftIn(b)[e] \in Int
        BY <1>1, LotFields DEF LeftIn, LeftOf
      <3>2. Total(LeftIn(b), Event) \in Int
        BY <3>1, Lengths, SumInt DEF Total
      <3>3. QED BY <1>1, <3>2, Fields
    <2>4. QED BY <1>1, <1>4, <1>8, <1>9, <2>1, <2>2, <2>3 DEF Whole
  <1>14. FlagsSound(r, c)
    BY <1>1, <1>12, FlagsSame
  <1>15. BooksSound(r, u, c)
    BY <1>9, <1>10, <1>11, <1>13, <1>14 DEF BooksSound
  <1> QED BY <1>2, <1>12, <1>15

(* The flags on a lot block of it no more than there is.                   *)
OnlyBlocks(b, r) ==
  /\ r.event = b.event /\ r.corrected = b.corrected /\ r.based = b.based
  /\ r.entry = b.entry /\ r.carry = b.carry /\ r.lot = b.lot /\ r.lots = b.lots
  /\ r.pending = b.pending /\ r.frozen = b.frozen /\ r.available = b.available
  /\ r.held = b.held /\ r.paidOut = b.paidOut /\ r.credit = b.credit
  /\ r.source = b.source /\ r.hold = b.hold

LEMMA BlockEffect ==
  ASSUME NEW b \in Books, NEW d \in Dispute, NEW e \in Event, case \in Cases,
         case[d].den > 0, case[d].num <= case[d].den,
         b.block[d][e] = 0, Blocked(b, e) <= b.lot[e].amount - b.lot[e].consumed
  PROVE  LET r == Block(b, d, e) IN
         /\ r \in Books /\ OnlyBlocks(b, r)
         /\ \A x \in Dispute : x # d => r.block[x] = b.block[x]
         /\ \A y \in Event : y # e => r.block[d][y] = b.block[d][y]
         /\ Blocked(r, e) <= r.lot[e].amount - r.lot[e].consumed
  <1> DEFINE room == b.lot[e].amount - b.lot[e].consumed - Blocked(b, e)
             v == (Positive(room) * case[d].num) \div case[d].den
             B == [b.block EXCEPT ![d][e] = v]
             r == [b EXCEPT !.block = B]
  <1>1. /\ b.lot[e].amount \in Nat /\ b.lot[e].consumed \in Nat /\ Blocked(b, e) \in Nat
        /\ b.block \in [Dispute -> [Event -> Nat]]
    BY Fields, LotFields, Blocks
  <1>2. room \in Nat /\ Positive(room) = room
    <2>1. room \in Nat
      <3>1. Blocked(b, e) <= b.lot[e].amount - b.lot[e].consumed
        OBVIOUS
      <3>2. PICK x \in Nat, y \in Nat, z \in Nat :
              x = b.lot[e].amount /\ y = b.lot[e].consumed /\ z = Blocked(b, e)
        BY <1>1
      <3>3. room = x - y - z /\ z <= x - y
        BY <3>1, <3>2
      <3> HIDE DEF room
      <3>4. QED BY <3>2, <3>3
    <2> HIDE DEF room
    <2>2. QED BY <2>1 DEF Positive
  <1>3. v \in 0..room
    <2>1. case[d].num \in Nat /\ case[d].den \in Nat \ {0}
      BY DEF Cases
    <2> HIDE DEF room
    <2>2. QED BY <1>2, <2>1, PartOfWhole
  <1>4. Block(b, d, e) = r
    <2>1. Block(b, d, e) = [b EXCEPT !.block[d][e] = v]
      BY DEF Block
    <2>2. [b EXCEPT !.block[d][e] = v] = r
      <3> HIDE DEF v
      <3>1. QED BY <1>1
    <2>3. QED BY <2>1, <2>2
  <1> HIDE DEF v, room
  <1>5. /\ B \in [Dispute -> [Event -> Nat]] /\ B[d][e] = v
        /\ \A x \in Dispute : x # d => B[x] = b.block[x]
        /\ \A y \in Event : y # e => B[d][y] = b.block[d][y]
    BY <1>1, <1>2, <1>3
  <1> HIDE DEF B
  <1>6. r \in Books /\ OnlyBlocks(b, r) /\ r.block = B
    BY <1>5 DEF Books, OnlyBlocks
  <1> HIDE DEF r
  <1>7. Blocked(r, e) = Blocked(b, e) + v
    <2> DEFINE f == [x \in Dispute |-> b.block[x][e]]
               g == [x \in Dispute |-> r.block[x][e]]
    <2>1. \A x \in Dispute : f[x] \in Int /\ g[x] \in Int
      BY <1>1, <1>5, <1>6
    <2>2. \A x \in Dispute \ {d} : f[x] = g[x]
      BY <1>5, <1>6
    <2>3. f[d] = 0 /\ g[d] = v
      BY <1>5, <1>6
    <2>4. SumFunctionOnSet(g, Dispute) = SumFunctionOnSet(f, Dispute) + g[d] - f[d]
      <3>1. IsFiniteSet(Dispute) /\ d \in Dispute
        BY Lengths
      <3> HIDE DEF f, g
      <3>2. QED BY <2>1, <2>2, <3>1, SumChange
    <2>5. Blocked(b, e) = SumFunctionOnSet(f, Dispute)
          /\ Blocked(r, e) = SumFunctionOnSet(g, Dispute)
      BY DEF Blocked, Total
    <2> HIDE DEF f, g
    <2>6. QED BY <1>1, <1>2, <1>3, <2>3, <2>4, <2>5
  <1>8. Blocked(r, e) <= r.lot[e].amount - r.lot[e].consumed
    <2>1. r.lot = b.lot
      BY <1>6 DEF OnlyBlocks
    <2>2. QED BY <1>1, <1>2, <1>3, <1>7, <2>1 DEF room
  <1> QED BY <1>4, <1>5, <1>6, <1>8

LEMMA FlagsApplied ==
  ASSUME NEW b \in Books, NEW e \in Event, case \in Cases,
         \A d \in Dispute : b.source[d] # {} => case[d].den > 0 /\ case[d].num <= case[d].den,
         \A d \in Dispute : b.block[d][e] = 0,
         Blocked(b, e) <= b.lot[e].amount - b.lot[e].consumed
  PROVE  LET r == ApplyFlags(b, e) IN
         /\ r \in Books /\ OnlyBlocks(b, r)
         /\ \A d \in Dispute : b.source[d] = {} => r.block[d] = b.block[d]
         /\ \A d \in Dispute, y \in Event : y # e => r.block[d][y] = b.block[d][y]
         /\ Blocked(r, e) <= r.lot[e].amount - r.lot[e].consumed
  <1>1. PICK f : /\ f[0] = b
                 /\ \A i \in 1..Len(Claim) : f[i] =
                      IF e \in f[i - 1].source[i] THEN Block(f[i - 1], i, e) ELSE f[i - 1]
                 /\ ApplyFlags(b, e) = f[Len(Claim)]
    BY LoopFlags
  <1> DEFINE good(i) ==
               /\ f[i] \in Books /\ OnlyBlocks(b, f[i])
               /\ \A d \in Dispute : b.source[d] = {} => f[i].block[d] = b.block[d]
               /\ \A d \in Dispute, y \in Event : y # e => f[i].block[d][y] = b.block[d][y]
               /\ \A d \in Dispute : d > i => f[i].block[d][e] = 0
               /\ Blocked(f[i], e) <= f[i].lot[e].amount - f[i].lot[e].consumed
             G == {i \in 0..Len(Claim) : good(i)}
  <1>2. 0 \in G
    BY <1>1, Lengths DEF OnlyBlocks
  <1>3. ASSUME NEW i \in 1..Len(Claim), i - 1 \in G PROVE i \in G
    <2> DEFINE a == f[i - 1]
               r == f[i]
    <2>1. good(i - 1) /\ i \in Dispute /\ i - 1 \in 0..Len(Claim) /\ i \in 0..Len(Claim)
      BY <1>3, Lengths
    <2>2. CASE e \notin a.source[i]
      <3>1. r = a
        BY <1>1, <2>2
      <3>2. good(i)
        BY <2>1, <3>1, Lengths
      <3>3. QED BY <2>1, <3>2
    <2>3. CASE e \in a.source[i]
      <3>1. r = Block(a, i, e)
        BY <1>1, <2>3
      <3>2. a.source = b.source /\ b.source[i] # {} /\ i > i - 1
        BY <2>1, <2>3 DEF OnlyBlocks
      <3>3. case[i].den > 0 /\ case[i].num <= case[i].den /\ a.block[i][e] = 0
        BY <2>1, <3>2
      <3> HIDE DEF a
      <3>4. /\ r \in Books /\ OnlyBlocks(a, r)
            /\ \A x \in Dispute : x # i => r.block[x] = a.block[x]
            /\ \A y \in Event : y # e => r.block[i][y] = a.block[i][y]
            /\ Blocked(r, e) <= r.lot[e].amount - r.lot[e].consumed
        BY <2>1, <3>1, <3>3, BlockEffect DEF a
      <3>5. OnlyBlocks(b, r)
        BY <2>1, <3>4 DEF OnlyBlocks, a
      <3>6. \A d \in Dispute : b.source[d] = {} => r.block[d] = b.block[d]
        BY <2>1, <3>2, <3>4 DEF a
      <3>7. \A d \in Dispute, y \in Event : y # e => r.block[d][y] = b.block[d][y]
        <4> SUFFICES ASSUME NEW d \in Dispute, NEW y \in Event, y # e
                     PROVE  r.block[d][y] = b.block[d][y]
          OBVIOUS
        <4>1. a.block[d][y] = b.block[d][y]
          BY <2>1 DEF a
        <4>2. r.block[d][y] = a.block[d][y]
          BY <3>4
        <4>3. QED BY <4>1, <4>2
      <3>8. \A d \in Dispute : d > i => r.block[d][e] = 0
        <4> SUFFICES ASSUME NEW d \in Dispute, d > i PROVE r.block[d][e] = 0
          OBVIOUS
        <4>1. d > i - 1 /\ d # i
          BY Lengths
        <4>2. a.block[d][e] = 0
          BY <2>1, <4>1 DEF a
        <4>3. QED BY <3>4, <4>1, <4>2
      <3>9. good(i)
        BY <3>4, <3>5, <3>6, <3>7, <3>8
      <3>10. QED BY <2>1, <3>9
    <2>4. QED BY <2>2, <2>3
  <1> HIDE DEF G
  <1>4. Len(Claim) \in G
    <2>1. Len(Claim) \in Nat
      BY Lengths
    <2>2. \A i \in 0..Len(Claim) : i \in G
      BY <1>2, <1>3, <2>1, AllReached
    <2>3. QED BY <2>1, <2>2
  <1> QED BY <1>1, <1>4 DEF G


(* What is left of the entries.                                            *)
LEMMA LeftIsNat ==
  ASSUME NEW b \in Books, EntriesSound(b)
  PROVE  /\ \A e \in Event : /\ LeftOf(b, e) \in Nat /\ FrozenIn(b)[e] \in Nat
                             /\ LeftIn(b)[e] = LeftOf(b, e)
         /\ Total(LeftIn(b), Event) \in Nat
  <1>1. \A e \in Event : LeftOf(b, e) \in Nat
    <2> TAKE e \in Event
    <2>1. b.entry[e].amount \in Nat /\ b.entry[e].reversed \in Nat /\ LeftOf(b, e) >= 0
      BY LotFields DEF EntriesSound
    <2>2. QED BY <2>1 DEF LeftOf
  <1>2. \A e \in Event : FrozenIn(b)[e] \in Nat /\ LeftIn(b)[e] = LeftOf(b, e)
    BY <1>1 DEF FrozenIn, LeftIn
  <1>3. \A e \in Event : LeftIn(b)[e] \in Nat
    BY <1>1, <1>2
  <1>4. Total(LeftIn(b), Event) \in Nat
    BY <1>3, Lengths, SumNat DEF Total
  <1> QED BY <1>1, <1>2, <1>4

(* Of an entry that waits nothing is in a lot, held or blocked.            *)
LEMMA NothingYet ==
  ASSUME NEW b \in Books, NEW u \in Uses, NEW e \in Event, LotSound(b, u, e), Awaits(b, e)
  PROVE  /\ b.lot[e] = NoLot /\ e \notin Range(b.lots)
         /\ \A d \in Dispute : b.block[d][e] = 0
         /\ Blocked(b, e) = 0 /\ DisputeHeld(b, e) = 0 /\ UsedOf(u, e) = 0
  <1>1. b.lot[e] = NoLot /\ e \notin Range(b.lots)
        /\ Blocked(b, e) <= b.lot[e].amount - b.lot[e].consumed
        /\ b.lot[e].reserved = DisputeHeld(b, e) + UsedOf(u, e)
    BY DEF LotSound
  <1>2. Blocked(b, e) \in Nat /\ DisputeHeld(b, e) \in Nat /\ UsedOf(u, e) \in Nat
    BY Blocks, UsedIsNat
  <1>3. Blocked(b, e) = 0 /\ DisputeHeld(b, e) = 0 /\ UsedOf(u, e) = 0
    BY <1>1, <1>2 DEF NoLot
  <1>4. \A d \in Dispute : b.block[d][e] = 0
    <2> TAKE d \in Dispute
    <2> DEFINE f == [x \in Dispute |-> b.block[x][e]]
    <2>1. \A x \in Dispute : f[x] \in Nat
      BY Fields
    <2>2. SumFunctionOnSet(f, Dispute) = 0
      BY <1>3 DEF Blocked, Total
    <2>3. f[d] = b.block[d][e]
      OBVIOUS
    <2> HIDE DEF f
    <2>4. f[d] <= SumFunctionOnSet(f, Dispute)
      BY <2>1, Lengths, SumAtLeast
    <2>5. QED BY <2>1, <2>2, <2>3, <2>4
  <1> QED BY <1>1, <1>3, <1>4

(* The new lot, before its flags.                                          *)
NewLot(b, e, a) ==
  [b EXCEPT !.lot[e] = [amount |-> a, reserved |-> 0, consumed |-> 0], !.lots = Append(@, e)]

LEMMA NewLotEffect ==
  ASSUME NEW b \in Books, NEW e \in Event, NEW a \in Nat
  PROVE  LET m == NewLot(b, e, a) IN
         /\ m \in Books
         /\ m.lot[e].amount = a /\ m.lot[e].reserved = 0 /\ m.lot[e].consumed = 0
         /\ \A y \in Event : y # e => m.lot[y] = b.lot[y]
         /\ m.lots = Append(b.lots, e)
         /\ m.event = b.event /\ m.corrected = b.corrected /\ m.based = b.based
         /\ m.entry = b.entry /\ m.carry = b.carry
         /\ m.pending = b.pending /\ m.frozen = b.frozen /\ m.available = b.available
         /\ m.held = b.held /\ m.paidOut = b.paidOut /\ m.credit = b.credit
         /\ m.source = b.source /\ m.block = b.block /\ m.hold = b.hold
  <1> DEFINE new == [amount |-> a, reserved |-> 0, consumed |-> 0]
             L == [b.lot EXCEPT ![e] = new]
             Q == Append(b.lots, e)
             m == [b EXCEPT !.lot = L, !.lots = Q]
  <1>1. b.lot \in [Event -> Lot] /\ b.lots \in Seq(Event)
    BY Fields
  <1>2. new \in Lot /\ new.amount = a /\ new.reserved = 0 /\ new.consumed = 0
    BY DEF Lot
  <1>3. NewLot(b, e, a) = m
    BY DEF NewLot
  <1> HIDE DEF new
  <1>4. /\ L \in [Event -> Lot] /\ L[e] = new
        /\ \A y \in Event : y # e => L[y] = b.lot[y]
    BY <1>1, <1>2
  <1>5. Q \in Seq(Event)
    BY <1>1
  <1> HIDE DEF L, Q
  <1>6. /\ m \in Books /\ m.lot = L /\ m.lots = Q
        /\ m.event = b.event /\ m.corrected = b.corrected /\ m.based = b.based
        /\ m.entry = b.entry /\ m.carry = b.carry
        /\ m.pending = b.pending /\ m.frozen = b.frozen /\ m.available = b.available
        /\ m.held = b.held /\ m.paidOut = b.paidOut /\ m.credit = b.credit
        /\ m.source = b.source /\ m.block = b.block /\ m.hold = b.hold
    BY <1>4, <1>5 DEF Books
  <1> HIDE DEF m
  <1> QED BY <1>2, <1>3, <1>4, <1>6 DEF Q

(* What an offset and the settlement of the entry make of the flagged lot. *)
Opened(m, e, a, o) ==
  [m EXCEPT !.lot[e].consumed = o, !.pending = @ - o, !.frozen = @ - a,
            !.available = @ + (a - o), !.entry[e].status = "available"]

LEMMA ReleaseEffect ==
  ASSUME NEW m \in Books, NEW e \in Event, NEW a \in Nat, NEW o \in Nat,
         o <= a, o <= m.pending, a <= m.frozen
  PROVE  LET r == Opened(m, e, a, o) IN
         /\ r \in Books
         /\ r.lot[e].amount = m.lot[e].amount /\ r.lot[e].reserved = m.lot[e].reserved
         /\ r.lot[e].consumed = o
         /\ r.entry[e].amount = m.entry[e].amount /\ r.entry[e].reversed = m.entry[e].reversed
         /\ r.entry[e].status = "available"
         /\ \A y \in Event : y # e => r.lot[y] = m.lot[y] /\ r.entry[y] = m.entry[y]
         /\ r.pending = m.pending - o /\ r.frozen = m.frozen - a
         /\ r.available = m.available + (a - o)
         /\ r.event = m.event /\ r.corrected = m.corrected /\ r.based = m.based
         /\ r.carry = m.carry /\ r.lots = m.lots
         /\ r.held = m.held /\ r.paidOut = m.paidOut /\ r.credit = m.credit
         /\ r.source = m.source /\ r.block = m.block /\ r.hold = m.hold
  <1> DEFINE L == [m.lot EXCEPT ![e].consumed = o]
             E == [m.entry EXCEPT ![e].status = "available"]
             P == m.pending - o
             F == m.frozen - a
             A == m.available + (a - o)
             r == [m EXCEPT !.lot = L, !.pending = P, !.frozen = F, !.available = A, !.entry = E]
  <1>1. /\ m.lot \in [Event -> Lot] /\ m.entry \in [Event -> Entry]
        /\ m.pending \in Nat /\ m.frozen \in Nat /\ m.available \in Nat
    BY Fields
  <1>2. /\ L \in [Event -> Lot] /\ L[e].consumed = o
        /\ L[e].amount = m.lot[e].amount /\ L[e].reserved = m.lot[e].reserved
        /\ \A y \in Event : y # e => L[y] = m.lot[y]
    BY <1>1 DEF Lot
  <1>3. /\ E \in [Event -> Entry] /\ E[e].status = "available"
        /\ E[e].amount = m.entry[e].amount /\ E[e].reversed = m.entry[e].reversed
        /\ \A y \in Event : y # e => E[y] = m.entry[y]
    BY <1>1 DEF Entry, EntryStatus
  <1>4. P \in Nat /\ F \in Nat /\ A \in Nat
    BY <1>1
  <1>5. Opened(m, e, a, o) = r
    BY DEF Opened
  <1> HIDE DEF L, E, P, F, A
  <1>6. /\ r \in Books /\ r.lot = L /\ r.entry = E /\ r.pending = P /\ r.frozen = F
        /\ r.available = A
        /\ r.event = m.event /\ r.corrected = m.corrected /\ r.based = m.based
        /\ r.carry = m.carry /\ r.lots = m.lots
        /\ r.held = m.held /\ r.paidOut = m.paidOut /\ r.credit = m.credit
        /\ r.source = m.source /\ r.block = m.block /\ r.hold = m.hold
    BY <1>2, <1>3, <1>4 DEF Books
  <1> HIDE DEF r
  <1> QED BY <1>2, <1>3, <1>5, <1>6 DEF P, F, A

(* What the release of entry e does to the books, all in all: amount goes  *)
(* from what is frozen to the new lot, and offset of it to what is owed.   *)
Released(b, r, e, amount, offset) ==
  /\ amount = LeftOf(b, e) /\ amount \in Nat /\ offset \in Nat
  /\ offset <= amount /\ offset <= b.pending /\ amount <= b.frozen
  /\ r \in Books
  /\ r.lot[e].amount = amount /\ r.lot[e].reserved = 0 /\ r.lot[e].consumed = offset
  /\ r.entry[e].amount = b.entry[e].amount /\ r.entry[e].reversed = b.entry[e].reversed
  /\ r.entry[e].status = "available"
  /\ \A y \in Event : y # e => r.lot[y] = b.lot[y] /\ r.entry[y] = b.entry[y]
  /\ r.lots = Append(b.lots, e)
  /\ r.pending = b.pending - offset /\ r.frozen = b.frozen - amount
  /\ r.available = b.available + (amount - offset)
  /\ r.event = b.event /\ r.corrected = b.corrected /\ r.based = b.based
  /\ r.carry = b.carry /\ r.held = b.held /\ r.paidOut = b.paidOut /\ r.credit = b.credit
  /\ r.source = b.source /\ r.hold = b.hold
  /\ \A d \in Dispute : b.source[d] = {} => r.block[d] = b.block[d]
  /\ \A d \in Dispute, y \in Event : y # e => r.block[d][y] = b.block[d][y]
  /\ Blocked(r, e) <= amount - offset

LEMMA ReleaseMoves ==
  ASSUME NEW b, NEW u \in Uses, case \in Cases, BooksSound(b, u, case),
         NEW e \in Event, Frozen(b, e), ~blocked
  PROVE  \E amount, offset : Released(b, Release(b, e), e, amount, offset)
  <1> DEFINE a == b.entry[e].amount - b.entry[e].reversed
             new == NewLot(b, e, a)
             m == ApplyFlags(new, e)
             o == Least(b.pending, Spendable(m)[e])
             r == Opened(m, e, a, o)
  <1>1. /\ b \in Books /\ LotsSound(b, u) /\ EntriesSound(b) /\ FlagsSound(b, case)
        /\ LotSound(b, u, e) /\ Awaits(b, e)
    BY DEF BooksSound, LotsSound, Awaits, Frozen
  <1>2. Release(b, e) = r
    BY DEF Release, FundingLot, NewLot, Opened
  <1>3. a = LeftOf(b, e) /\ a \in Nat
    BY <1>1, LeftIsNat DEF LeftOf
  <1> HIDE DEF a
  <1>4. /\ new \in Books
        /\ new.lot[e].amount = a /\ new.lot[e].reserved = 0 /\ new.lot[e].consumed = 0
        /\ \A y \in Event : y # e => new.lot[y] = b.lot[y]
        /\ new.lots = Append(b.lots, e)
        /\ new.event = b.event /\ new.corrected = b.corrected /\ new.based = b.based
        /\ new.entry = b.entry /\ new.carry = b.carry
        /\ new.pending = b.pending /\ new.frozen = b.frozen /\ new.available = b.available
        /\ new.held = b.held /\ new.paidOut = b.paidOut /\ new.credit = b.credit
        /\ new.source = b.source /\ new.block = b.block /\ new.hold = b.hold
    BY <1>1, <1>3, NewLotEffect
  <1> HIDE DEF new
  <1>5. /\ \A d \in Dispute : b.block[d][e] = 0
        /\ Blocked(b, e) = 0 /\ DisputeHeld(b, e) = 0
    BY <1>1, NothingYet
  <1>6. Blocked(new, e) = 0 /\ DisputeHeld(new, e) = 0
    BY <1>4, <1>5 DEF Blocked, DisputeHeld
  <1>7. /\ m \in Books /\ OnlyBlocks(new, m)
        /\ \A d \in Dispute : new.source[d] = {} => m.block[d] = new.block[d]
        /\ \A d \in Dispute, y \in Event : y # e => m.block[d][y] = new.block[d][y]
        /\ Blocked(m, e) <= m.lot[e].amount - m.lot[e].consumed
    <2>1. \A d \in Dispute : new.source[d] # {} => case[d].den > 0 /\ case[d].num <= case[d].den
      BY <1>1, <1>4 DEF FlagsSound
    <2>2. \A d \in Dispute : new.block[d][e] = 0
      BY <1>4, <1>5
    <2>3. Blocked(new, e) <= new.lot[e].amount - new.lot[e].consumed
      BY <1>3, <1>4, <1>6
    <2>4. QED BY <1>4, <2>1, <2>2, <2>3, FlagsApplied
  <1> HIDE DEF m
  <1>8. m.lot = new.lot /\ DisputeHeld(m, e) = 0
    BY <1>6, <1>7 DEF OnlyBlocks, DisputeHeld
  <1>9. Blocked(m, e) \in Nat /\ Blocked(m, e) <= a
    BY <1>3, <1>4, <1>7, <1>8, Blocks
  <1>10. Spendable(m)[e] = a - Blocked(m, e)
    <2>1. Spendable(m)[e]
            = Positive(Unreserved(m, e) - Positive(Blocked(m, e) - DisputeHeld(m, e)))
      BY DEF Spendable
    <2>2. Unreserved(m, e) = a
      BY <1>3, <1>4, <1>8 DEF Unreserved
    <2>3. QED BY <1>3, <1>8, <1>9, <2>1, <2>2 DEF Positive
  <1>11. b.pending \in Nat /\ b.frozen \in Nat
    BY <1>1, Fields
  <1>12. o \in Nat /\ o <= a - Blocked(m, e) /\ o <= b.pending /\ o <= a
    BY <1>3, <1>9, <1>10, <1>11 DEF Least
  <1> HIDE DEF o
  <1>13. a <= b.frozen
    <2>1. \A y \in Event : FrozenIn(b)[y] \in Nat
      BY <1>1, LeftIsNat
    <2>2. FrozenIn(b)[e] = a
      BY <1>3 DEF FrozenIn
    <2>3. FrozenIn(b)[e] <= Total(FrozenIn(b), Event)
      BY <2>1, Lengths, SumAtLeast DEF Total
    <2>4. QED BY <1>1, <2>2, <2>3 DEF EntriesSound
  <1>14. /\ m.pending = b.pending /\ m.frozen = b.frozen /\ m.available = b.available
         /\ m.entry = b.entry /\ m.lots = new.lots
         /\ m.event = b.event /\ m.corrected = b.corrected /\ m.based = b.based
         /\ m.carry = b.carry /\ m.held = b.held /\ m.paidOut = b.paidOut
         /\ m.credit = b.credit /\ m.source = b.source /\ m.hold = b.hold
    BY <1>4, <1>7 DEF OnlyBlocks
  <1>15. /\ r \in Books
         /\ r.lot[e].amount = m.lot[e].amount /\ r.lot[e].reserved = m.lot[e].reserved
         /\ r.lot[e].consumed = o
         /\ r.entry[e].amount = m.entry[e].amount /\ r.entry[e].reversed = m.entry[e].reversed
         /\ r.entry[e].status = "available"
         /\ \A y \in Event : y # e => r.lot[y] = m.lot[y] /\ r.entry[y] = m.entry[y]
         /\ r.pending = m.pending - o /\ r.frozen = m.frozen - a
         /\ r.available = m.available + (a - o)
         /\ r.event = m.event /\ r.corrected = m.corrected /\ r.based = m.based
         /\ r.carry = m.carry /\ r.lots = m.lots
         /\ r.held = m.held /\ r.paidOut = m.paidOut /\ r.credit = m.credit
         /\ r.source = m.source /\ r.block = m.block /\ r.hold = m.hold
    BY <1>3, <1>7, <1>12, <1>13, <1>14, ReleaseEffect
  <1> HIDE DEF r
  <1>17. Blocked(r, e) <= a - o
    <2>1. Blocked(r, e) = Blocked(m, e)
      BY <1>15 DEF Blocked
    <2>2. QED BY <1>3, <1>9, <1>12, <2>1
  <1>18. /\ r.lots = Append(b.lots, e)
         /\ r.lot[e].amount = a /\ r.lot[e].reserved = 0 /\ r.lot[e].consumed = o
         /\ r.entry[e].amount = b.entry[e].amount /\ r.entry[e].reversed = b.entry[e].reversed
         /\ r.entry[e].status = "available"
    BY <1>4, <1>8, <1>14, <1>15
  <1>19. \A y \in Event : y # e => r.lot[y] = b.lot[y] /\ r.entry[y] = b.entry[y]
    BY <1>4, <1>8, <1>14, <1>15
  <1>20. /\ \A d \in Dispute : b.source[d] = {} => r.block[d] = b.block[d]
         /\ \A d \in Dispute, y \in Event : y # e => r.block[d][y] = b.block[d][y]
    <2>1. r.block = m.block /\ new.source = b.source /\ new.block = b.block
      BY <1>4, <1>15
    <2>2. QED BY <1>7, <2>1
  <1>21. /\ r.pending = b.pending - o /\ r.frozen = b.frozen - a
         /\ r.available = b.available + (a - o)
         /\ r.event = b.event /\ r.corrected = b.corrected /\ r.based = b.based
         /\ r.carry = b.carry /\ r.held = b.held /\ r.paidOut = b.paidOut
         /\ r.credit = b.credit /\ r.source = b.source /\ r.hold = b.hold
    BY <1>14, <1>15
  <1>22. Released(b, r, e, a, o)
    BY <1>3, <1>12, <1>13, <1>15, <1>17, <1>18, <1>19, <1>20, <1>21 DEF Released
  <1> QED BY <1>2, <1>22

(* One event changes its part of a total.                                  *)
LEMMA EventChange ==
  ASSUME NEW f, NEW g, NEW e \in Event, \A y \in Event : f[y] \in Int /\ g[y] \in Int,
         \A y \in Event : y # e => f[y] = g[y]
  PROVE  /\ Total(f, Event) \in Int /\ Total(g, Event) \in Int
         /\ Total(g, Event) = Total(f, Event) + g[e] - f[e]
  <1>1. IsFiniteSet(Event)
    BY Lengths
  <1>2. \A y \in Event \ {e} : f[y] = g[y]
    OBVIOUS
  <1>3. SumFunctionOnSet(g, Event) = SumFunctionOnSet(f, Event) + g[e] - f[e]
    BY <1>1, <1>2, SumChange
  <1>4. SumFunctionOnSet(g, Event) \in Int /\ SumFunctionOnSet(f, Event) \in Int
    BY <1>1, SumInt
  <1> QED BY <1>3, <1>4 DEF Total

LEMMA InLotsInt ==
  ASSUME NEW b \in Books, NEW e \in Event
  PROVE  InLots(b)[e] \in Int
  <1>1. b.lot[e].amount \in Nat /\ b.lot[e].consumed \in Nat
    BY LotFields
  <1> QED BY <1>1 DEF InLots

LEMMA LotsReleased ==
  ASSUME NEW b, NEW u \in Uses, NEW c, BooksSound(b, u, c), NEW e \in Event, Frozen(b, e),
         NEW r, NEW a, NEW o, Released(b, r, e, a, o)
  PROVE  LotsSound(r, u)
  <1>1. /\ b \in Books /\ LotsSound(b, u) /\ LotSound(b, u, e) /\ Awaits(b, e)
        /\ b.lots \in Seq(Event)
    BY Fields DEF BooksSound, LotsSound, Awaits, Frozen
  <1>2. /\ a \in Nat /\ o \in Nat /\ o <= a /\ r \in Books
        /\ r.lots = Append(b.lots, e) /\ r.hold = b.hold /\ r.held = b.held
        /\ r.available = b.available + (a - o)
        /\ r.lot[e].amount = a /\ r.lot[e].reserved = 0 /\ r.lot[e].consumed = o
        /\ r.entry[e].status = "available" /\ Blocked(r, e) <= a - o
        /\ \A y \in Event : y # e => r.lot[y] = b.lot[y] /\ r.entry[y] = b.entry[y]
        /\ \A d \in Dispute, y \in Event : y # e => r.block[d][y] = b.block[d][y]
    BY DEF Released
  <1>3. /\ b.lot[e] = NoLot /\ e \notin Range(b.lots)
        /\ DisputeHeld(b, e) = 0 /\ UsedOf(u, e) = 0
    BY <1>1, NothingYet
  <1>4. \A y \in Event : DisputeHeld(r, y) = DisputeHeld(b, y)
    BY <1>2 DEF DisputeHeld
  <1>5. /\ Range(r.lots) = Range(b.lots) \cup {e} /\ Distinct(r.lots)
    <2>1. Distinct(b.lots)
      BY <1>1 DEF LotsSound
    <2> DEFINE n == Len(b.lots)
    <2>2. n \in Nat /\ DOMAIN b.lots = 1..n
      BY <1>1, SeqIsFunction
    <2>3. DOMAIN r.lots = 1..(n + 1)
      BY <1>1, <1>2
    <2>4. /\ \A i \in 1..n : r.lots[i] = b.lots[i]
          /\ r.lots[n + 1] = e
      BY <1>1, <1>2
    <2> HIDE DEF n
    <2>5. Range(r.lots) = Range(b.lots) \cup {e}
      <3>1. \A x : (\E i \in 1..(n + 1) : r.lots[i] = x) <=> (\E i \in 1..n : b.lots[i] = x) \/ x = e
        <4>1. \A i \in 1..(n + 1) : i \in 1..n \/ i = n + 1
          BY <2>2
        <4>2. 1..n \subseteq 1..(n + 1) /\ n + 1 \in 1..(n + 1)
          BY <2>2
        <4>3. QED BY <2>4, <4>1, <4>2
      <3>2. QED BY <2>2, <2>3, <3>1 DEF Range
    <2>6. Distinct(r.lots)
      <3>1. \A i \in 1..n : r.lots[i] # e
        BY <1>3, <2>2, <2>4 DEF Range
      <3>2. \A i \in 1..(n + 1) : i \in 1..n \/ i = n + 1
        BY <2>2
      <3>3. \A i, j \in 1..n : b.lots[i] = b.lots[j] => i = j
        BY <2>1, <2>2 DEF Distinct
      <3>4. \A i, j \in 1..(n + 1) : r.lots[i] = r.lots[j] => i = j
        BY <2>4, <3>1, <3>2, <3>3
      <3>5. QED BY <2>3, <3>4 DEF Distinct
    <2>7. QED BY <2>5, <2>6
  <1>6. \A y \in Event : LotSound(r, u, y)
    <2>1. LotSound(r, u, e)
      <3>1. Unreserved(r, e) = a - o /\ ~Awaits(r, e) /\ e \in Range(r.lots)
        BY <1>2, <1>5 DEF Unreserved, Awaits
      <3>2. r.lot[e].reserved = DisputeHeld(r, e) + UsedOf(u, e)
        BY <1>2, <1>3, <1>4
      <3>3. QED BY <1>2, <3>1, <3>2 DEF LotSound
    <2>2. ASSUME NEW y \in Event, y # e PROVE LotSound(r, u, y)
      <3>1. LotSound(b, u, y)
        BY <1>1 DEF LotsSound
      <3>2. /\ r.lot[y] = b.lot[y] /\ Unreserved(r, y) = Unreserved(b, y)
            /\ Awaits(r, y) = Awaits(b, y)
        BY <1>2, <2>2 DEF Unreserved, Awaits
      <3>3. Blocked(r, y) = Blocked(b, y)
        BY <1>2, <2>2 DEF Blocked
      <3>4. y \in Range(r.lots) <=> y \in Range(b.lots)
        BY <1>5, <2>2
      <3>5. QED BY <1>4, <3>1, <3>2, <3>3, <3>4 DEF LotSound
    <2>3. QED BY <2>1, <2>2
  <1>7. r.available = Total(InLots(r), Event)
    <2> DEFINE f == InLots(b)
               g == InLots(r)
    <2>1. \A y \in Event : f[y] \in Int /\ g[y] \in Int
      BY <1>1, <1>2, InLotsInt
    <2>2. \A y \in Event : y # e => f[y] = g[y]
      BY <1>2 DEF InLots
    <2>3. f[e] = 0 /\ g[e] = a - o
      BY <1>2, <1>3 DEF InLots, NoLot
    <2>4. b.available = Total(f, Event) /\ b.available \in Nat
      BY <1>1, Fields DEF LotsSound
    <2> HIDE DEF f, g
    <2>5. Total(g, Event) = Total(f, Event) + g[e] - f[e]
      BY <2>1, <2>2, EventChange
    <2>6. Total(g, Event) = r.available
      BY <1>2, <2>3, <2>4, <2>5
    <2>7. QED BY <2>6 DEF g
  <1>8. r.held = Total(ReservedIn(r), Event)
    <2>1. \A y \in Event : r.lot[y].reserved = b.lot[y].reserved
      BY <1>2, <1>3 DEF NoLot
    <2>2. Total(ReservedIn(r), Event) = Total(ReservedIn(b), Event)
      BY <1>1, <1>2, <2>1, ReservedStay
    <2>3. QED BY <1>1, <1>2, <2>2 DEF LotsSound
  <1> QED BY <1>5, <1>6, <1>7, <1>8 DEF LotsSound

LEMMA ReleaseKeeps ==
  ASSUME NEW b, NEW u \in Uses, case \in Cases, BooksSound(b, u, case),
         NEW e \in Event, Frozen(b, e)
  PROVE  /\ BooksSound(Release(b, e), u, case) /\ Advanced(b, Release(b, e))
         /\ Release(b, e).event = b.event
  <1>1. ASSUME blocked
        PROVE  /\ BooksSound(Release(b, e), u, case) /\ Advanced(b, Release(b, e))
               /\ Release(b, e).event = b.event
    <2>1. Release(b, e) = b
      BY <1>1 DEF Release
    <2>2. QED BY <2>1 DEF Advanced
  <1>2. ASSUME ~blocked
        PROVE  /\ BooksSound(Release(b, e), u, case) /\ Advanced(b, Release(b, e))
               /\ Release(b, e).event = b.event
    <2> DEFINE r == Release(b, e)
    <2>1. PICK a, o : Released(b, r, e, a, o)
      BY <1>2, ReleaseMoves
    <2> HIDE DEF r
    <2>2. /\ b \in Books /\ LotsSound(b, u) /\ EntriesSound(b) /\ Whole(b)
          /\ FlagsSound(b, case)
      BY DEF BooksSound
    <2>3. /\ a = LeftOf(b, e) /\ a \in Nat /\ o \in Nat /\ o <= a /\ o <= b.pending
          /\ a <= b.frozen /\ r \in Books
          /\ r.entry[e].amount = b.entry[e].amount /\ r.entry[e].reversed = b.entry[e].reversed
          /\ r.entry[e].status = "available"
          /\ \A y \in Event : y # e => r.entry[y] = b.entry[y]
          /\ r.pending = b.pending - o /\ r.frozen = b.frozen - a
          /\ r.available = b.available + (a - o) /\ r.paidOut = b.paidOut /\ r.event = b.event
      BY <2>1 DEF Released
    <2>4. \A y \in Event : LeftOf(r, y) = LeftOf(b, y)
      BY <2>3 DEF LeftOf
    <2>5. Advanced(b, r)
      <3>1. \A y \in Event : r.entry[y].status = "none" <=> b.entry[y].status = "none"
        BY <2>3 DEF Frozen
      <3>2. QED BY <2>1, <2>4, <3>1 DEF Released, Advanced
    <2>6. LotsSound(r, u)
      BY <2>1, LotsReleased
    <2>7. EntriesSound(r)
      <3>1. \A y \in Event :
              /\ LeftOf(r, y) >= 0
              /\ r.entry[y].status \in {"frozen", "available"} <=> LeftOf(r, y) > 0
        <4> TAKE y \in Event
        <4>1. /\ LeftOf(b, y) >= 0
              /\ b.entry[y].status \in {"frozen", "available"} <=> LeftOf(b, y) > 0
          BY <2>2 DEF EntriesSound
        <4>2. r.entry[y].status \in {"frozen", "available"}
                <=> b.entry[y].status \in {"frozen", "available"}
          BY <2>3 DEF Frozen
        <4>3. QED BY <2>4, <4>1, <4>2
      <3>2. r.frozen = Total(FrozenIn(r), Event)
        <4> DEFINE f == FrozenIn(b)
                   g == FrozenIn(r)
        <4>1. \A y \in Event : f[y] \in Nat /\ LeftOf(b, y) \in Nat
          BY <2>2, LeftIsNat
        <4>2. \A y \in Event : y # e => f[y] = g[y]
          BY <2>3, <2>4 DEF FrozenIn, Frozen
        <4>3. f[e] = a /\ g[e] = 0
          BY <2>3 DEF FrozenIn, Frozen
        <4>4. \A y \in Event : f[y] \in Int /\ g[y] \in Int
          BY <4>1, <4>2, <4>3
        <4>5. b.frozen = Total(f, Event) /\ b.frozen \in Nat
          BY <2>2, Fields DEF EntriesSound
        <4> HIDE DEF f, g
        <4>6. Total(g, Event) = Total(f, Event) + g[e] - f[e]
          BY <4>2, <4>4, EventChange
        <4>7. Total(g, Event) = r.frozen
          BY <2>3, <4>3, <4>5, <4>6
        <4>8. QED BY <4>7 DEF g
      <3>3. QED BY <3>1, <3>2 DEF EntriesSound
    <2>8. Whole(r)
      <3>1. LeftIn(r) = LeftIn(b)
        BY <2>4, LeftSame
      <3>2. Total(LeftIn(b), Event) + b.pending = b.frozen + b.available + b.paidOut
        BY <2>2 DEF Whole
      <3>3. /\ Total(LeftIn(b), Event) \in Nat /\ b.pending \in Nat /\ b.frozen \in Nat
            /\ b.available \in Nat /\ b.paidOut \in Nat
        BY <2>2, LeftIsNat, Fields
      <3>4. PICK t \in Nat, p \in Nat, f \in Nat, v \in Nat, w \in Nat :
              /\ t = Total(LeftIn(b), Event) /\ p = b.pending /\ f = b.frozen
              /\ v = b.available /\ w = b.paidOut
        BY <3>3
      <3>5. t + (p - o) = (f - a) + (v + (a - o)) + w
        <4>1. t + p = f + v + w
          BY <3>2, <3>4
        <4>2. a \in Nat /\ o \in Nat
          BY <2>3
        <4>3. QED BY <4>1, <4>2
      <3>6. Total(LeftIn(r), Event) + r.pending = r.frozen + r.available + r.paidOut
        BY <2>3, <3>1, <3>4, <3>5
      <3>7. QED BY <3>6 DEF Whole
    <2>9. FlagsSound(r, case)
      BY <2>2, <2>5, FlagsSame
    <2>10. BooksSound(r, u, case)
      BY <2>3, <2>6, <2>7, <2>8, <2>9 DEF BooksSound
    <2> QED BY <2>3, <2>5, <2>10 DEF r
  <1> QED BY <1>1, <1>2

(* Where the money and its owners stay, so do the sums.                    *)
LEMMA MoneySame ==
  ASSUME NEW b, NEW u, NEW c, BooksSound(b, u, c), NEW r,
         r.lot = b.lot, r.lots = b.lots, r.entry = b.entry, r.block = b.block,
         r.hold = b.hold, r.pending = b.pending, r.frozen = b.frozen,
         r.available = b.available, r.held = b.held, r.paidOut = b.paidOut
  PROVE  LotsSound(r, u) /\ EntriesSound(r) /\ Whole(r) /\ LeftIn(r) = LeftIn(b)
  <1>1. LotsSound(b, u) /\ EntriesSound(b) /\ Whole(b)
    BY DEF BooksSound
  <1>2. LotsSound(r, u)
    BY <1>1, LotsSame DEF Awaits
  <1>3. EntriesSound(r)
    BY <1>1, EntriesSame
  <1>4. LeftIn(r) = LeftIn(b)
    BY DEF LeftIn, LeftOf
  <1>5. Whole(r)
    BY <1>1, <1>4 DEF Whole
  <1> QED BY <1>2, <1>3, <1>4, <1>5

(* The status of an event says nothing of the money.                       *)
LEMMA EventMoves ==
  ASSUME NEW b, NEW u, NEW c, BooksSound(b, u, c), NEW e \in Event, NEW x \in EventStatus
  PROVE  LET r == [b EXCEPT !.event[e] = x] IN
         BooksSound(r, u, c) /\ Advanced(b, r) /\ r.entry = b.entry
  <1> DEFINE E == [b.event EXCEPT ![e] = x]
             r == [b EXCEPT !.event = E]
  <1>1. b \in Books /\ b.event \in [Event -> EventStatus] /\ FlagsSound(b, c)
    BY Fields DEF BooksSound
  <1>2. E \in [Event -> EventStatus]
    BY <1>1
  <1>3. [b EXCEPT !.event[e] = x] = r
    OBVIOUS
  <1> HIDE DEF E
  <1>4. /\ r \in Books /\ r.lot = b.lot /\ r.lots = b.lots /\ r.entry = b.entry
        /\ r.block = b.block /\ r.hold = b.hold /\ r.pending = b.pending
        /\ r.frozen = b.frozen /\ r.available = b.available /\ r.held = b.held
        /\ r.paidOut = b.paidOut /\ r.corrected = b.corrected /\ r.based = b.based
        /\ r.carry = b.carry /\ r.source = b.source /\ r.credit = b.credit
    BY <1>1, <1>2 DEF Books
  <1> HIDE DEF r
  <1>5. Advanced(b, r)
    BY <1>4 DEF Advanced, LeftOf
  <1>6. LotsSound(r, u) /\ EntriesSound(r) /\ Whole(r)
    BY <1>4, MoneySame
  <1>7. FlagsSound(r, c)
    BY <1>1, <1>5, FlagsSame
  <1>8. BooksSound(r, u, c)
    BY <1>4, <1>6, <1>7 DEF BooksSound
  <1> QED BY <1>3, <1>4, <1>5, <1>8

LEMMA ConfirmKeeps ==
  ASSUME NEW b, NEW u \in Uses, case \in Cases, BooksSound(b, u, case), NEW e \in Event
  PROVE  BooksSound(Confirm(b, e), u, case) /\ Advanced(b, Confirm(b, e))
  <1> DEFINE m == [b EXCEPT !.event[e] = "confirmed"]
  <1>1. BooksSound(m, u, case) /\ Advanced(b, m) /\ m.entry = b.entry
    BY EventMoves DEF EventStatus
  <1>2. Confirm(b, e) = IF Frozen(b, e) THEN Release(m, e) ELSE m
    BY DEF Confirm
  <1> HIDE DEF m
  <1>3. ASSUME Frozen(b, e)
        PROVE  BooksSound(Release(m, e), u, case) /\ Advanced(b, Release(m, e))
    <2>1. Frozen(m, e)
      BY <1>1, <1>3 DEF Frozen
    <2>2. BooksSound(Release(m, e), u, case) /\ Advanced(m, Release(m, e))
      BY <1>1, <2>1, ReleaseKeeps
    <2>3. QED BY <1>1, <2>2, AdvancedTwice
  <1> QED BY <1>1, <1>2, <1>3

LEMMA AdvancedNot ==
  ASSUME NEW b
  PROVE  Advanced(b, b)
  BY DEF Advanced

LEMMA DueKeeps ==
  ASSUME NEW b, NEW u \in Uses, case \in Cases, BooksSound(b, u, case), NEW n \in 0..Len(Paid)
  PROVE  /\ BooksSound(Through(ConfirmDue, n, b), u, case)
         /\ Advanced(b, Through(ConfirmDue, n, b))
  <1>1. n \in Nat /\ 1..n \subseteq Event /\ n \in 0..n
    BY Lengths
  <1>2. PICK f : /\ f[0] = b /\ \A i \in 1..n : f[i] = ConfirmDue(f[i - 1], i)
                 /\ Through(ConfirmDue, n, b) = f[n]
    BY <1>1, LoopDue
  <1> DEFINE G == {i \in 0..n : BooksSound(f[i], u, case) /\ Advanced(b, f[i])}
  <1>3. 0 \in G
    BY <1>1, <1>2, AdvancedNot
  <1>4. ASSUME NEW i \in 1..n, i - 1 \in G PROVE i \in G
    <2> DEFINE a == f[i - 1]
    <2>1. BooksSound(a, u, case) /\ Advanced(b, a) /\ i \in Event /\ i \in 0..n
      BY <1>1, <1>4
    <2>2. f[i] = ConfirmDue(a, i)
      BY <1>2
    <2> HIDE DEF a
    <2>3. BooksSound(Confirm(a, i), u, case) /\ Advanced(a, Confirm(a, i))
      BY <2>1, ConfirmKeeps
    <2>4. BooksSound(f[i], u, case) /\ Advanced(a, f[i])
      BY <2>1, <2>2, <2>3, AdvancedNot DEF ConfirmDue
    <2>5. Advanced(b, f[i])
      BY <2>1, <2>4, AdvancedTwice
    <2>6. QED BY <2>1, <2>4, <2>5
  <1> HIDE DEF G
  <1>5. n \in G
    BY <1>1, <1>3, <1>4, AllReached
  <1> QED BY <1>2, <1>5 DEF G

LEMMA EarnedKeeps ==
  ASSUME NEW b, NEW u \in Uses, case \in Cases, BooksSound(b, u, case), NEW n \in 0..Len(Paid)
  PROVE  /\ BooksSound(Through(ConfirmEarned, n, b), u, case)
         /\ Advanced(b, Through(ConfirmEarned, n, b))
  <1>1. n \in Nat /\ 1..n \subseteq Event /\ n \in 0..n
    BY Lengths
  <1>2. PICK f : /\ f[0] = b /\ \A i \in 1..n : f[i] = ConfirmEarned(f[i - 1], i)
                 /\ Through(ConfirmEarned, n, b) = f[n]
    BY <1>1, LoopEarned
  <1> DEFINE G == {i \in 0..n : BooksSound(f[i], u, case) /\ Advanced(b, f[i])}
  <1>3. 0 \in G
    BY <1>1, <1>2, AdvancedNot
  <1>4. ASSUME NEW i \in 1..n, i - 1 \in G PROVE i \in G
    <2> DEFINE a == f[i - 1]
    <2>1. BooksSound(a, u, case) /\ Advanced(b, a) /\ i \in Event /\ i \in 0..n
      BY <1>1, <1>4
    <2>2. f[i] = ConfirmEarned(a, i)
      BY <1>2
    <2> HIDE DEF a
    <2>3. BooksSound(Confirm(a, i), u, case) /\ Advanced(a, Confirm(a, i))
      BY <2>1, ConfirmKeeps
    <2>4. BooksSound(f[i], u, case) /\ Advanced(a, f[i])
      BY <2>1, <2>2, <2>3, AdvancedNot DEF ConfirmEarned
    <2>5. Advanced(b, f[i])
      BY <2>1, <2>4, AdvancedTwice
    <2>6. QED BY <2>1, <2>4, <2>5
  <1> HIDE DEF G
  <1>5. n \in G
    BY <1>1, <1>3, <1>4, AllReached
  <1> QED BY <1>2, <1>5 DEF G

LEMMA LateKeeps ==
  ASSUME NEW b, NEW u \in Uses, case \in Cases, BooksSound(b, u, case), NEW n \in 0..Len(Paid)
  PROVE  /\ BooksSound(Through(ReleaseLate, n, b), u, case)
         /\ Advanced(b, Through(ReleaseLate, n, b))
  <1>1. n \in Nat /\ 1..n \subseteq Event /\ n \in 0..n
    BY Lengths
  <1>2. PICK f : /\ f[0] = b /\ \A i \in 1..n : f[i] = ReleaseLate(f[i - 1], i)
                 /\ Through(ReleaseLate, n, b) = f[n]
    BY <1>1, LoopLate
  <1> DEFINE G == {i \in 0..n : BooksSound(f[i], u, case) /\ Advanced(b, f[i])}
  <1>3. 0 \in G
    BY <1>1, <1>2, AdvancedNot
  <1>4. ASSUME NEW i \in 1..n, i - 1 \in G PROVE i \in G
    <2> DEFINE a == f[i - 1]
    <2>1. BooksSound(a, u, case) /\ Advanced(b, a) /\ i \in Event /\ i \in 0..n
      BY <1>1, <1>4
    <2>2. f[i] = ReleaseLate(a, i)
      BY <1>2
    <2> HIDE DEF a
    <2>3. ASSUME Frozen(a, i)
          PROVE  BooksSound(Release(a, i), u, case) /\ Advanced(a, Release(a, i))
      BY <2>1, <2>3, ReleaseKeeps
    <2>4. BooksSound(f[i], u, case) /\ Advanced(a, f[i])
      BY <2>1, <2>2, <2>3, AdvancedNot DEF ReleaseLate
    <2>5. Advanced(b, f[i])
      BY <2>1, <2>4, AdvancedTwice
    <2>6. QED BY <2>1, <2>4, <2>5
  <1> HIDE DEF G
  <1>5. n \in G
    BY <1>1, <1>3, <1>4, AllReached
  <1> QED BY <1>2, <1>5 DEF G

LEMMA CustomerKeeps ==
  ASSUME NEW b, NEW u \in Uses, case \in Cases, BooksSound(b, u, case), ripe \in 0..Len(Paid)
  PROVE  BooksSound(AdvanceCustomer(b), u, case) /\ Advanced(b, AdvanceCustomer(b))
  BY DueKeeps DEF AdvanceCustomer

LEMMA PromoterKeeps ==
  ASSUME NEW b, NEW u \in Uses, case \in Cases, BooksSound(b, u, case), ripe \in 0..Len(Paid)
  PROVE  BooksSound(AdvancePromoter(b), u, case) /\ Advanced(b, AdvancePromoter(b))
  <1> DEFINE f == Through(ConfirmEarned, ripe, b)
             l == Through(ReleaseLate, ripe, f)
  <1>1. BooksSound(f, u, case) /\ Advanced(b, f)
    BY EarnedKeeps
  <1> HIDE DEF f
  <1>2. BooksSound(l, u, case) /\ Advanced(f, l)
    BY <1>1, LateKeeps
  <1> HIDE DEF l
  <1>3. BooksSound(SettleOffsets(l), u, case) /\ Advanced(l, SettleOffsets(l))
    BY <1>2, SettleOffsetsKeeps
  <1>4. Advanced(b, SettleOffsets(l))
    BY <1>1, <1>2, <1>3, AdvancedTwice
  <1>5. AdvancePromoter(b) = SettleOffsets(l)
    BY DEF AdvancePromoter, f, l
  <1> QED BY <1>3, <1>4, <1>5

-----------------------------------------------------------------------------
(* Earning.                                                                *)

(* What Earn does: the event counts, and a is frozen for it.               *)
EarnedOf(b, r, e, a) ==
  /\ r \in Books
  /\ r.based[e] = TRUE /\ \A y \in Event : y # e => r.based[y] = b.based[y]
  /\ r.carry.base = b.carry.base + Paid[e]
  /\ r.carry.credited = b.carry.credited + a /\ r.carry.reversed = b.carry.reversed
  /\ a = 0 => r.entry[e] = b.entry[e]
  /\ a # 0 => r.entry[e] = [status |-> "frozen", amount |-> a, reversed |-> 0]
  /\ \A y \in Event : y # e => r.entry[y] = b.entry[y]
  /\ r.frozen = b.frozen + a
  /\ r.event = b.event /\ r.corrected = b.corrected
  /\ r.lot = b.lot /\ r.lots = b.lots /\ r.pending = b.pending
  /\ r.available = b.available /\ r.held = b.held /\ r.paidOut = b.paidOut
  /\ r.credit = b.credit /\ r.source = b.source /\ r.block = b.block /\ r.hold = b.hold

CarryMoved(k, x, y) == [k EXCEPT !.base = k.base + x, !.credited = k.credited + y]

LEMMA CarryMoves ==
  ASSUME NEW k \in Carry, NEW x \in Nat, NEW y \in Nat
  PROVE  CarryMoved(k, x, y)
           = [base |-> k.base + x, credited |-> k.credited + y, reversed |-> k.reversed]
  <1> DEFINE M == [k EXCEPT !.base = k.base + x]
             K == [M EXCEPT !.credited = k.credited + y]
             C == [base |-> k.base + x, credited |-> k.credited + y, reversed |-> k.reversed]
  <1>1. k.base \in Nat /\ k.credited \in Nat /\ k.reversed \in Nat
    BY DEF Carry
  <1>2. /\ K \in Carry /\ K.base = k.base + x /\ K.credited = k.credited + y
        /\ K.reversed = k.reversed
    <2>1. M \in Carry /\ M.base = k.base + x /\ M.reversed = k.reversed
      BY <1>1 DEF Carry
    <2> HIDE DEF M
    <2>2. QED BY <1>1, <2>1 DEF Carry
  <1>3. /\ C \in Carry /\ C.base = k.base + x /\ C.credited = k.credited + y
        /\ C.reversed = k.reversed
    BY <1>1 DEF Carry
  <1> HIDE DEF K, C
  <1>4. K = C
    BY <1>2, <1>3 DEF Carry
  <1> QED BY <1>4 DEF K, C, M, CarryMoved

LEMMA EarnEffect ==
  ASSUME NEW b \in Books, NEW e \in Event,
         NEW a \in Nat, a = Target(b.carry.base + Paid[e]) - (b.carry.credited - b.carry.reversed)
  PROVE  EarnedOf(b, Earn(b, e), e, a)
  <1> DEFINE T == [b.based EXCEPT ![e] = TRUE]
             C == [base |-> b.carry.base + Paid[e], credited |-> b.carry.credited + a,
                   reversed |-> b.carry.reversed]
             new == [status |-> "frozen", amount |-> a, reversed |-> 0]
             E == [b.entry EXCEPT ![e] = new]
             F == b.frozen + a
             n == [b EXCEPT !.based = T, !.carry = C]
             r == [b EXCEPT !.based = T, !.carry = C, !.entry = E, !.frozen = F]
  <1>1. /\ b.based \in [Event -> BOOLEAN] /\ b.entry \in [Event -> Entry]
        /\ b.carry \in Carry /\ b.frozen \in Nat /\ Paid[e] \in Nat
        /\ b.carry.base \in Nat /\ b.carry.credited \in Nat /\ b.carry.reversed \in Nat
    BY Fields, LotFields, Lengths
  <1>2. [b EXCEPT !.based[e] = TRUE, !.carry.base = b.carry.base + Paid[e],
                  !.carry.credited = @ + a] = n
    <2>1. CarryMoved(b.carry, Paid[e], a) = C
      BY <1>1, CarryMoves
    <2>2. [b EXCEPT !.based[e] = TRUE, !.carry.base = b.carry.base + Paid[e],
                    !.carry.credited = @ + a]
            = [b EXCEPT !.based = T, !.carry = CarryMoved(b.carry, Paid[e], a)]
      BY DEF Books, Carry, CarryMoved
    <2> HIDE DEF C, T
    <2>3. QED BY <2>1, <2>2
  <1>3. Earn(b, e) = IF a = 0 THEN n
                     ELSE [n EXCEPT !.entry[e] = new, !.frozen = @ + a]
    <2>1. Target(b.carry.base + Paid[e]) - (b.carry.credited - b.carry.reversed) = a
      OBVIOUS
    <2>2. QED BY <1>2, <2>1 DEF Earn
  <1>4. [n EXCEPT !.entry[e] = new, !.frozen = @ + a] = r
    <2> HIDE DEF T, C, new
    <2>1. n.entry = b.entry /\ n.frozen = b.frozen
      BY DEF Books
    <2>2. QED BY <2>1 DEF Books
  <1>5. /\ T \in [Event -> BOOLEAN] /\ T[e] = TRUE
        /\ \A y \in Event : y # e => T[y] = b.based[y]
    BY <1>1
  <1>6. C \in Carry /\ C.base = b.carry.base + Paid[e] /\ C.credited = b.carry.credited + a
        /\ C.reversed = b.carry.reversed
    BY <1>1 DEF Carry
  <1>7. new \in Entry
    BY DEF Entry, EntryStatus
  <1>8. /\ E \in [Event -> Entry] /\ E[e] = new
        /\ \A y \in Event : y # e => E[y] = b.entry[y]
    <2> HIDE DEF new
    <2>1. QED BY <1>1, <1>7
  <1>9. F \in Nat
    BY <1>1
  <1> HIDE DEF T, C, E, F
  <1>10. ASSUME a = 0 PROVE EarnedOf(b, n, e, a)
    <2>1. /\ n \in Books /\ n.based = T /\ n.carry = C /\ n.entry = b.entry
          /\ n.frozen = b.frozen
          /\ n.event = b.event /\ n.corrected = b.corrected
          /\ n.lot = b.lot /\ n.lots = b.lots /\ n.pending = b.pending
          /\ n.available = b.available /\ n.held = b.held /\ n.paidOut = b.paidOut
          /\ n.credit = b.credit /\ n.source = b.source /\ n.block = b.block /\ n.hold = b.hold
      BY <1>5, <1>6 DEF Books
    <2>2. n.frozen = b.frozen + a
      BY <1>1, <1>10, <2>1
    <2> HIDE DEF n, new
    <2>3. QED BY <1>5, <1>6, <1>10, <2>1, <2>2 DEF EarnedOf
  <1>11. ASSUME a # 0 PROVE EarnedOf(b, r, e, a)
    <2>1. /\ r \in Books /\ r.based = T /\ r.carry = C /\ r.entry = E /\ r.frozen = F
          /\ r.event = b.event /\ r.corrected = b.corrected
          /\ r.lot = b.lot /\ r.lots = b.lots /\ r.pending = b.pending
          /\ r.available = b.available /\ r.held = b.held /\ r.paidOut = b.paidOut
          /\ r.credit = b.credit /\ r.source = b.source /\ r.block = b.block /\ r.hold = b.hold
      BY <1>5, <1>6, <1>8, <1>9 DEF Books
    <2>2. r.entry[e] = [status |-> "frozen", amount |-> a, reversed |-> 0]
      BY <1>8, <2>1
    <2> HIDE DEF r, new
    <2>3. QED BY <1>5, <1>6, <1>8, <1>11, <2>1, <2>2 DEF EarnedOf, F
  <1> HIDE DEF n, r, new
  <1> QED BY <1>3, <1>4, <1>10, <1>11

LEMMA EarnKeeps ==
  ASSUME NEW b, NEW u \in Uses, NEW c, BooksSound(b, u, c), EarnedSound(b),
         NEW e \in Event, Untouched(b, e - 1)
  PROVE  /\ BooksSound(Earn(b, e), u, c) /\ EarnedSound(Earn(b, e))
         /\ Untouched(Earn(b, e), e)
  <1> DEFINE r == Earn(b, e)
             a == Target(b.carry.base + Paid[e]) - (b.carry.credited - b.carry.reversed)
  <1>1. /\ b \in Books /\ LotsSound(b, u) /\ EntriesSound(b) /\ Whole(b) /\ FlagsSound(b, c)
    BY DEF BooksSound
  <1>2. Paid[e] \in Nat /\ e \in Nat /\ e > e - 1 /\ b.carry.base \in Nat
    BY <1>1, Lengths, LotFields
  <1>3. b.entry[e].status = "none" /\ b.based[e] = FALSE /\ b.corrected[e] = 0
    <2>1. b.entry[e].status = "none" /\ ~b.based[e] /\ b.corrected[e] = 0
      BY <1>2 DEF Untouched
    <2>2. b.based[e] \in BOOLEAN
      BY <1>1, Fields
    <2>3. QED BY <2>1, <2>2
  <1>4. /\ b.carry.credited - b.carry.reversed = Target(b.carry.base)
        /\ Total(LeftIn(b), Event) = Target(b.carry.base)
        /\ b.carry.base = Total(BaseIn(b), Event)
        /\ \A y \in Event : b.corrected[y] <= Paid[y]
    BY DEF EarnedSound
  <1>5. a \in Nat /\ Target(b.carry.base) \in Nat
        /\ Target(b.carry.base + Paid[e]) = Target(b.carry.base) + a
    <2>1. b.carry.base + Paid[e] \in Nat /\ b.carry.base <= b.carry.base + Paid[e]
      BY <1>2
    <2>2. /\ Target(b.carry.base) \in Nat /\ Target(b.carry.base + Paid[e]) \in Nat
          /\ Target(b.carry.base) <= Target(b.carry.base + Paid[e])
      BY <1>2, <2>1, TargetRises
    <2>3. QED BY <1>4, <2>2
  <1> HIDE DEF a
  <1>6. EarnedOf(b, r, e, a)
    BY <1>1, <1>5, EarnEffect DEF a
  <1> HIDE DEF r
  <1>7. /\ r \in Books
        /\ r.based[e] = TRUE /\ \A y \in Event : y # e => r.based[y] = b.based[y]
        /\ r.carry.base = b.carry.base + Paid[e]
        /\ r.carry.credited = b.carry.credited + a /\ r.carry.reversed = b.carry.reversed
        /\ \A y \in Event : y # e => r.entry[y] = b.entry[y]
        /\ r.frozen = b.frozen + a /\ r.corrected = b.corrected
        /\ r.lot = b.lot /\ r.lots = b.lots /\ r.pending = b.pending
        /\ r.available = b.available /\ r.held = b.held /\ r.paidOut = b.paidOut
        /\ r.source = b.source /\ r.block = b.block /\ r.hold = b.hold
    BY <1>6 DEF EarnedOf
  <1>8. LeftOf(b, e) = 0 /\ LeftOf(r, e) = a
    <2>1. LeftOf(b, e) = 0
      <3>1. LeftOf(b, e) \in Nat
        BY <1>1, LeftIsNat
      <3>2. ~(LeftOf(b, e) > 0)
        BY <1>1, <1>3 DEF EntriesSound
      <3>3. QED BY <3>1, <3>2
    <2>2. CASE a = 0
      <3>1. r.entry[e] = b.entry[e]
        BY <1>6, <2>2 DEF EarnedOf
      <3>2. QED BY <2>1, <2>2, <3>1 DEF LeftOf
    <2>3. CASE a # 0
      <3>1. r.entry[e] = [status |-> "frozen", amount |-> a, reversed |-> 0]
        BY <1>6, <2>3 DEF EarnedOf
      <3>2. r.entry[e].amount = a /\ r.entry[e].reversed = 0
        BY <3>1
      <3>3. LeftOf(r, e) = a
        BY <1>5, <3>2 DEF LeftOf
      <3>4. QED BY <2>1, <3>3
    <2>4. QED BY <2>2, <2>3
  <1>9. \A y \in Event : y # e => LeftOf(r, y) = LeftOf(b, y)
    BY <1>7 DEF LeftOf
  <1>10. r.entry[e].status = IF a = 0 THEN "none" ELSE "frozen"
    BY <1>3, <1>6 DEF EarnedOf
  <1>11. LotsSound(r, u)
    <2>1. \A y \in Event : Awaits(r, y) <=> Awaits(b, y)
      BY <1>3, <1>7, <1>10 DEF Awaits
    <2>2. QED BY <1>1, <1>7, <2>1, LotsSame
  <1>12. \A y \in Event : LeftOf(b, y) \in Nat /\ LeftOf(r, y) \in Nat
    BY <1>1, <1>5, <1>8, <1>9, LeftIsNat
  <1>13. Total(LeftIn(r), Event) = Total(LeftIn(b), Event) + a
         /\ Total(LeftIn(b), Event) \in Nat
    <2> DEFINE f == LeftIn(b)
               g == LeftIn(r)
    <2>1. \A y \in Event : f[y] \in Int /\ g[y] \in Int
      BY <1>12 DEF LeftIn
    <2>2. \A y \in Event : y # e => f[y] = g[y]
      BY <1>9 DEF LeftIn
    <2>3. f[e] = 0 /\ g[e] = a
      BY <1>8 DEF LeftIn
    <2>4. Total(f, Event) \in Nat
      BY <1>1, LeftIsNat
    <2> HIDE DEF f, g
    <2>5. Total(g, Event) = Total(f, Event) + g[e] - f[e]
      BY <2>1, <2>2, EventChange
    <2>6. Total(g, Event) = Total(f, Event) + a
      BY <1>5, <2>3, <2>4, <2>5
    <2>7. QED BY <2>4, <2>6 DEF f, g
  <1>14. EntriesSound(r)
    <2>1. \A y \in Event :
            /\ LeftOf(r, y) >= 0
            /\ r.entry[y].status \in {"frozen", "available"} <=> LeftOf(r, y) > 0
      <3> TAKE y \in Event
      <3>1. CASE y = e
        BY <1>5, <1>8, <1>10, <3>1
      <3>2. CASE y # e
        BY <1>1, <1>7, <1>9, <3>2 DEF EntriesSound
      <3>3. QED BY <3>1, <3>2
    <2>2. r.frozen = Total(FrozenIn(r), Event)
      <3> DEFINE f == FrozenIn(b)
                 g == FrozenIn(r)
      <3>1. \A y \in Event : f[y] \in Int /\ g[y] \in Int
        BY <1>12 DEF FrozenIn
      <3>2. \A y \in Event : y # e => f[y] = g[y]
        BY <1>7, <1>9 DEF FrozenIn, Frozen
      <3>3. f[e] = 0 /\ g[e] = a
        BY <1>3, <1>8, <1>10 DEF FrozenIn, Frozen
      <3>4. b.frozen = Total(f, Event) /\ b.frozen \in Nat
        BY <1>1, Fields DEF EntriesSound
      <3> HIDE DEF f, g
      <3>5. Total(g, Event) = Total(f, Event) + g[e] - f[e]
        BY <3>1, <3>2, EventChange
      <3>6. Total(g, Event) = r.frozen
        BY <1>5, <1>7, <3>3, <3>4, <3>5
      <3>7. QED BY <3>6 DEF g
    <2>3. QED BY <2>1, <2>2 DEF EntriesSound
  <1>15. Whole(r)
    <2>1. PICK t \in Nat, p \in Nat, f \in Nat, v \in Nat, w \in Nat :
            /\ t = Total(LeftIn(b), Event) /\ p = b.pending /\ f = b.frozen
            /\ v = b.available /\ w = b.paidOut
      BY <1>1, <1>13, Fields
    <2>2. t + p = f + v + w
      BY <1>1, <2>1 DEF Whole
    <2>3. (t + a) + p = (f + a) + v + w
      BY <1>5, <2>2
    <2>4. Total(LeftIn(r), Event) + r.pending = r.frozen + r.available + r.paidOut
      BY <1>7, <1>13, <2>1, <2>3
    <2>5. QED BY <2>4 DEF Whole
  <1>16. FlagsSound(r, c)
    BY <1>1, <1>7 DEF FlagsSound
  <1>17. EarnedSound(r)
    <2>1. r.carry.base = Total(BaseIn(r), Event)
      <3> DEFINE f == BaseIn(b)
                 g == BaseIn(r)
      <3>1. \A y \in Event : f[y] \in Int /\ g[y] \in Int
        <4>1. \A y \in Event : Paid[y] - b.corrected[y] \in Int
          <5>1. Paid \in [Event -> Nat \ {0}] /\ b.corrected \in [Event -> Nat]
            BY <1>1, Lengths, Fields
          <5>2. QED BY <5>1
        <4>2. QED BY <1>7, <4>1 DEF BaseIn
      <3>2. \A y \in Event : y # e => f[y] = g[y]
        BY <1>7 DEF BaseIn
      <3>3. f[e] = 0 /\ g[e] = Paid[e]
        BY <1>2, <1>3, <1>7 DEF BaseIn
      <3>4. b.carry.base = Total(f, Event)
        BY <1>4
      <3> HIDE DEF f, g
      <3>5. Total(g, Event) = Total(f, Event) + g[e] - f[e]
        BY <3>1, <3>2, EventChange
      <3>6. Total(g, Event) = r.carry.base
        BY <1>2, <1>7, <3>3, <3>4, <3>5
      <3>7. QED BY <3>6 DEF g
    <2>2. Total(LeftIn(r), Event) = Target(r.carry.base)
      BY <1>4, <1>5, <1>7, <1>13
    <2>3. r.carry.credited - r.carry.reversed = Total(LeftIn(r), Event)
      <3>1. b.carry.credited \in Nat /\ b.carry.reversed \in Nat
        BY <1>1, LotFields
      <3>2. QED BY <1>4, <1>5, <1>7, <1>13, <3>1
    <2>4. QED BY <1>4, <1>7, <2>1, <2>2, <2>3 DEF EarnedSound
  <1>18. Untouched(r, e)
    <2> SUFFICES ASSUME NEW y \in Event, y > e
                 PROVE  r.entry[y].status = "none" /\ ~r.based[y] /\ r.corrected[y] = 0
      BY DEF Untouched
    <2>1. y # e /\ y > e - 1
      BY <1>2, Lengths
    <2>2. QED BY <1>7, <2>1 DEF Untouched
  <1>19. BooksSound(r, u, c)
    BY <1>7, <1>11, <1>14, <1>15, <1>16 DEF BooksSound
  <1> QED BY <1>17, <1>18, <1>19 DEF r

(* The books of an order of which the first n events were observed.        *)
OrderSound(b, u, c, n) == BooksSound(b, u, c) /\ EarnedSound(b) /\ Untouched(b, n)

LEMMA AdvanceIsSound ==
  ASSUME NEW b, NEW u, NEW c, NEW n, OrderSound(b, u, c, n), NEW r,
         BooksSound(r, u, c), Advanced(b, r)
  PROVE  OrderSound(r, u, c, n)
  BY EarnedSame, UntouchedSame DEF OrderSound

(* An event is observed: it is flagged, and its money is no longer unused. *)
Seen(b, e, F) ==
  [b EXCEPT !.event[e] = "pending", !.credit = @ - Paid[e],
            !.source = [d \in Dispute |-> IF d \in F THEN @[d] \cup {e} ELSE @[d]]]

LEMMA SeenIsSound ==
  ASSUME NEW b, NEW u, NEW c, NEW n, OrderSound(b, u, c, n), NEW e \in Event,
         Paid[e] <= b.credit,
         NEW F \in SUBSET Dispute, \A d \in F : c[d].state = "disputed" /\ c[d].den > 0
  PROVE  OrderSound(Seen(b, e, F), u, c, n)
  <1> DEFINE E == [b.event EXCEPT ![e] = "pending"]
             K == b.credit - Paid[e]
             S == [d \in Dispute |-> IF d \in F THEN b.source[d] \cup {e} ELSE b.source[d]]
             r == [b EXCEPT !.event = E, !.credit = K, !.source = S]
  <1>1. BooksSound(b, u, c) /\ EarnedSound(b) /\ Untouched(b, n)
    BY DEF OrderSound
  <1>2. /\ b \in Books /\ b.event \in [Event -> EventStatus] /\ b.credit \in Nat
        /\ b.source \in [Dispute -> SUBSET Event] /\ Paid[e] \in Nat /\ FlagsSound(b, c)
    BY <1>1, Fields, Lengths DEF BooksSound
  <1>3. E \in [Event -> EventStatus] /\ K \in Nat /\ S \in [Dispute -> SUBSET Event]
    BY <1>2 DEF EventStatus
  <1>4. Seen(b, e, F) = r
    BY DEF Seen, Books
  <1>5. \A d \in Dispute : S[d] # {} => b.source[d] # {} \/ d \in F
    OBVIOUS
  <1>6. \A d \in Dispute : d \notin F => S[d] = b.source[d]
    OBVIOUS
  <1> HIDE DEF E, K, S
  <1>7. /\ r \in Books /\ r.source = S /\ r.lot = b.lot /\ r.lots = b.lots
        /\ r.entry = b.entry
        /\ r.block = b.block /\ r.hold = b.hold /\ r.pending = b.pending
        /\ r.frozen = b.frozen /\ r.available = b.available /\ r.held = b.held
        /\ r.paidOut = b.paidOut /\ r.corrected = b.corrected /\ r.based = b.based
        /\ r.carry = b.carry
    BY <1>2, <1>3 DEF Books
  <1> HIDE DEF r
  <1>8. LotsSound(r, u) /\ EntriesSound(r) /\ Whole(r) /\ LeftIn(r) = LeftIn(b)
    BY <1>1, <1>7, MoneySame
  <1>9. FlagsSound(r, c)
    <2> SUFFICES ASSUME NEW d \in Dispute
                 PROVE  /\ c[d].state # "disputed" => /\ r.source[d] = {} /\ r.block[d] = Nothing
                                                      /\ r.hold[d] = Nothing
                        /\ r.source[d] # {} => c[d].den > 0
                        /\ c[d].num <= c[d].den
                        /\ ~c[d].applied => r.hold[d] = Nothing
      BY DEF FlagsSound
    <2>1. /\ c[d].state # "disputed" => /\ b.source[d] = {} /\ b.block[d] = Nothing
                                        /\ b.hold[d] = Nothing
          /\ b.source[d] # {} => c[d].den > 0
          /\ c[d].num <= c[d].den
          /\ ~c[d].applied => b.hold[d] = Nothing
      BY <1>2 DEF FlagsSound
    <2>2. d \in F => c[d].state = "disputed" /\ c[d].den > 0
      OBVIOUS
    <2>3. QED BY <1>5, <1>6, <1>7, <2>1, <2>2
  <1>10. EarnedSound(r)
    <2>1. BaseIn(r) = BaseIn(b)
      BY <1>7 DEF BaseIn
    <2>2. QED BY <1>1, <1>7, <1>8, <2>1 DEF EarnedSound
  <1>11. Untouched(r, n)
    BY <1>1, <1>7 DEF Untouched
  <1>12. BooksSound(r, u, c)
    BY <1>7, <1>8, <1>9 DEF BooksSound
  <1> QED BY <1>4, <1>10, <1>11, <1>12 DEF OrderSound

LEMMA InvIs ==
  CommissionsInv <=> /\ Others /\ OrderSound(books, use, case, accrued) /\ UsesSound(use)
                     /\ ClaimsSound(case, accrued)
  BY DEF CommissionsInv, OrderSound

LEMMA AccrueStep ==
  ASSUME CommissionsInv, NEW kind, AccrueGrantEvent(kind)
  PROVE  CommissionsInv'
  <1> DEFINE e == accrued + 1
             flags == {d \in Dispute : case[d].state = "disputed" /\ case[d].den > 0
                                         /\ ~case[d].applied}
             seen == Seen(books, e, flags)
             advanced == IF kind = "expiry" THEN seen ELSE AdvancePromoter(seen)
             earned == IF kind = "eligible" THEN Earn(advanced, e) ELSE advanced
  <1>1. /\ accrued \in 0..Len(Paid) /\ ripe \in 0..accrued /\ use \in Uses /\ case \in Cases
        /\ OrderSound(books, use, case, accrued) /\ UsesSound(use) /\ Others
        /\ ClaimsSound(case, accrued)
    BY InvIs DEF Others
  <1>2. /\ accrued < Len(Paid) /\ Paid[e] <= books.credit /\ accrued' = e
        /\ books' = AdvanceCustomer(earned)
        /\ UNCHANGED <<ripe, blocked, use, case, fixed>>
    BY DEF AccrueGrantEvent, Seen
  <1>3. e \in Event /\ e \in 0..Len(Paid) /\ e - 1 = accrued /\ ripe \in 0..Len(Paid)
        /\ ripe \in 0..e
    BY <1>1, <1>2, Lengths
  <1>4. OrderSound(seen, use, case, accrued)
    <2>1. flags \in SUBSET Dispute
          /\ \A d \in flags : case[d].state = "disputed" /\ case[d].den > 0
      OBVIOUS
    <2> HIDE DEF flags, e
    <2>2. QED BY <1>1, <1>2, <1>3, <2>1, SeenIsSound
  <1> HIDE DEF seen
  <1>5. OrderSound(advanced, use, case, accrued)
    <2>1. ASSUME kind # "expiry" PROVE OrderSound(AdvancePromoter(seen), use, case, accrued)
      <3>1. /\ BooksSound(AdvancePromoter(seen), use, case)
            /\ Advanced(seen, AdvancePromoter(seen))
        BY <1>1, <1>3, <1>4, PromoterKeeps DEF OrderSound
      <3>2. QED BY <1>4, <3>1, AdvanceIsSound
    <2>2. QED BY <1>4, <2>1
  <1> HIDE DEF advanced, e
  <1>6. OrderSound(earned, use, case, e)
    <2>1. OrderSound(advanced, use, case, e)
      <3>1. \A y \in Event : y > e => y > accrued
        BY <1>1, <1>3, Lengths
      <3>2. QED BY <1>5, <3>1 DEF OrderSound, Untouched
    <2>2. ASSUME kind = "eligible" PROVE OrderSound(Earn(advanced, e), use, case, e)
      BY <1>1, <1>3, <1>5, EarnKeeps DEF OrderSound
    <2>3. QED BY <2>1, <2>2
  <1> HIDE DEF earned
  <1>7. OrderSound(AdvanceCustomer(earned), use, case, e)
    <2>1. /\ BooksSound(AdvanceCustomer(earned), use, case)
          /\ Advanced(earned, AdvanceCustomer(earned))
      BY <1>1, <1>3, <1>6, CustomerKeeps DEF OrderSound
    <2>2. QED BY <1>6, <2>1, AdvanceIsSound
  <1>8. OrderSound(books', use', case', accrued')
    BY <1>2, <1>7
  <1>9. Others' /\ UsesSound(use') /\ ClaimsSound(case', accrued')
    <2>1. \A y \in Event : y <= accrued => y <= e
      BY <1>1, <1>3, Lengths
    <2>2. QED BY <1>1, <1>2, <1>3, <2>1 DEF Others, ClaimsSound
  <1> QED BY <1>8, <1>9 DEF CommissionsInv, OrderSound

LEMMA RipenStep ==
  ASSUME CommissionsInv, Ripen
  PROVE  CommissionsInv'
  <1>1. /\ ripe < accrued /\ ripe' = ripe + 1
        /\ UNCHANGED <<books, accrued, blocked, use, case, fixed>>
    BY DEF Ripen
  <1>2. Others'
    <2>1. accrued \in 0..Len(Paid) /\ ripe \in 0..accrued
      BY DEF CommissionsInv, Others
    <2>2. accrued \in Nat /\ ripe + 1 \in 0..accrued
      BY <1>1, <2>1, Lengths
    <2>3. QED BY <1>1, <2>2 DEF CommissionsInv, Others
  <1> QED BY <1>1, <1>2 DEF CommissionsInv

LEMMA AdvanceStepKeeps ==
  ASSUME CommissionsInv, Advance
  PROVE  CommissionsInv'
  <1>1. /\ accrued \in 0..Len(Paid) /\ ripe \in 0..accrued /\ use \in Uses /\ case \in Cases
        /\ OrderSound(books, use, case, accrued) /\ UsesSound(use) /\ Others
        /\ ClaimsSound(case, accrued)
        /\ BooksSound(books, use, case) /\ ripe \in 0..Len(Paid)
    <2>1. accrued \in 0..Len(Paid) /\ ripe \in 0..accrued
      BY InvIs DEF Others
    <2>2. ripe \in 0..Len(Paid)
      BY <2>1, Lengths
    <2>3. QED BY <2>1, <2>2, InvIs DEF Others, OrderSound
  <1>2. /\ books' = AdvanceCustomer(books) \/ books' = AdvancePromoter(books)
        /\ UNCHANGED <<accrued, ripe, blocked, use, case, fixed>>
    BY DEF Advance, AdvanceStep
  <1>3. BooksSound(books', use, case) /\ Advanced(books, books')
    <2>1. BooksSound(AdvanceCustomer(books), use, case) /\ Advanced(books, AdvanceCustomer(books))
      BY <1>1, CustomerKeeps
    <2>2. BooksSound(AdvancePromoter(books), use, case) /\ Advanced(books, AdvancePromoter(books))
      BY <1>1, PromoterKeeps
    <2>3. QED BY <1>2, <2>1, <2>2
  <1>4. OrderSound(books', use, case, accrued)
    BY <1>1, <1>3, AdvanceIsSound
  <1> QED BY <1>1, <1>2, <1>4 DEF CommissionsInv, OrderSound, Others

LEMMA StateStep ==
  ASSUME CommissionsInv, NEW stop \in BOOLEAN, SetFunctionState(stop)
  PROVE  CommissionsInv'
  <1>1. /\ accrued \in 0..Len(Paid) /\ ripe \in 0..accrued /\ use \in Uses /\ case \in Cases
        /\ OrderSound(books, use, case, accrued) /\ UsesSound(use) /\ Others
        /\ ClaimsSound(case, accrued)
        /\ BooksSound(books, use, case) /\ ripe \in 0..Len(Paid)
    <2>1. accrued \in 0..Len(Paid) /\ ripe \in 0..accrued
      BY InvIs DEF Others
    <2>2. ripe \in 0..Len(Paid)
      BY <2>1, Lengths
    <2>3. QED BY <2>1, <2>2, InvIs DEF Others, OrderSound
  <1>2. /\ books' = AdvancePromoter(books) /\ blocked' = stop
        /\ UNCHANGED <<accrued, ripe, use, case, fixed>>
    BY DEF SetFunctionState
  <1>3. BooksSound(books', use, case) /\ Advanced(books, books')
    BY <1>1, <1>2, PromoterKeeps
  <1>4. OrderSound(books', use, case, accrued)
    BY <1>1, <1>3, AdvanceIsSound
  <1> QED BY <1>1, <1>2, <1>4 DEF CommissionsInv, OrderSound, Others

-----------------------------------------------------------------------------
(* Corrections.                                                            *)

(* The entry's own lot gives first, the others what is missing.            *)
OwnShares(b, e, take) ==
  LET limit == Spendable(b)
      own   == Least(take, limit[e])
      rest  == Shares(b.lots, [limit EXCEPT ![e] = @ - own], take - own)
  IN  [rest EXCEPT ![e] = @ + own]

LEMMA OwnFirst ==
  ASSUME NEW b \in Books, NEW u \in Uses, LotsSound(b, u), NEW e \in Event,
         NEW take \in Nat, take <= Total(Spendable(b), Event)
  PROVE  /\ OwnShares(b, e, take) \in [Event -> Nat]
         /\ \A y \in Event : OwnShares(b, e, take)[y] <= Spendable(b)[y]
         /\ Total(OwnShares(b, e, take), Event) = take
  <1> DEFINE limit == Spendable(b)
             own == Least(take, limit[e])
             less == [limit EXCEPT ![e] = limit[e] - own]
             rest == Shares(b.lots, less, take - own)
             s == [rest EXCEPT ![e] = rest[e] + own]
  <1>1. /\ limit \in [Event -> Nat] /\ Total(limit, Event) \in Nat
        /\ b.lots \in Seq(Event) /\ Distinct(b.lots)
        /\ \A y \in Event : limit[y] > 0 => y \in Range(b.lots)
    BY SpendableFits
  <1>2. OwnShares(b, e, take) = s
    BY DEF OwnShares
  <1>3. take <= Total(limit, Event)
    OBVIOUS
  <1> HIDE DEF limit
  <1>4. own \in Nat /\ own <= take /\ own <= limit[e] /\ take - own \in Nat
    BY <1>1 DEF Least
  <1> HIDE DEF own
  <1>5. /\ less \in [Event -> Nat] /\ less[e] = limit[e] - own
        /\ \A y \in Event : y # e => less[y] = limit[y]
    BY <1>1, <1>4
  <1> HIDE DEF less
  <1>6. Total(less, Event) = Total(limit, Event) - own
    <2>1. \A y \in Event : limit[y] \in Int /\ less[y] \in Int
      BY <1>1, <1>5
    <2>2. \A y \in Event : y # e => limit[y] = less[y]
      BY <1>5
    <2>3. Total(less, Event) = Total(limit, Event) + less[e] - limit[e]
      BY <2>1, <2>2, EventChange
    <2>4. limit[e] \in Nat
      BY <1>1
    <2>5. QED BY <1>1, <1>4, <1>5, <2>3, <2>4
  <1>7. rest \in [Event -> Nat] /\ \A y \in Event : rest[y] <= less[y]
    BY <1>1, <1>4, <1>5, SharesAddUp
  <1>8. Total(rest, Event) = take - own
    <2>1. take - own <= Total(less, Event)
      BY <1>1, <1>3, <1>4, <1>6
    <2>2. \A y \in Event : less[y] > 0 => y \in Range(b.lots)
      <3> TAKE y \in Event
      <3>1. limit[y] \in Nat /\ less[y] \in Nat
        BY <1>1, <1>5
      <3>2. CASE y = e
        <4>1. less[y] <= limit[y]
          BY <1>4, <1>5, <3>1, <3>2
        <4>2. QED BY <1>1, <3>1, <4>1
      <3>3. CASE y # e
        BY <1>1, <1>5, <3>3
      <3>4. QED BY <3>2, <3>3
    <2>3. QED BY <1>1, <1>4, <1>5, <2>1, <2>2, SharesReachAmount
  <1> HIDE DEF rest
  <1>9. /\ s \in [Event -> Nat] /\ s[e] = rest[e] + own
        /\ \A y \in Event : y # e => s[y] = rest[y]
    BY <1>4, <1>7
  <1> HIDE DEF s
  <1>10. \A y \in Event : s[y] <= limit[y]
    <2> TAKE y \in Event
    <2>1. /\ rest[y] \in Nat /\ less[y] \in Nat /\ limit[y] \in Nat /\ rest[y] <= less[y]
      BY <1>1, <1>5, <1>7
    <2>2. CASE y = e
      BY <1>4, <1>5, <1>9, <2>1, <2>2
    <2>3. CASE y # e
      BY <1>5, <1>9, <2>1, <2>3
    <2>4. QED BY <2>2, <2>3
  <1>11. Total(s, Event) = take
    <2>1. \A y \in Event : rest[y] \in Int /\ s[y] \in Int
      BY <1>7, <1>9
    <2>2. \A y \in Event : y # e => rest[y] = s[y]
      BY <1>9
    <2>3. Total(s, Event) = Total(rest, Event) + s[e] - rest[e]
      BY <2>1, <2>2, EventChange
    <2>4. rest[e] \in Nat
      BY <1>7
    <2>5. QED BY <1>4, <1>8, <1>9, <2>3, <2>4
  <1> QED BY <1>2, <1>9, <1>10, <1>11 DEF limit

(* The entry itself notes what was taken of it.                            *)
Noted(b, e, a) ==
  [b EXCEPT !.entry[e].reversed = b.entry[e].reversed + a,
            !.entry[e].status = IF b.entry[e].reversed + a = b.entry[e].amount
                                THEN "reversed" ELSE @]

OnlyNotes(b, r) ==
  /\ r.event = b.event /\ r.corrected = b.corrected /\ r.based = b.based
  /\ r.carry = b.carry /\ r.lot = b.lot /\ r.lots = b.lots
  /\ r.pending = b.pending /\ r.frozen = b.frozen /\ r.available = b.available
  /\ r.held = b.held /\ r.paidOut = b.paidOut /\ r.credit = b.credit
  /\ r.source = b.source /\ r.block = b.block /\ r.hold = b.hold

LEMMA NotedEffect ==
  ASSUME NEW b \in Books, NEW e \in Event, NEW a \in Nat
  PROVE  LET r == Noted(b, e, a) IN
         /\ r \in Books /\ OnlyNotes(b, r)
         /\ r.entry[e].amount = b.entry[e].amount
         /\ r.entry[e].reversed = b.entry[e].reversed + a
         /\ r.entry[e].status = IF b.entry[e].reversed + a = b.entry[e].amount
                                THEN "reversed" ELSE b.entry[e].status
         /\ \A y \in Event : y # e => r.entry[y] = b.entry[y]
  <1> DEFINE x == IF b.entry[e].reversed + a = b.entry[e].amount
                  THEN "reversed" ELSE b.entry[e].status
             v == b.entry[e].reversed + a
             E1 == [b.entry EXCEPT ![e].reversed = v]
             E == [E1 EXCEPT ![e].status = x]
             r == [b EXCEPT !.entry = E]
  <1>1. /\ b.entry \in [Event -> Entry] /\ b.entry[e].status \in EntryStatus
        /\ b.entry[e].reversed \in Nat /\ b.entry[e].amount \in Nat
    BY Fields, LotFields
  <1>2. v \in Nat /\ x \in EntryStatus
    BY <1>1 DEF EntryStatus
  <1>3. Noted(b, e, a) = r
    <2>1. \A z \in Nat : [b.entry EXCEPT ![e].reversed = z][e].status = b.entry[e].status
      BY <1>1 DEF Entry
    <2>2. QED BY <1>1, <1>2, <2>1 DEF Noted, Books, Entry
  <1> HIDE DEF x, v
  <1>4. /\ E1 \in [Event -> Entry] /\ E1[e].reversed = v /\ E1[e].amount = b.entry[e].amount
        /\ \A y \in Event : y # e => E1[y] = b.entry[y]
    BY <1>1, <1>2 DEF Entry
  <1> HIDE DEF E1
  <1>5. /\ E \in [Event -> Entry] /\ E[e].reversed = v /\ E[e].amount = b.entry[e].amount
        /\ E[e].status = x
        /\ \A y \in Event : y # e => E[y] = b.entry[y]
    BY <1>2, <1>4 DEF Entry
  <1> HIDE DEF E
  <1>6. r \in Books /\ OnlyNotes(b, r) /\ r.entry = E
    BY <1>5 DEF Books, OnlyNotes
  <1> HIDE DEF r
  <1> QED BY <1>3, <1>5, <1>6 DEF x, v

(* What is taken back of an entry leaves all else as it was.               *)
TakenBack(b, r) ==
  /\ r.event = b.event /\ r.corrected = b.corrected /\ r.based = b.based
  /\ r.carry = b.carry /\ r.source = b.source /\ r.block = b.block /\ r.hold = b.hold
  /\ r.paidOut = b.paidOut /\ r.credit = b.credit
  /\ \A e \in Event : r.entry[e].status = "none" <=> b.entry[e].status = "none"

LEMMA TakenTwice ==
  ASSUME NEW a, NEW b, NEW r, TakenBack(a, b), TakenBack(b, r)
  PROVE  TakenBack(a, r)
  BY DEF TakenBack

LEMMA FlagsTaken ==
  ASSUME NEW b, NEW r, NEW c, FlagsSound(b, c), TakenBack(b, r)
  PROVE  FlagsSound(r, c)
  BY DEF FlagsSound, TakenBack

(* Of a frozen entry.                                                      *)
FrozenLess(b, e, a) == [Noted(b, e, a) EXCEPT !.frozen = @ - a]

LEMMA FrozenTaken ==
  ASSUME NEW b, NEW u \in Uses, NEW c, BooksSound(b, u, c), NEW e \in Event, Frozen(b, e),
         NEW a \in Nat, a # 0, a <= LeftOf(b, e)
  PROVE  LET r == FrozenLess(b, e, a) IN
         /\ BooksSound(r, u, c) /\ TakenBack(b, r)
         /\ LeftOf(r, e) = LeftOf(b, e) - a
         /\ \A y \in Event : y # e => LeftOf(r, y) = LeftOf(b, y)
  <1> DEFINE m == Noted(b, e, a)
             r == [m EXCEPT !.frozen = m.frozen - a]
  <1>1. /\ b \in Books /\ LotsSound(b, u) /\ EntriesSound(b) /\ Whole(b) /\ FlagsSound(b, c)
        /\ b.frozen \in Nat /\ b.entry[e].amount \in Nat /\ b.entry[e].reversed \in Nat
        /\ LeftOf(b, e) \in Nat
    BY Fields, LotFields, LeftIsNat DEF BooksSound
  <1>2. /\ m \in Books /\ OnlyNotes(b, m)
        /\ m.entry[e].amount = b.entry[e].amount
        /\ m.entry[e].reversed = b.entry[e].reversed + a
        /\ m.entry[e].status = IF b.entry[e].reversed + a = b.entry[e].amount
                               THEN "reversed" ELSE b.entry[e].status
        /\ \A y \in Event : y # e => m.entry[y] = b.entry[y]
    BY <1>1, NotedEffect
  <1> HIDE DEF m
  <1>3. a <= b.frozen /\ m.frozen = b.frozen /\ m.frozen - a \in Nat
    <2>1. \A y \in Event : FrozenIn(b)[y] \in Nat
      BY <1>1, LeftIsNat
    <2>2. FrozenIn(b)[e] = LeftOf(b, e)
      BY DEF FrozenIn
    <2>3. FrozenIn(b)[e] <= Total(FrozenIn(b), Event)
      BY <2>1, Lengths, SumAtLeast DEF Total
    <2>4. LeftOf(b, e) <= b.frozen
      BY <1>1, <2>2, <2>3 DEF EntriesSound
    <2>5. m.frozen = b.frozen
      BY <1>2 DEF OnlyNotes
    <2>6. QED BY <1>1, <2>4, <2>5
  <1>4. /\ r \in Books /\ r.frozen = b.frozen - a /\ r.entry = m.entry
        /\ r.event = b.event /\ r.corrected = b.corrected /\ r.based = b.based
        /\ r.carry = b.carry /\ r.lot = b.lot /\ r.lots = b.lots
        /\ r.pending = b.pending /\ r.available = b.available
        /\ r.held = b.held /\ r.paidOut = b.paidOut /\ r.credit = b.credit
        /\ r.source = b.source /\ r.block = b.block /\ r.hold = b.hold
    <2>1. /\ r \in Books /\ r.frozen = m.frozen - a /\ r.entry = m.entry
          /\ r.event = m.event /\ r.corrected = m.corrected /\ r.based = m.based
          /\ r.carry = m.carry /\ r.lot = m.lot /\ r.lots = m.lots
          /\ r.pending = m.pending /\ r.available = m.available
          /\ r.held = m.held /\ r.paidOut = m.paidOut /\ r.credit = m.credit
          /\ r.source = m.source /\ r.block = m.block /\ r.hold = m.hold
      BY <1>2, <1>3 DEF Books
    <2> HIDE DEF r
    <2>2. QED BY <1>2, <1>3, <2>1 DEF OnlyNotes
  <1> HIDE DEF r
  <1>5. /\ LeftOf(r, e) = LeftOf(b, e) - a /\ LeftOf(r, e) \in Nat
        /\ \A y \in Event : y # e => LeftOf(r, y) = LeftOf(b, y)
    <2>1. LeftOf(r, e) = b.entry[e].amount - (b.entry[e].reversed + a)
          /\ LeftOf(b, e) = b.entry[e].amount - b.entry[e].reversed
      BY <1>2, <1>4 DEF LeftOf
    <2>2. LeftOf(r, e) = LeftOf(b, e) - a /\ LeftOf(r, e) \in Nat
      BY <1>1, <2>1
    <2>3. QED BY <1>2, <1>4, <2>2 DEF LeftOf
  <1>6. r.entry[e].status = IF LeftOf(r, e) = 0 THEN "reversed" ELSE "frozen"
    <2>1. b.entry[e].reversed + a = b.entry[e].amount <=> LeftOf(r, e) = 0
      BY <1>1, <1>5 DEF LeftOf
    <2>2. QED BY <1>2, <1>4, <2>1 DEF Frozen
  <1>7. \A y \in Event : y # e => r.entry[y] = b.entry[y]
    BY <1>2, <1>4
  <1>8. TakenBack(b, r)
    <2>1. \A y \in Event : r.entry[y].status = "none" <=> b.entry[y].status = "none"
      BY <1>6, <1>7 DEF Frozen
    <2>2. QED BY <1>4, <2>1 DEF TakenBack
  <1>9. LotsSound(r, u)
    <2>1. \A y \in Event : Awaits(r, y) => Awaits(b, y)
      BY <1>7 DEF Awaits, Frozen
    <2>2. QED BY <1>1, <1>4, <2>1, LotsSame
  <1>10. \A y \in Event : LeftOf(b, y) \in Nat /\ LeftOf(r, y) \in Nat
    BY <1>1, <1>5, LeftIsNat
  <1>11. EntriesSound(r)
    <2>1. \A y \in Event :
            /\ LeftOf(r, y) >= 0
            /\ r.entry[y].status \in {"frozen", "available"} <=> LeftOf(r, y) > 0
      <3> TAKE y \in Event
      <3>1. CASE y = e
        BY <1>5, <1>6, <3>1
      <3>2. CASE y # e
        BY <1>1, <1>5, <1>7, <3>2 DEF EntriesSound
      <3>3. QED BY <3>1, <3>2
    <2>2. r.frozen = Total(FrozenIn(r), Event)
      <3> DEFINE f == FrozenIn(b)
                 g == FrozenIn(r)
      <3>1. \A y \in Event : f[y] \in Int /\ g[y] \in Int
        BY <1>10 DEF FrozenIn
      <3>2. \A y \in Event : y # e => f[y] = g[y]
        BY <1>5, <1>7 DEF FrozenIn, Frozen
      <3>3. f[e] = LeftOf(b, e) /\ g[e] = LeftOf(b, e) - a
        BY <1>5, <1>6 DEF FrozenIn, Frozen
      <3>4. b.frozen = Total(f, Event)
        BY <1>1 DEF EntriesSound
      <3> HIDE DEF f, g
      <3>5. Total(g, Event) = Total(f, Event) + g[e] - f[e]
        BY <3>1, <3>2, EventChange
      <3>6. Total(g, Event) = r.frozen
        BY <1>1, <1>4, <3>3, <3>4, <3>5
      <3>7. QED BY <3>6 DEF g
    <2>3. QED BY <2>1, <2>2 DEF EntriesSound
  <1>12. Whole(r)
    <2>1. Total(LeftIn(r), Event) = Total(LeftIn(b), Event) - a
      <3> DEFINE f == LeftIn(b)
                 g == LeftIn(r)
      <3>1. \A y \in Event : f[y] \in Int /\ g[y] \in Int
        BY <1>10 DEF LeftIn
      <3>2. \A y \in Event : y # e => f[y] = g[y]
        BY <1>5 DEF LeftIn
      <3>3. f[e] = LeftOf(b, e) /\ g[e] = LeftOf(b, e) - a
        BY <1>5 DEF LeftIn
      <3> HIDE DEF f, g
      <3>4. Total(g, Event) = Total(f, Event) + g[e] - f[e] /\ Total(f, Event) \in Int
        BY <3>1, <3>2, EventChange
      <3>5. Total(g, Event) = Total(f, Event) - a
        BY <1>1, <3>3, <3>4
      <3>6. QED BY <3>5 DEF f, g
    <2>2. PICK t \in Nat, p \in Nat, f \in Nat, v \in Nat, w \in Nat :
            /\ t = Total(LeftIn(b), Event) /\ p = b.pending /\ f = b.frozen
            /\ v = b.available /\ w = b.paidOut
      BY <1>1, LeftIsNat, Fields
    <2>3. t + p = f + v + w
      BY <1>1, <2>2 DEF Whole
    <2>4. (t - a) + p = (f - a) + v + w
      BY <2>3
    <2>5. Total(LeftIn(r), Event) + r.pending = r.frozen + r.available + r.paidOut
      BY <1>4, <2>1, <2>2, <2>4
    <2>6. QED BY <2>5 DEF Whole
  <1>13. FlagsSound(r, c)
    BY <1>1, <1>8, FlagsTaken
  <1>14. BooksSound(r, u, c)
    BY <1>4, <1>9, <1>11, <1>12, <1>13 DEF BooksSound
  <1>15. FrozenLess(b, e, a) = r
    BY DEF r, m, FrozenLess
  <1> QED BY <1>5, <1>8, <1>14, <1>15

(* Of a released entry: what the lots can spend, and the rest is owed.     *)
ReleasedLess(b, e, a, take) ==
  [Recover(Noted(b, e, a), OwnShares(b, e, take)) EXCEPT !.pending = @ + (a - take)]

LEMMA ReleasedTaken ==
  ASSUME NEW b, NEW u \in Uses, NEW c, BooksSound(b, u, c), NEW e \in Event, ~Frozen(b, e),
         NEW a \in Nat, a # 0, a <= LeftOf(b, e),
         NEW take \in Nat, take <= a, take <= Total(Spendable(b), Event)
  PROVE  LET r == ReleasedLess(b, e, a, take) IN
         /\ BooksSound(r, u, c) /\ TakenBack(b, r)
         /\ LeftOf(r, e) = LeftOf(b, e) - a
         /\ \A y \in Event : y # e => LeftOf(r, y) = LeftOf(b, y)
  <1> DEFINE m == Noted(b, e, a)
             s == OwnShares(b, e, take)
             q == Recover(m, s)
             r == [q EXCEPT !.pending = q.pending + (a - take)]
  <1>1. /\ b \in Books /\ LotsSound(b, u) /\ EntriesSound(b) /\ Whole(b) /\ FlagsSound(b, c)
        /\ b.entry[e].amount \in Nat /\ b.entry[e].reversed \in Nat
        /\ LeftOf(b, e) \in Nat /\ b.pending \in Nat
    BY Fields, LotFields, LeftIsNat DEF BooksSound
  <1>2. /\ m \in Books /\ OnlyNotes(b, m)
        /\ m.entry[e].amount = b.entry[e].amount
        /\ m.entry[e].reversed = b.entry[e].reversed + a
        /\ m.entry[e].status = IF b.entry[e].reversed + a = b.entry[e].amount
                               THEN "reversed" ELSE b.entry[e].status
        /\ \A y \in Event : y # e => m.entry[y] = b.entry[y]
    BY <1>1, NotedEffect
  <1> HIDE DEF m
  <1>3. b.entry[e].status = "available"
    <2>1. b.entry[e].status \in {"frozen", "available"}
      BY <1>1 DEF EntriesSound
    <2>2. QED BY <2>1 DEF Frozen
  <1>4. /\ s \in [Event -> Nat] /\ Total(s, Event) = take
        /\ \A y \in Event : s[y] <= Spendable(b)[y]
    BY <1>1, OwnFirst
  <1> HIDE DEF s
  <1>5. LotsSound(m, u)
    <2>1. \A y \in Event : Awaits(m, y) => Awaits(b, y)
      BY <1>2, <1>3 DEF Awaits
    <2>2. QED BY <1>1, <1>2, <2>1, LotsSame DEF OnlyNotes
  <1>6. Spendable(m) = Spendable(b)
    BY <1>2 DEF OnlyNotes, Spendable, Unreserved, Blocked, DisputeHeld
  <1>7. Total(s, Event) <= m.available /\ LotsSound(q, u)
    <2>1. \A y \in Event : /\ s[y] <= Unreserved(m, y)
                           /\ Blocked(m, y) <= m.lot[y].amount - m.lot[y].consumed - s[y]
      BY <1>2, <1>4, <1>5, <1>6, SpendIsRecoverable
    <2>2. QED BY <1>2, <1>4, <1>5, <2>1, RecoverLots
  <1>8. /\ q \in Books /\ q.available = m.available - take
        /\ q.event = m.event /\ q.corrected = m.corrected /\ q.based = m.based
        /\ q.entry = m.entry /\ q.carry = m.carry
        /\ q.pending = m.pending /\ q.frozen = m.frozen
        /\ q.paidOut = m.paidOut /\ q.credit = m.credit
        /\ q.source = m.source /\ q.block = m.block /\ q.hold = m.hold
    BY <1>2, <1>4, <1>7, RecoverEffect
  <1> HIDE DEF q
  <1>9. q.pending = b.pending /\ q.pending + (a - take) \in Nat
    BY <1>1, <1>2, <1>8 DEF OnlyNotes
  <1>10. /\ r \in Books
         /\ r.lot = q.lot /\ r.lots = q.lots /\ r.available = q.available /\ r.held = q.held
         /\ r.block = q.block /\ r.hold = q.hold /\ r.entry = q.entry /\ r.frozen = q.frozen
         /\ r.pending = q.pending + (a - take) /\ r.paidOut = q.paidOut /\ r.event = q.event
         /\ r.corrected = q.corrected /\ r.based = q.based /\ r.carry = q.carry
         /\ r.source = q.source /\ r.credit = q.credit
    BY <1>8, <1>9 DEF Books
  <1> HIDE DEF r
  <1>11. /\ r.entry = m.entry /\ r.available = b.available - take
         /\ r.pending = b.pending + (a - take) /\ r.frozen = b.frozen
         /\ r.event = b.event /\ r.corrected = b.corrected /\ r.based = b.based
         /\ r.carry = b.carry /\ r.paidOut = b.paidOut /\ r.credit = b.credit
         /\ r.source = b.source /\ r.block = b.block /\ r.hold = b.hold
    BY <1>2, <1>8, <1>9, <1>10 DEF OnlyNotes
  <1>12. LotsSound(r, u)
    BY <1>7, <1>10, LotsSame DEF Awaits
  <1>13. /\ LeftOf(r, e) = LeftOf(b, e) - a /\ LeftOf(r, e) \in Nat
         /\ \A y \in Event : y # e => LeftOf(r, y) = LeftOf(b, y)
    <2>1. LeftOf(r, e) = b.entry[e].amount - (b.entry[e].reversed + a)
          /\ LeftOf(b, e) = b.entry[e].amount - b.entry[e].reversed
      BY <1>2, <1>11 DEF LeftOf
    <2>2. LeftOf(r, e) = LeftOf(b, e) - a /\ LeftOf(r, e) \in Nat
      BY <1>1, <2>1
    <2>3. QED BY <1>2, <1>11, <2>2 DEF LeftOf
  <1>14. r.entry[e].status = IF LeftOf(r, e) = 0 THEN "reversed" ELSE "available"
    <2>1. b.entry[e].reversed + a = b.entry[e].amount <=> LeftOf(r, e) = 0
      BY <1>1, <1>13 DEF LeftOf
    <2>2. QED BY <1>2, <1>3, <1>11, <2>1
  <1>15. \A y \in Event : y # e => r.entry[y] = b.entry[y]
    BY <1>2, <1>11
  <1>16. TakenBack(b, r)
    <2>1. \A y \in Event : r.entry[y].status = "none" <=> b.entry[y].status = "none"
      BY <1>3, <1>14, <1>15
    <2>2. QED BY <1>11, <2>1 DEF TakenBack
  <1>17. \A y \in Event : LeftOf(b, y) \in Nat /\ LeftOf(r, y) \in Nat
    BY <1>1, <1>13, LeftIsNat
  <1>18. EntriesSound(r)
    <2>1. \A y \in Event :
            /\ LeftOf(r, y) >= 0
            /\ r.entry[y].status \in {"frozen", "available"} <=> LeftOf(r, y) > 0
      <3> TAKE y \in Event
      <3>1. CASE y = e
        BY <1>13, <1>14, <3>1
      <3>2. CASE y # e
        BY <1>1, <1>13, <1>15, <3>2 DEF EntriesSound
      <3>3. QED BY <3>1, <3>2
    <2>2. FrozenIn(r) = FrozenIn(b)
      <3>1. \A y \in Event : (IF Frozen(r, y) THEN LeftOf(r, y) ELSE 0)
                               = (IF Frozen(b, y) THEN LeftOf(b, y) ELSE 0)
        <4> TAKE y \in Event
        <4>1. CASE y = e
          BY <1>14, <4>1 DEF Frozen
        <4>2. CASE y # e
          BY <1>13, <1>15, <4>2 DEF Frozen
        <4>3. QED BY <4>1, <4>2
      <3>2. QED BY <3>1 DEF FrozenIn
    <2>3. r.frozen = Total(FrozenIn(r), Event)
      BY <1>1, <1>11, <2>2 DEF EntriesSound
    <2>4. QED BY <2>1, <2>3 DEF EntriesSound
  <1>19. Whole(r)
    <2>1. Total(LeftIn(r), Event) = Total(LeftIn(b), Event) - a
      <3> DEFINE f == LeftIn(b)
                 g == LeftIn(r)
      <3>1. \A y \in Event : f[y] \in Int /\ g[y] \in Int
        BY <1>17 DEF LeftIn
      <3>2. \A y \in Event : y # e => f[y] = g[y]
        BY <1>13 DEF LeftIn
      <3>3. f[e] = LeftOf(b, e) /\ g[e] = LeftOf(b, e) - a
        BY <1>13 DEF LeftIn
      <3> HIDE DEF f, g
      <3>4. Total(g, Event) = Total(f, Event) + g[e] - f[e] /\ Total(f, Event) \in Int
        BY <3>1, <3>2, EventChange
      <3>5. Total(g, Event) = Total(f, Event) - a
        BY <1>1, <3>3, <3>4
      <3>6. QED BY <3>5 DEF f, g
    <2>2. PICK t \in Nat, p \in Nat, f \in Nat, v \in Nat, w \in Nat :
            /\ t = Total(LeftIn(b), Event) /\ p = b.pending /\ f = b.frozen
            /\ v = b.available /\ w = b.paidOut
      BY <1>1, LeftIsNat, Fields
    <2>3. t + p = f + v + w
      BY <1>1, <2>2 DEF Whole
    <2>4. (t - a) + (p + (a - take)) = f + (v - take) + w
      BY <2>3
    <2>5. Total(LeftIn(r), Event) + r.pending = r.frozen + r.available + r.paidOut
      BY <1>11, <2>1, <2>2, <2>4
    <2>6. QED BY <2>5 DEF Whole
  <1>20. FlagsSound(r, c)
    BY <1>1, <1>16, FlagsTaken
  <1>21. BooksSound(r, u, c)
    BY <1>10, <1>12, <1>18, <1>19, <1>20 DEF BooksSound
  <1>22. ReleasedLess(b, e, a, take) = r
    BY DEF r, q, m, s, ReleasedLess
  <1> QED BY <1>13, <1>16, <1>21, <1>22

LEMMA ReverseEntryKeeps ==
  ASSUME NEW b, NEW u \in Uses, NEW c, BooksSound(b, u, c), NEW e \in Event,
         NEW a \in Nat, a <= LeftOf(b, e)
  PROVE  LET r == ReverseEntry(b, e, a) IN
         /\ BooksSound(r, u, c) /\ TakenBack(b, r)
         /\ LeftOf(r, e) = LeftOf(b, e) - a
         /\ \A y \in Event : y # e => LeftOf(r, y) = LeftOf(b, y)
  <1> DEFINE take == Least(a, Least(Available(b), Total(Spendable(b), Event)))
             f == FrozenLess(b, e, a)
             g == ReleasedLess(b, e, a, take)
             r == ReverseEntry(b, e, a)
  <1>1. b \in Books /\ LotsSound(b, u) /\ LeftOf(b, e) \in Nat
    BY LeftIsNat DEF BooksSound
  <1>2. take \in Nat /\ take <= a /\ take <= Total(Spendable(b), Event)
    <2>1. Available(b) \in Nat /\ Total(Spendable(b), Event) \in Nat
      BY <1>1, AvailableIsNat, SpendableFits
    <2>2. QED BY <2>1 DEF Least
  <1>3. r = IF a = 0 THEN b ELSE IF Frozen(b, e) THEN f ELSE g
    BY DEF ReverseEntry, Noted, OwnShares, FrozenLess, ReleasedLess
  <1> HIDE DEF take, r
  <1>4. CASE a = 0
    <2>1. TakenBack(b, b)
      BY DEF TakenBack
    <2>2. LeftOf(b, e) = LeftOf(b, e) - a
      BY <1>1, <1>4
    <2>3. QED BY <1>3, <1>4, <2>1, <2>2 DEF r
  <1>5. CASE a # 0 /\ Frozen(b, e)
    <2>1. /\ BooksSound(f, u, c) /\ TakenBack(b, f)
          /\ LeftOf(f, e) = LeftOf(b, e) - a
          /\ \A y \in Event : y # e => LeftOf(f, y) = LeftOf(b, y)
      BY <1>5, FrozenTaken
    <2> HIDE DEF f, g
    <2>2. QED BY <1>3, <1>5, <2>1 DEF r
  <1>6. CASE a # 0 /\ ~Frozen(b, e)
    <2>1. /\ BooksSound(g, u, c) /\ TakenBack(b, g)
          /\ LeftOf(g, e) = LeftOf(b, e) - a
          /\ \A y \in Event : y # e => LeftOf(g, y) = LeftOf(b, y)
      BY <1>2, <1>6, ReleasedTaken
    <2> HIDE DEF f, g
    <2>2. QED BY <1>3, <1>6, <2>1 DEF r
  <1> QED BY <1>4, <1>5, <1>6

(* As the loop over the entries uses it.                                   *)
TakenOf(b, u, c, r, e, a) ==
  /\ BooksSound(r, u, c) /\ TakenBack(b, r) /\ LeftOf(r, e) = LeftOf(b, e) - a
  /\ \A y \in Event : y # e => LeftOf(r, y) = LeftOf(b, y)

LEMMA ReverseEntryTakes ==
  ASSUME NEW b, NEW u \in Uses, NEW c, BooksSound(b, u, c), NEW e \in Event,
         NEW a \in Nat, a <= LeftOf(b, e)
  PROVE  TakenOf(b, u, c, ReverseEntry(b, e, a), e, a)
  <1> DEFINE r == ReverseEntry(b, e, a)
  <1>1. /\ BooksSound(r, u, c) /\ TakenBack(b, r)
        /\ LeftOf(r, e) = LeftOf(b, e) - a
        /\ \A y \in Event : y # e => LeftOf(r, y) = LeftOf(b, y)
    BY ReverseEntryKeeps
  <1> HIDE DEF r
  <1>2. TakenOf(b, u, c, r, e, a)
    BY <1>1 DEF TakenOf
  <1> QED BY <1>2 DEF r

LEMMA TakeBackKeeps ==
  ASSUME NEW b, NEW u \in Uses, NEW c, BooksSound(b, u, c), NEW s \in [Event -> Nat],
         \A y \in Event : s[y] <= LeftOf(b, y)
  PROVE  /\ BooksSound(TakeBack(b, s), u, c) /\ TakenBack(b, TakeBack(b, s))
         /\ \A y \in Event : LeftOf(TakeBack(b, s), y) = LeftOf(b, y) - s[y]
  <1>1. Len(Paid) \in Nat /\ Event = 1..Len(Paid)
    BY Lengths
  <1>2. PICK f : /\ f[0] = b /\ \A i \in 1..Len(Paid) : f[i] = ReverseEntry(f[i - 1], i, s[i])
                 /\ TakeBack(b, s) = f[Len(Paid)]
    BY LoopBack
  <1>3. \A y \in Event : LeftOf(b, y) \in Nat
    BY LeftIsNat DEF BooksSound
  <1> DEFINE good(i) == /\ BooksSound(f[i], u, c) /\ TakenBack(b, f[i])
                        /\ \A y \in Event : y <= i => LeftOf(f[i], y) = LeftOf(b, y) - s[y]
                        /\ \A y \in Event : y > i => LeftOf(f[i], y) = LeftOf(b, y)
             G == {i \in 0..Len(Paid) : good(i)}
  <1>4. 0 \in G
    <2>1. TakenBack(b, b)
      BY DEF TakenBack
    <2>2. \A y \in Event : ~(y <= 0)
      BY <1>1
    <2>3. good(0)
      BY <1>2, <2>1, <2>2
    <2>4. QED BY <1>1, <2>3
  <1>5. ASSUME NEW i \in 1..Len(Paid), i - 1 \in G PROVE i \in G
    <2> DEFINE a == f[i - 1]
               r == f[i]
    <2>1. good(i - 1) /\ i \in Event /\ i \in Nat /\ i \in 0..Len(Paid)
      BY <1>1, <1>5
    <2>2. /\ BooksSound(a, u, c) /\ TakenBack(b, a) /\ LeftOf(a, i) = LeftOf(b, i)
      BY <2>1
    <2>3. r = ReverseEntry(a, i, s[i])
      BY <1>2
    <2>4. /\ \A y \in Event : y <= i - 1 => LeftOf(a, y) = LeftOf(b, y) - s[y]
          /\ \A y \in Event : y > i - 1 => LeftOf(a, y) = LeftOf(b, y)
      BY <2>1
    <2> HIDE DEF a
    <2>5. /\ BooksSound(r, u, c) /\ TakenBack(a, r) /\ LeftOf(r, i) = LeftOf(a, i) - s[i]
          /\ \A y \in Event : y # i => LeftOf(r, y) = LeftOf(a, y)
      <3>1. s[i] \in Nat /\ s[i] <= LeftOf(a, i)
        BY <2>1, <2>2
      <3>2. TakenOf(a, u, c, r, i, s[i])
        BY <2>1, <2>2, <2>3, <3>1, ReverseEntryTakes
      <3>3. QED BY <3>2 DEF TakenOf
    <2> HIDE DEF r
    <2>6. TakenBack(b, r)
      BY <2>2, <2>5, TakenTwice
    <2>7. \A y \in Event : y <= i => LeftOf(r, y) = LeftOf(b, y) - s[y]
      <3> SUFFICES ASSUME NEW y \in Event, y <= i PROVE LeftOf(r, y) = LeftOf(b, y) - s[y]
        OBVIOUS
      <3>1. CASE y = i
        BY <2>2, <2>5, <3>1
      <3>2. CASE y # i
        <4>1. y <= i - 1
          BY <1>1, <2>1, <3>2
        <4>2. QED BY <2>4, <2>5, <3>2, <4>1
      <3>3. QED BY <3>1, <3>2
    <2>8. \A y \in Event : y > i => LeftOf(r, y) = LeftOf(b, y)
      <3> SUFFICES ASSUME NEW y \in Event, y > i PROVE LeftOf(r, y) = LeftOf(b, y)
        OBVIOUS
      <3>1. y > i - 1 /\ y # i
        BY <1>1, <2>1
      <3>2. QED BY <2>4, <2>5, <3>1
    <2>9. good(i)
      BY <2>5, <2>6, <2>7, <2>8 DEF r
    <2>10. QED BY <2>1, <2>9
  <1> HIDE DEF G
  <1>6. Len(Paid) \in G
    <2>1. \A i \in 0..Len(Paid) : i \in G
      BY <1>1, <1>4, <1>5, AllReached
    <2>2. QED BY <1>1, <2>1
  <1>7. good(Len(Paid))
    BY <1>6 DEF G
  <1>8. \A y \in Event : y <= Len(Paid)
    BY <1>1
  <1> QED BY <1>2, <1>7, <1>8

(* Corrections take from every entry of the order, in its order.           *)
LEMMA EventsAll ==
  /\ Events \in Seq(Event) /\ Distinct(Events) /\ Range(Events) = Event
  <1>1. Len(Paid) \in Nat /\ Event = 1..Len(Paid)
    BY Lengths
  <1>2. Events = [i \in 1..Len(Paid) |-> i]
    BY DEF Events
  <1> QED BY <1>1, <1>2 DEF Distinct, Range

(* The base and the reversed credit move together.                         *)
Rebased(b, base, back) == [b EXCEPT !.carry.base = base, !.carry.reversed = @ + back]

RebasedTo(b, u, c, r, base, back) ==
  /\ BooksSound(r, u, c)
  /\ r.carry.base = base /\ r.carry.credited = b.carry.credited
  /\ r.carry.reversed = b.carry.reversed + back
  /\ LeftIn(r) = LeftIn(b)
  /\ r.event = b.event /\ r.corrected = b.corrected /\ r.based = b.based
  /\ r.entry = b.entry /\ r.source = b.source /\ r.block = b.block
  /\ r.hold = b.hold /\ r.paidOut = b.paidOut /\ r.credit = b.credit

LEMMA RebasedKeeps ==
  ASSUME NEW b, NEW u, NEW c, BooksSound(b, u, c), NEW base \in Nat, NEW back \in Nat
  PROVE  RebasedTo(b, u, c, Rebased(b, base, back), base, back)
  <1> DEFINE C1 == [b.carry EXCEPT !.base = base]
             C == [C1 EXCEPT !.reversed = b.carry.reversed + back]
             r == [b EXCEPT !.carry = C]
  <1>1. b \in Books /\ b.carry \in Carry /\ b.carry.reversed \in Nat /\ FlagsSound(b, c)
    BY Fields, LotFields DEF BooksSound, Carry
  <1>2. Rebased(b, base, back) = r
    <2>1. C1.reversed = b.carry.reversed
      BY <1>1 DEF Carry
    <2>2. QED BY <1>1, <2>1 DEF Rebased, Books
  <1>3. C1 \in Carry /\ C1.base = base /\ C1.credited = b.carry.credited
        /\ C1.reversed = b.carry.reversed
    BY <1>1 DEF Carry
  <1> HIDE DEF C1
  <1>4. C \in Carry /\ C.base = base /\ C.credited = b.carry.credited
        /\ C.reversed = b.carry.reversed + back
    BY <1>1, <1>3 DEF Carry
  <1> HIDE DEF C
  <1>5. /\ r \in Books /\ r.carry = C /\ r.lot = b.lot /\ r.lots = b.lots
        /\ r.entry = b.entry /\ r.event = b.event
        /\ r.block = b.block /\ r.hold = b.hold /\ r.pending = b.pending
        /\ r.frozen = b.frozen /\ r.available = b.available /\ r.held = b.held
        /\ r.paidOut = b.paidOut /\ r.corrected = b.corrected /\ r.based = b.based
        /\ r.source = b.source /\ r.credit = b.credit
    BY <1>1, <1>4 DEF Books
  <1> HIDE DEF r
  <1>7. LotsSound(r, u) /\ EntriesSound(r) /\ Whole(r) /\ LeftIn(r) = LeftIn(b)
    BY <1>5, MoneySame
  <1>8. FlagsSound(r, c)
    BY <1>1, <1>5 DEF FlagsSound
  <1>9. BooksSound(r, u, c)
    BY <1>5, <1>7, <1>8 DEF BooksSound
  <1>10. RebasedTo(b, u, c, r, base, back)
    BY <1>4, <1>5, <1>7, <1>9 DEF RebasedTo
  <1> QED BY <1>2, <1>10

(* What is corrected of an event is noted on it.                           *)
Corrected(b, e, a) == [b EXCEPT !.corrected[e] = @ + a]

LEMMA CorrectedKeeps ==
  ASSUME NEW b, NEW u, NEW c, BooksSound(b, u, c), NEW e \in Event, NEW a \in Nat
  PROVE  LET r == Corrected(b, e, a) IN
         /\ BooksSound(r, u, c) /\ LeftIn(r) = LeftIn(b)
         /\ r.corrected[e] = b.corrected[e] + a
         /\ \A y \in Event : y # e => r.corrected[y] = b.corrected[y]
         /\ r.event = b.event /\ r.carry = b.carry /\ r.based = b.based
         /\ r.entry = b.entry /\ r.source = b.source /\ r.block = b.block
         /\ r.hold = b.hold /\ r.paidOut = b.paidOut /\ r.credit = b.credit
  <1> DEFINE K == [b.corrected EXCEPT ![e] = b.corrected[e] + a]
             r == [b EXCEPT !.corrected = K]
  <1>1. b \in Books /\ b.corrected \in [Event -> Nat] /\ FlagsSound(b, c)
    BY Fields DEF BooksSound
  <1>2. /\ K \in [Event -> Nat] /\ K[e] = b.corrected[e] + a
        /\ \A y \in Event : y # e => K[y] = b.corrected[y]
    BY <1>1
  <1>3. Corrected(b, e, a) = r
    BY DEF Corrected
  <1> HIDE DEF K
  <1>4. /\ r \in Books /\ r.corrected = K /\ r.lot = b.lot /\ r.lots = b.lots
        /\ r.entry = b.entry /\ r.event = b.event
        /\ r.block = b.block /\ r.hold = b.hold /\ r.pending = b.pending
        /\ r.frozen = b.frozen /\ r.available = b.available /\ r.held = b.held
        /\ r.paidOut = b.paidOut /\ r.carry = b.carry /\ r.based = b.based
        /\ r.source = b.source /\ r.credit = b.credit
    BY <1>1, <1>2 DEF Books
  <1> HIDE DEF r
  <1>5. LotsSound(r, u) /\ EntriesSound(r) /\ Whole(r) /\ LeftIn(r) = LeftIn(b)
    BY <1>4, MoneySame
  <1>6. FlagsSound(r, c)
    BY <1>1, <1>4 DEF FlagsSound
  <1>7. BooksSound(r, u, c)
    BY <1>4, <1>5, <1>6 DEF BooksSound
  <1> QED BY <1>2, <1>3, <1>4, <1>5, <1>7

(* What a correction leaves as it was.                                     *)
Reversed(b, r, e, a) ==
  /\ r.based = b.based /\ r.source = b.source /\ r.hold = b.hold
  /\ r.paidOut = b.paidOut /\ r.credit = b.credit
  /\ r.corrected[e] = b.corrected[e] + a
  /\ \A y \in Event : y # e => r.corrected[y] = b.corrected[y]
  /\ \A d \in Dispute : b.source[d] = {} => r.block[d] = b.block[d]

(* An event that never counted is corrected for the customer alone.        *)
LEMMA UncountedCorrected ==
  ASSUME NEW b, NEW u, NEW c, NEW n \in Nat, OrderSound(b, u, c, n),
         NEW e \in Event, e <= n, NEW a \in Nat, b.corrected[e] + a <= Paid[e],
         b.based[e] = FALSE
  PROVE  OrderSound(Corrected(b, e, a), u, c, n) /\ Reversed(b, Corrected(b, e, a), e, a)
  <1> DEFINE r == Corrected(b, e, a)
  <1>1. BooksSound(b, u, c) /\ EarnedSound(b) /\ Untouched(b, n)
    BY DEF OrderSound
  <1>2. /\ BooksSound(r, u, c) /\ LeftIn(r) = LeftIn(b)
        /\ r.corrected[e] = b.corrected[e] + a
        /\ \A y \in Event : y # e => r.corrected[y] = b.corrected[y]
        /\ r.carry = b.carry /\ r.based = b.based
        /\ r.entry = b.entry /\ r.source = b.source /\ r.block = b.block
        /\ r.hold = b.hold /\ r.paidOut = b.paidOut /\ r.credit = b.credit
    BY <1>1, CorrectedKeeps
  <1> HIDE DEF r
  <1>3. BaseIn(r) = BaseIn(b)
    <2>1. \A y \in Event : (IF r.based[y] THEN Paid[y] - r.corrected[y] ELSE 0)
                             = (IF b.based[y] THEN Paid[y] - b.corrected[y] ELSE 0)
      BY <1>2
    <2>2. QED BY <2>1 DEF BaseIn
  <1>4. \A y \in Event : r.corrected[y] <= Paid[y]
    BY <1>1, <1>2 DEF EarnedSound
  <1>5. EarnedSound(r)
    BY <1>1, <1>2, <1>3, <1>4 DEF EarnedSound
  <1>6. Untouched(r, n)
    <2> SUFFICES ASSUME NEW y \in Event, y > n
                 PROVE  r.entry[y].status = "none" /\ ~r.based[y] /\ r.corrected[y] = 0
      BY DEF Untouched
    <2>1. y # e
      BY Lengths
    <2>2. QED BY <1>1, <1>2, <2>1 DEF Untouched
  <1>7. Reversed(b, r, e, a)
    BY <1>2 DEF Reversed
  <1> QED BY <1>2, <1>5, <1>6, <1>7 DEF OrderSound, r

(* What comes off the base comes off the entries.                          *)
LEMMA CountedCorrected ==
  ASSUME NEW b, NEW u \in Uses, NEW c, NEW n \in Nat, OrderSound(b, u, c, n),
         NEW e \in Event, e <= n, NEW a \in Nat, b.corrected[e] + a <= Paid[e],
         b.based[e] = TRUE,
         NEW base, base = b.carry.base - a,
         NEW back, back = (b.carry.credited - b.carry.reversed) - Target(base)
  PROVE  LET r == Corrected(Rebased(TakeBack(b, Shares(Events, LeftIn(b), back)), base, back), e, a)
         IN  OrderSound(r, u, c, n) /\ Reversed(b, r, e, a)
  <1> DEFINE s == Shares(Events, LeftIn(b), back)
             t == TakeBack(b, s)
             q == Rebased(t, base, back)
             r == Corrected(q, e, a)
  <1>1. /\ BooksSound(b, u, c) /\ EarnedSound(b) /\ Untouched(b, n)
        /\ b \in Books /\ EntriesSound(b)
    BY DEF OrderSound, BooksSound
  <1>2. /\ b.carry.base \in Nat /\ b.carry.credited \in Nat /\ b.carry.reversed \in Nat
        /\ Paid \in [Event -> Nat \ {0}] /\ b.corrected \in [Event -> Nat]
        /\ b.corrected[e] \in Nat /\ Paid[e] \in Nat
    BY <1>1, LotFields, Lengths, Fields
  <1>3. /\ b.carry.credited - b.carry.reversed = Target(b.carry.base)
        /\ Total(LeftIn(b), Event) = Target(b.carry.base)
        /\ b.carry.base = Total(BaseIn(b), Event)
        /\ \A y \in Event : b.corrected[y] <= Paid[y]
    <2>1. /\ b.carry.credited - b.carry.reversed = Total(LeftIn(b), Event)
          /\ Total(LeftIn(b), Event) = Target(b.carry.base)
          /\ b.carry.base = Total(BaseIn(b), Event)
          /\ \A y \in Event : b.corrected[y] <= Paid[y]
      BY <1>1 DEF EarnedSound
    <2>2. QED BY <2>1
  <1>4. \A y \in Event : BaseIn(b)[y] \in Nat
    <2> TAKE y \in Event
    <2>1. Paid[y] - b.corrected[y] \in Nat
      BY <1>2, <1>3
    <2>2. QED BY <2>1 DEF BaseIn
  <1>5. base \in Nat /\ base <= b.carry.base
    <2>1. BaseIn(b)[e] = Paid[e] - b.corrected[e]
      BY DEF BaseIn
    <2>2. BaseIn(b)[e] <= Total(BaseIn(b), Event)
      BY <1>4, Lengths, SumAtLeast DEF Total
    <2>3. a <= b.carry.base
      BY <1>2, <1>3, <2>1, <2>2
    <2>4. QED BY <1>2, <2>3
  <1>6. back \in Nat /\ Target(base) \in Nat /\ Target(b.carry.base) = Target(base) + back
    <2>1. /\ Target(base) \in Nat /\ Target(b.carry.base) \in Nat
          /\ Target(base) <= Target(b.carry.base)
      BY <1>2, <1>5, TargetRises
    <2>2. QED BY <1>3, <2>1
  <1>7. LeftIn(b) \in [Event -> Nat] /\ back <= Total(LeftIn(b), Event)
    <2>1. \A y \in Event : LeftIn(b)[y] \in Nat
      BY <1>1, LeftIsNat
    <2>2. LeftIn(b) = [y \in Event |-> LeftIn(b)[y]]
      BY DEF LeftIn
    <2>3. LeftIn(b) \in [Event -> Nat]
      BY <2>1, <2>2
    <2>4. QED BY <1>3, <1>6, <2>3
  <1>8. /\ s \in [Event -> Nat] /\ \A y \in Event : s[y] <= LeftIn(b)[y]
        /\ Total(s, Event) = back
    <2>1. s \in [Event -> Nat] /\ \A y \in Event : s[y] <= LeftIn(b)[y]
      BY <1>6, <1>7, EventsAll, SharesAddUp
    <2>2. \A y \in Event : LeftIn(b)[y] > 0 => y \in Range(Events)
      BY EventsAll
    <2>3. Total(s, Event) = back
      BY <1>6, <1>7, <2>2, EventsAll, SharesReachAmount
    <2>4. QED BY <2>1, <2>3
  <1> HIDE DEF s
  <1>9. /\ BooksSound(t, u, c) /\ TakenBack(b, t)
        /\ \A y \in Event : LeftOf(t, y) = LeftOf(b, y) - s[y]
    <2>1. \A y \in Event : s[y] <= LeftOf(b, y)
      BY <1>8 DEF LeftIn
    <2>2. QED BY <1>1, <1>8, <2>1, TakeBackKeeps
  <1> HIDE DEF t
  <1>10. Total(LeftIn(t), Event) = Target(base)
    <2>1. \A y \in Event : /\ LeftIn(t)[y] \in Int /\ s[y] \in Int
                           /\ LeftIn(b)[y] = LeftIn(t)[y] + s[y]
      BY <1>7, <1>8, <1>9 DEF LeftIn
    <2>2. Total(LeftIn(b), Event) = Total(LeftIn(t), Event) + Total(s, Event)
      <3> DEFINE f == LeftIn(t)
                 h == LeftIn(b)
      <3>1. IsFiniteSet(Event)
        BY Lengths
      <3>2. \A y \in Event : f[y] \in Int /\ s[y] \in Int /\ h[y] = f[y] + s[y]
        BY <2>1
      <3> HIDE DEF f, h
      <3>3. SumFunctionOnSet(h, Event) = SumFunctionOnSet(f, Event) + SumFunctionOnSet(s, Event)
        BY <3>1, <3>2, SumPlus
      <3>4. QED BY <3>3 DEF Total, f, h
    <2>3. Total(LeftIn(t), Event) \in Int
      BY <2>1, Lengths, SumInt DEF Total
    <2>4. QED BY <1>3, <1>6, <1>8, <2>2, <2>3
  <1>11. /\ BooksSound(q, u, c)
         /\ q.carry.base = base /\ q.carry.credited = t.carry.credited
         /\ q.carry.reversed = t.carry.reversed + back /\ LeftIn(q) = LeftIn(t)
         /\ q.corrected = t.corrected /\ q.based = t.based
         /\ q.entry = t.entry /\ q.source = t.source /\ q.block = t.block
         /\ q.hold = t.hold /\ q.paidOut = t.paidOut /\ q.credit = t.credit
    <2>1. RebasedTo(t, u, c, q, base, back)
      BY <1>5, <1>6, <1>9, RebasedKeeps
    <2> HIDE DEF q
    <2>2. QED BY <2>1 DEF RebasedTo
  <1> HIDE DEF q
  <1>12. /\ BooksSound(r, u, c) /\ LeftIn(r) = LeftIn(q)
         /\ r.corrected[e] = q.corrected[e] + a
         /\ \A y \in Event : y # e => r.corrected[y] = q.corrected[y]
         /\ r.carry = q.carry /\ r.based = q.based
         /\ r.entry = q.entry /\ r.source = q.source /\ r.block = q.block
         /\ r.hold = q.hold /\ r.paidOut = q.paidOut /\ r.credit = q.credit
    BY <1>11, CorrectedKeeps, SMTT(30)
  <1> HIDE DEF r
  <1>13. /\ r.corrected[e] = b.corrected[e] + a
         /\ \A y \in Event : y # e => r.corrected[y] = b.corrected[y]
         /\ r.based = b.based /\ r.source = b.source /\ r.block = b.block
         /\ r.hold = b.hold /\ r.paidOut = b.paidOut /\ r.credit = b.credit
         /\ r.carry.base = base /\ r.carry.credited = b.carry.credited
         /\ r.carry.reversed = b.carry.reversed + back
         /\ LeftIn(r) = LeftIn(t)
         /\ \A y \in Event : r.entry[y].status = "none" <=> b.entry[y].status = "none"
    BY <1>9, <1>11, <1>12 DEF TakenBack
  <1>14. r.carry.base = Total(BaseIn(r), Event)
    <2> DEFINE f == BaseIn(b)
               g == BaseIn(r)
    <2>1. f[e] = Paid[e] - b.corrected[e] /\ g[e] = Paid[e] - (b.corrected[e] + a)
      BY <1>13 DEF BaseIn
    <2>2. \A y \in Event : y # e => f[y] = g[y]
      BY <1>13 DEF BaseIn
    <2>3. \A y \in Event : f[y] \in Int /\ g[y] \in Int
      <3> TAKE y \in Event
      <3>1. f[y] \in Int
        BY <1>4
      <3>2. CASE y = e
        BY <1>2, <2>1, <3>1, <3>2
      <3>3. CASE y # e
        BY <2>2, <3>1, <3>3
      <3>4. QED BY <3>2, <3>3
    <2>4. Total(f, Event) = b.carry.base
      BY <1>3
    <2> HIDE DEF f, g
    <2>5. Total(g, Event) = Total(f, Event) + g[e] - f[e]
      BY <2>2, <2>3, EventChange
    <2>6. Total(g, Event) = base
      BY <1>2, <2>1, <2>4, <2>5
    <2>7. QED BY <1>13, <2>6 DEF g
  <1>15. EarnedSound(r)
    <2>1. r.carry.credited - r.carry.reversed = Total(LeftIn(r), Event)
      BY <1>2, <1>3, <1>6, <1>10, <1>13
    <2>2. Total(LeftIn(r), Event) = Target(r.carry.base)
      BY <1>10, <1>13
    <2>3. \A y \in Event : r.corrected[y] <= Paid[y]
      BY <1>3, <1>13
    <2>4. QED BY <1>14, <2>1, <2>2, <2>3 DEF EarnedSound
  <1>16. Untouched(r, n)
    <2> SUFFICES ASSUME NEW y \in Event, y > n
                 PROVE  r.entry[y].status = "none" /\ ~r.based[y] /\ r.corrected[y] = 0
      BY DEF Untouched
    <2>1. y # e
      BY Lengths
    <2>2. QED BY <1>1, <1>13, <2>1 DEF Untouched
  <1>17. Reversed(b, r, e, a)
    BY <1>13 DEF Reversed
  <1>18. OrderSound(r, u, c, n)
    BY <1>12, <1>15, <1>16 DEF OrderSound
  <1> QED BY <1>17, <1>18 DEF r, q, t, s

LEMMA ReverseEventKeeps ==
  ASSUME NEW b, NEW u \in Uses, case \in Cases, ripe \in 0..Len(Paid),
         NEW n \in Nat, OrderSound(b, u, case, n),
         NEW e \in Event, e <= n, NEW a \in Nat, Correctable(b, e, a)
  PROVE  OrderSound(ReverseEvent(b, e, a), u, case, n) /\ Reversed(b, ReverseEvent(b, e, a), e, a)
  <1> DEFINE base == b.carry.base - a
             back == (b.carry.credited - b.carry.reversed) - Target(base)
             q == Rebased(TakeBack(b, Shares(Events, LeftIn(b), back)), base, back)
             m == Corrected(IF b.based[e] THEN q ELSE b, e, a)
             r == AdvanceCustomer(m)
  <1>1. ReverseEvent(b, e, a) = r
    BY DEF ReverseEvent, Corrected, Rebased, LeftIn, LeftOf
  <1>2. b.corrected[e] + a <= Paid[e]
    BY DEF Correctable
  <1>3. b.based[e] \in BOOLEAN
    BY Fields DEF OrderSound, BooksSound
  <1>4. OrderSound(m, u, case, n) /\ Reversed(b, m, e, a)
    <2>1. CASE b.based[e] = TRUE
      <3>1. m = Corrected(q, e, a)
        BY <2>1
      <3>2. /\ OrderSound(Corrected(q, e, a), u, case, n)
            /\ Reversed(b, Corrected(q, e, a), e, a)
        <4> HIDE DEF base, back
        <4>1. base = b.carry.base - a
          BY DEF base
        <4>2. back = (b.carry.credited - b.carry.reversed) - Target(base)
          BY DEF back
        <4>3. QED BY <1>2, <2>1, <4>1, <4>2, CountedCorrected
      <3> HIDE DEF m, q
      <3>3. QED BY <3>1, <3>2
    <2>2. CASE b.based[e] = FALSE
      <3>1. m = Corrected(b, e, a)
        BY <2>2
      <3>2. OrderSound(Corrected(b, e, a), u, case, n) /\ Reversed(b, Corrected(b, e, a), e, a)
        BY <1>2, <2>2, UncountedCorrected
      <3> HIDE DEF m
      <3>3. QED BY <3>1, <3>2
    <2> HIDE DEF m
    <2>3. QED BY <1>3, <2>1, <2>2
  <1> HIDE DEF m
  <1>5. BooksSound(r, u, case) /\ Advanced(m, r)
    BY <1>4, CustomerKeeps DEF OrderSound
  <1> HIDE DEF r
  <1>6. OrderSound(r, u, case, n)
    BY <1>4, <1>5, AdvanceIsSound
  <1>7. Reversed(b, r, e, a)
    BY <1>4, <1>5 DEF Reversed, Advanced
  <1> QED BY <1>1, <1>6, <1>7

(* The customer's unused credit is no one's commission.                    *)
Credited(b, x) == [b EXCEPT !.credit = x]

LEMMA CreditKeeps ==
  ASSUME NEW b, NEW u, NEW c, NEW n, OrderSound(b, u, c, n), NEW x \in Nat
  PROVE  OrderSound(Credited(b, x), u, c, n)
  <1> DEFINE r == [b EXCEPT !.credit = x]
  <1>1. BooksSound(b, u, c) /\ EarnedSound(b) /\ Untouched(b, n) /\ b \in Books
        /\ FlagsSound(b, c)
    BY DEF OrderSound, BooksSound
  <1>2. /\ r \in Books /\ r.lot = b.lot /\ r.lots = b.lots
        /\ r.entry = b.entry /\ r.event = b.event /\ r.corrected = b.corrected
        /\ r.block = b.block /\ r.hold = b.hold /\ r.pending = b.pending
        /\ r.frozen = b.frozen /\ r.available = b.available /\ r.held = b.held
        /\ r.paidOut = b.paidOut /\ r.carry = b.carry /\ r.based = b.based
        /\ r.source = b.source
    BY <1>1 DEF Books
  <1>3. Credited(b, x) = r
    BY DEF Credited
  <1> HIDE DEF r
  <1>4. LotsSound(r, u) /\ EntriesSound(r) /\ Whole(r) /\ LeftIn(r) = LeftIn(b)
    BY <1>1, <1>2, MoneySame
  <1>5. FlagsSound(r, c)
    BY <1>1, <1>2 DEF FlagsSound
  <1>6. BaseIn(r) = BaseIn(b)
    BY <1>2 DEF BaseIn
  <1>7. EarnedSound(r)
    BY <1>1, <1>2, <1>4, <1>6 DEF EarnedSound
  <1>8. Untouched(r, n)
    BY <1>1, <1>2 DEF Untouched
  <1> QED BY <1>2, <1>3, <1>4, <1>5, <1>7, <1>8 DEF OrderSound, BooksSound

LEMMA FixStep ==
  ASSUME CommissionsInv, NEW k \in DOMAIN Fix, CorrectUsage(k)
  PROVE  CommissionsInv'
  <1> DEFINE e == Fix[k].event
             a == Fix[k].amount
             r == ReverseEvent(books, e, a)
  <1>1. /\ accrued \in 0..Len(Paid) /\ ripe \in 0..accrued /\ use \in Uses /\ case \in Cases
        /\ OrderSound(books, use, case, accrued) /\ UsesSound(use) /\ Others
        /\ ClaimsSound(case, accrued) /\ accrued \in Nat /\ ripe \in 0..Len(Paid)
    <2>1. accrued \in 0..Len(Paid) /\ ripe \in 0..accrued
      BY InvIs DEF Others
    <2>2. ripe \in 0..Len(Paid) /\ accrued \in Nat
      BY <2>1, Lengths
    <2>3. QED BY <2>1, <2>2, InvIs DEF Others
  <1>2. e \in Event /\ a \in Nat
    <2>1. Fix \in Seq([event : Event, amount : Nat \ {0}])
      BY CommissionsAssumption
    <2> DEFINE R == [event : Event, amount : Nat \ {0}]
    <2>2. DOMAIN Fix = 1..Len(Fix) /\ Fix \in [1..Len(Fix) -> R]
      <3> HIDE DEF R
      <3>1. Fix \in Seq(R)
        BY <2>1 DEF R
      <3>2. QED BY <3>1, SeqIsFunction
    <2>3. Fix[k] \in R
      <3> HIDE DEF R
      <3>1. QED BY <2>2
    <2>4. QED BY <2>3
  <1>3. /\ e <= accrued /\ Correctable(books, e, a) /\ fixed' = fixed \cup {k}
        /\ books' = [r EXCEPT !.credit = @ + a]
        /\ UNCHANGED <<accrued, ripe, blocked, use, case>>
    BY DEF CorrectUsage
  <1> HIDE DEF e, a
  <1>4. OrderSound(r, use, case, accrued)
    BY <1>1, <1>2, <1>3, ReverseEventKeeps
  <1> HIDE DEF r
  <1>5. r.credit \in Nat
    BY <1>4, Fields DEF OrderSound, BooksSound
  <1>6. books' = Credited(r, r.credit + a)
    BY <1>3 DEF Credited
  <1>7. OrderSound(books', use, case, accrued)
    BY <1>2, <1>4, <1>5, <1>6, CreditKeeps
  <1>8. Others'
    BY <1>1, <1>3 DEF Others
  <1> QED BY <1>1, <1>3, <1>7, <1>8 DEF CommissionsInv, OrderSound

-----------------------------------------------------------------------------
(* Reservations, holds and blocks.                                         *)

(* Only what is reserved and what is blocked of the lots changes.          *)
OnlyHolds(b, r) ==
  /\ \A e \in Event : /\ r.lot[e].amount = b.lot[e].amount
                      /\ r.lot[e].consumed = b.lot[e].consumed
  /\ r.lots = b.lots /\ r.available = b.available /\ r.entry = b.entry
  /\ r.frozen = b.frozen /\ r.pending = b.pending /\ r.paidOut = b.paidOut

LEMMA HoldsMove ==
  ASSUME NEW b, NEW u \in Uses, NEW c, BooksSound(b, u, c), NEW v \in Uses,
         NEW r \in Books, OnlyHolds(b, r),
         \A e \in Event : /\ Blocked(r, e) <= r.lot[e].amount - r.lot[e].consumed
                          /\ r.lot[e].reserved = DisputeHeld(r, e) + UsedOf(v, e)
                          /\ Unreserved(r, e) >= 0,
         r.held = Total(ReservedIn(r), Event)
  PROVE  LotsSound(r, v) /\ EntriesSound(r) /\ Whole(r) /\ LeftIn(r) = LeftIn(b)
  <1>1. b \in Books /\ LotsSound(b, u) /\ EntriesSound(b) /\ Whole(b)
    BY DEF BooksSound
  <1>2. /\ \A e \in Event : /\ r.lot[e].amount = b.lot[e].amount
                            /\ r.lot[e].consumed = b.lot[e].consumed
        /\ r.lots = b.lots /\ r.available = b.available /\ r.entry = b.entry
        /\ r.frozen = b.frozen /\ r.pending = b.pending /\ r.paidOut = b.paidOut
    BY DEF OnlyHolds
  <1>3. \A e \in Event : LotSound(r, v, e)
    <2> TAKE e \in Event
    <2>1. LotSound(b, u, e) /\ (Awaits(r, e) <=> Awaits(b, e))
      BY <1>1, <1>2 DEF LotsSound, Awaits
    <2>2. ASSUME Awaits(r, e) PROVE r.lot[e] = NoLot
      <3>1. b.lot[e] = NoLot
        BY <1>1, <2>1, <2>2, NothingYet
      <3>2. /\ r.lot[e] \in Lot /\ r.lot[e].reserved \in Nat
            /\ r.lot[e].amount = 0 /\ r.lot[e].consumed = 0
        BY <1>2, <3>1, LotFields DEF NoLot
      <3>3. r.lot[e].reserved = 0
        <4>1. Unreserved(r, e) >= 0
          OBVIOUS
        <4>2. QED BY <3>2, <4>1 DEF Unreserved
      <3>4. QED BY <3>2, <3>3 DEF Lot, NoLot
    <2>3. /\ r.lot[e].amount > 0 => e \in Range(r.lots)
          /\ e \in Range(r.lots) => ~Awaits(r, e)
      BY <1>2, <2>1 DEF LotSound
    <2>4. QED BY <2>2, <2>3 DEF LotSound
  <1>4. r.available = Total(InLots(r), Event)
    <2>1. Total(InLots(r), Event) = Total(InLots(b), Event)
      BY <1>1, <1>2, InLotsStay
    <2>2. QED BY <1>1, <1>2, <2>1 DEF LotsSound
  <1>5. LotsSound(r, v)
    BY <1>1, <1>2, <1>3, <1>4 DEF LotsSound
  <1>6. EntriesSound(r)
    BY <1>1, <1>2, EntriesSame
  <1>7. LeftIn(r) = LeftIn(b)
    BY <1>2 DEF LeftIn, LeftOf
  <1>8. Whole(r)
    BY <1>1, <1>2, <1>7 DEF Whole
  <1> QED BY <1>5, <1>6, <1>7, <1>8

(* More of every lot is reserved, or less.                                 *)
ReservedBy(b, r) ==
  /\ r.event = b.event /\ r.corrected = b.corrected /\ r.based = b.based
  /\ r.entry = b.entry /\ r.carry = b.carry /\ r.lots = b.lots
  /\ r.pending = b.pending /\ r.frozen = b.frozen /\ r.available = b.available
  /\ r.paidOut = b.paidOut /\ r.credit = b.credit
  /\ r.source = b.source /\ r.block = b.block /\ r.hold = b.hold
  /\ \A e \in Event : /\ r.lot[e].amount = b.lot[e].amount
                      /\ r.lot[e].consumed = b.lot[e].consumed

LEMMA ReserveEffect ==
  ASSUME NEW b \in Books, NEW s \in [Event -> Nat], b.held = Total(ReservedIn(b), Event)
  PROVE  LET r == Reserve(b, s) IN
         /\ r \in Books /\ ReservedBy(b, r) /\ r.held = Total(ReservedIn(r), Event)
         /\ \A e \in Event : r.lot[e].reserved = b.lot[e].reserved + s[e]
  <1> DEFINE L == [e \in Event |-> [b.lot[e] EXCEPT !.reserved = b.lot[e].reserved + s[e]]]
             H == b.held + Total(s, Event)
             r == [b EXCEPT !.lot = L, !.held = H]
  <1>1. b.lot \in [Event -> Lot] /\ b.held \in Nat /\ Total(s, Event) \in Nat
    BY Fields, SharesAreNat
  <1>2. /\ L \in [Event -> Lot]
        /\ \A e \in Event : /\ L[e].amount = b.lot[e].amount
                            /\ L[e].reserved = b.lot[e].reserved + s[e]
                            /\ L[e].consumed = b.lot[e].consumed
    BY <1>1 DEF Lot
  <1>3. H \in Nat
    BY <1>1
  <1>4. Reserve(b, s) = r
    BY DEF Reserve
  <1> HIDE DEF L, H
  <1>5. /\ r \in Books /\ r.held = H /\ r.lot = L
        /\ r.event = b.event /\ r.corrected = b.corrected /\ r.based = b.based
        /\ r.entry = b.entry /\ r.carry = b.carry /\ r.lots = b.lots
        /\ r.pending = b.pending /\ r.frozen = b.frozen /\ r.available = b.available
        /\ r.paidOut = b.paidOut /\ r.credit = b.credit
        /\ r.source = b.source /\ r.block = b.block /\ r.hold = b.hold
    BY <1>2, <1>3 DEF Books
  <1> HIDE DEF r
  <1>6. ReservedBy(b, r)
    BY <1>2, <1>5 DEF ReservedBy
  <1>7. r.held = Total(ReservedIn(r), Event)
    <2>1. \A e \in Event : r.lot[e].reserved = b.lot[e].reserved + s[e]
      BY <1>2, <1>5
    <2>2. Total(ReservedIn(r), Event) = Total(ReservedIn(b), Event) + Total(s, Event)
      BY <1>5, <2>1, ReservedMove
    <2>3. QED BY <1>5, <2>2 DEF H
  <1> QED BY <1>2, <1>4, <1>5, <1>6, <1>7

LEMMA UnreserveEffect ==
  ASSUME NEW b \in Books, NEW s \in [Event -> Nat], b.held = Total(ReservedIn(b), Event),
         \A e \in Event : s[e] <= b.lot[e].reserved
  PROVE  LET r == Unreserve(b, s) IN
         /\ r \in Books /\ ReservedBy(b, r) /\ r.held = Total(ReservedIn(r), Event)
         /\ \A e \in Event : r.lot[e].reserved = b.lot[e].reserved - s[e]
  <1> DEFINE L == [e \in Event |-> [b.lot[e] EXCEPT !.reserved = b.lot[e].reserved - s[e]]]
             H == b.held - Total(s, Event)
             r == [b EXCEPT !.lot = L, !.held = H]
  <1>1. b.lot \in [Event -> Lot] /\ b.held \in Nat /\ Total(s, Event) \in Nat
    BY Fields, SharesAreNat
  <1>2. /\ L \in [Event -> Lot]
        /\ \A e \in Event : /\ L[e].amount = b.lot[e].amount
                            /\ L[e].reserved = b.lot[e].reserved - s[e]
                            /\ L[e].consumed = b.lot[e].consumed
    <2>1. \A e \in Event : b.lot[e].reserved - s[e] \in Nat
      BY <1>1 DEF Lot
    <2>2. QED BY <1>1, <2>1 DEF Lot
  <1>3. Total(s, Event) <= b.held
    <2>1. \A e \in Event : s[e] \in Int /\ ReservedIn(b)[e] \in Int /\ s[e] <= ReservedIn(b)[e]
      BY LotFields DEF ReservedIn
    <2>2. QED BY <2>1, Lengths, SumMonotonic DEF Total
  <1>4. H \in Nat
    BY <1>1, <1>3
  <1>5. Unreserve(b, s) = r
    BY DEF Unreserve
  <1> HIDE DEF L, H
  <1>6. /\ r \in Books /\ r.held = H /\ r.lot = L
        /\ r.event = b.event /\ r.corrected = b.corrected /\ r.based = b.based
        /\ r.entry = b.entry /\ r.carry = b.carry /\ r.lots = b.lots
        /\ r.pending = b.pending /\ r.frozen = b.frozen /\ r.available = b.available
        /\ r.paidOut = b.paidOut /\ r.credit = b.credit
        /\ r.source = b.source /\ r.block = b.block /\ r.hold = b.hold
    BY <1>2, <1>4 DEF Books
  <1> HIDE DEF r
  <1>7. ReservedBy(b, r)
    BY <1>2, <1>6 DEF ReservedBy
  <1>8. r.held = Total(ReservedIn(r), Event)
    <2>1. \A e \in Event : b.lot[e].reserved = r.lot[e].reserved + s[e]
      <3> TAKE e \in Event
      <3>1. b.lot[e].reserved \in Nat /\ s[e] \in Nat
        BY LotFields
      <3>2. r.lot[e].reserved = b.lot[e].reserved - s[e]
        BY <1>2, <1>6
      <3>3. QED BY <3>1, <3>2
    <2>2. Total(ReservedIn(b), Event) = Total(ReservedIn(r), Event) + Total(s, Event)
      BY <1>6, <2>1, ReservedMove
    <2>3. Total(ReservedIn(r), Event) \in Int
      <3>1. \A e \in Event : ReservedIn(r)[e] \in Nat
        BY <1>6, LotFields DEF ReservedIn
      <3>2. QED BY <3>1, Lengths, SumNat DEF Total
    <2>4. QED BY <1>1, <1>6, <2>2, <2>3 DEF H
  <1> QED BY <1>2, <1>5, <1>6, <1>7, <1>8

(* A use gets other shares.                                                *)
UseAs(u, x, st, s) == [u EXCEPT ![x] = [status |-> st, share |-> s]]

LEMMA UsedMoves ==
  ASSUME NEW u \in Uses, NEW x \in Use, NEW st \in UseStatus, NEW s \in [Event -> Nat]
  PROVE  LET v == UseAs(u, x, st, s) IN
         /\ v \in Uses /\ v[x].status = st /\ v[x].share = s
         /\ \A y \in Use : y # x => v[y] = u[y]
         /\ \A e \in Event : /\ u[x].share[e] \in Nat /\ u[x].share[e] <= UsedOf(u, e)
                             /\ UsedOf(v, e) = UsedOf(u, e) + s[e] - u[x].share[e]
  <1> DEFINE new == [status |-> st, share |-> s]
             v == [u EXCEPT ![x] = new]
  <1>1. /\ v \in Uses /\ v[x].status = st /\ v[x].share = s
        /\ \A y \in Use : y # x => v[y] = u[y]
    BY DEF Uses
  <1> HIDE DEF v, new
  <1>2. ASSUME NEW e \in Event
        PROVE  /\ u[x].share[e] \in Nat /\ u[x].share[e] <= UsedOf(u, e)
               /\ UsedOf(v, e) = UsedOf(u, e) + s[e] - u[x].share[e]
    <2> DEFINE f == [y \in Use |-> u[y].share[e]]
               g == [y \in Use |-> v[y].share[e]]
    <2>1. /\ \A y \in Use : f[y] \in Nat /\ g[y] \in Nat
          /\ \A y \in Use \ {x} : f[y] = g[y]
          /\ f[x] = u[x].share[e] /\ g[x] = s[e]
      BY <1>1 DEF Uses
    <2>2. UsedOf(u, e) = SumFunctionOnSet(f, Use) /\ UsedOf(v, e) = SumFunctionOnSet(g, Use)
      BY DEF UsedOf, Total
    <2>3. IsFiniteSet(Use) /\ \A y \in Use : f[y] \in Int /\ g[y] \in Int
      BY <2>1, Lengths
    <2> HIDE DEF f, g
    <2>4. SumFunctionOnSet(g, Use) = SumFunctionOnSet(f, Use) + g[x] - f[x]
      BY <2>1, <2>3, SumChange
    <2>5. f[x] <= SumFunctionOnSet(f, Use)
      BY <2>1, <2>3, SumAtLeast
    <2>6. QED BY <2>1, <2>2, <2>4, <2>5
  <1>3. v = UseAs(u, x, st, s)
    BY DEF v, new, UseAs
  <1> QED BY <1>1, <1>2, <1>3

-----------------------------------------------------------------------------
(* Uses of available commission.                                           *)

(* A lot reserves for its disputes and its uses, and no more than it has.  *)
LEMMA ReservedIsSound ==
  ASSUME NEW b, NEW u \in Uses, NEW c, NEW n, OrderSound(b, u, c, n), NEW v \in Uses,
         NEW r \in Books, ReservedBy(b, r), r.held = Total(ReservedIn(r), Event),
         \A e \in Event : /\ r.lot[e].reserved = DisputeHeld(b, e) + UsedOf(v, e)
                          /\ r.lot[e].reserved <= b.lot[e].amount - b.lot[e].consumed
  PROVE  OrderSound(r, v, c, n)
  <1>1. BooksSound(b, u, c) /\ EarnedSound(b) /\ Untouched(b, n) /\ FlagsSound(b, c)
        /\ LotsSound(b, u) /\ b \in Books
    BY DEF OrderSound, BooksSound
  <1>2. /\ r.corrected = b.corrected /\ r.based = b.based
        /\ r.entry = b.entry /\ r.carry = b.carry
        /\ r.source = b.source /\ r.block = b.block /\ r.hold = b.hold
    BY DEF ReservedBy
  <1>3. OnlyHolds(b, r)
    BY DEF ReservedBy, OnlyHolds
  <1>4. \A e \in Event : Blocked(r, e) = Blocked(b, e) /\ DisputeHeld(r, e) = DisputeHeld(b, e)
    BY <1>2 DEF Blocked, DisputeHeld
  <1>5. \A e \in Event : /\ Blocked(r, e) <= r.lot[e].amount - r.lot[e].consumed
                         /\ r.lot[e].reserved = DisputeHeld(r, e) + UsedOf(v, e)
                         /\ Unreserved(r, e) >= 0
    <2> TAKE e \in Event
    <2>1. /\ r.lot[e].amount = b.lot[e].amount /\ r.lot[e].consumed = b.lot[e].consumed
          /\ Blocked(b, e) <= b.lot[e].amount - b.lot[e].consumed
      BY <1>1, <1>3 DEF OnlyHolds, LotsSound, LotSound
    <2>2. PICK x \in Nat, y \in Nat, z \in Nat :
            x = r.lot[e].amount /\ y = r.lot[e].reserved /\ z = r.lot[e].consumed
      BY LotFields
    <2>3. Unreserved(r, e) >= 0
      <3>1. y <= x - z
        BY <2>1, <2>2
      <3>2. x - y - z >= 0
        BY <2>2, <3>1
      <3>3. QED BY <2>2, <3>2 DEF Unreserved
    <2>4. QED BY <1>4, <2>1, <2>3
  <1>6. LotsSound(r, v) /\ EntriesSound(r) /\ Whole(r) /\ LeftIn(r) = LeftIn(b)
    BY <1>1, <1>3, <1>5, HoldsMove
  <1>7. FlagsSound(r, c)
    BY <1>1, <1>2 DEF FlagsSound
  <1>8. BaseIn(r) = BaseIn(b)
    BY <1>2 DEF BaseIn
  <1>9. EarnedSound(r) /\ Untouched(r, n)
    BY <1>1, <1>2, <1>6, <1>8 DEF EarnedSound, Untouched
  <1> QED BY <1>6, <1>7, <1>9 DEF OrderSound, BooksSound

(* What is reserved of a lot, and for whom.                                *)
LEMMA ReservedOf ==
  ASSUME NEW b \in Books, NEW u \in Uses, LotsSound(b, u), NEW e \in Event
  PROVE  /\ b.lot[e].amount \in Nat /\ b.lot[e].reserved \in Nat /\ b.lot[e].consumed \in Nat
         /\ DisputeHeld(b, e) \in Nat /\ UsedOf(u, e) \in Nat
         /\ b.lot[e].reserved = DisputeHeld(b, e) + UsedOf(u, e)
         /\ b.lot[e].reserved <= b.lot[e].amount - b.lot[e].consumed
         /\ b.lot[e].reserved + Unreserved(b, e) = b.lot[e].amount - b.lot[e].consumed
  <1>1. /\ b.lot[e].amount \in Nat /\ b.lot[e].reserved \in Nat /\ b.lot[e].consumed \in Nat
        /\ DisputeHeld(b, e) \in Nat /\ UsedOf(u, e) \in Nat
    BY LotFields, Blocks, UsedIsNat
  <1>2. b.lot[e].reserved = DisputeHeld(b, e) + UsedOf(u, e) /\ Unreserved(b, e) >= 0
    BY DEF LotsSound, LotSound
  <1>3. PICK x \in Nat, y \in Nat, z \in Nat :
          x = b.lot[e].amount /\ y = b.lot[e].reserved /\ z = b.lot[e].consumed
    BY <1>1
  <1>4. Unreserved(b, e) = x - y - z
    BY <1>3 DEF Unreserved
  <1>5. y <= x - z /\ y + Unreserved(b, e) = x - z
    BY <1>2, <1>3, <1>4
  <1> QED BY <1>1, <1>2, <1>3, <1>5

LEMMA ReserveUseSound ==
  ASSUME NEW b, NEW u \in Uses, NEW c, NEW n, OrderSound(b, u, c, n),
         NEW x \in Use, u[x].share = Nothing, NEW st \in UseStatus,
         NEW s \in [Event -> Nat], \A e \in Event : s[e] <= Spendable(b)[e]
  PROVE  OrderSound(Reserve(b, s), UseAs(u, x, st, s), c, n)
  <1> DEFINE r == Reserve(b, s)
             v == UseAs(u, x, st, s)
  <1>1. b \in Books /\ LotsSound(b, u) /\ b.held = Total(ReservedIn(b), Event)
    BY DEF OrderSound, BooksSound, LotsSound
  <1>2. /\ r \in Books /\ ReservedBy(b, r) /\ r.held = Total(ReservedIn(r), Event)
        /\ \A e \in Event : r.lot[e].reserved = b.lot[e].reserved + s[e]
    BY <1>1, ReserveEffect
  <1>3. v \in Uses /\ \A e \in Event : UsedOf(v, e) = UsedOf(u, e) + s[e] - u[x].share[e]
    BY UsedMoves
  <1> HIDE DEF r, v
  <1>4. \A e \in Event : /\ r.lot[e].reserved = DisputeHeld(b, e) + UsedOf(v, e)
                         /\ r.lot[e].reserved <= b.lot[e].amount - b.lot[e].consumed
    <2> TAKE e \in Event
    <2>1. u[x].share[e] = 0
      BY DEF Nothing
    <2>2. LotSound(b, u, e) /\ s[e] \in Nat /\ s[e] <= Spendable(b)[e]
      BY <1>1 DEF LotsSound
    <2>3. Spendable(b)[e] \in Nat /\ Spendable(b)[e] <= Unreserved(b, e)
          /\ Unreserved(b, e) \in Nat
      BY <1>1, <2>2, SpendableLeaves
    <2>4. /\ b.lot[e].amount \in Nat /\ b.lot[e].reserved \in Nat /\ b.lot[e].consumed \in Nat
          /\ DisputeHeld(b, e) \in Nat /\ UsedOf(u, e) \in Nat
          /\ b.lot[e].reserved = DisputeHeld(b, e) + UsedOf(u, e)
          /\ b.lot[e].reserved + Unreserved(b, e) = b.lot[e].amount - b.lot[e].consumed
      BY <1>1, ReservedOf
    <2>5. UsedOf(v, e) = UsedOf(u, e) + s[e] - 0
      BY <1>3, <2>1
    <2>6. r.lot[e].reserved = b.lot[e].reserved + s[e]
      BY <1>2
    <2>7. QED BY <2>2, <2>3, <2>4, <2>5, <2>6
  <1>5. OrderSound(r, v, c, n)
    BY <1>2, <1>3, <1>4, ReservedIsSound
  <1> QED BY <1>5 DEF r, v

LEMMA ReleaseUseSound ==
  ASSUME NEW b, NEW u \in Uses, NEW c, NEW n, OrderSound(b, u, c, n),
         NEW x \in Use, NEW st \in UseStatus
  PROVE  LET r == Unreserve(b, u[x].share)
             v == UseAs(u, x, st, Nothing)
         IN  /\ OrderSound(r, v, c, n) /\ ReservedBy(b, r)
             /\ \A e \in Event : r.lot[e].reserved = b.lot[e].reserved - u[x].share[e]
  <1> DEFINE s == u[x].share
             r == Unreserve(b, s)
             v == UseAs(u, x, st, Nothing)
  <1>1. b \in Books /\ LotsSound(b, u) /\ b.held = Total(ReservedIn(b), Event)
    BY DEF OrderSound, BooksSound, LotsSound
  <1>2. s \in [Event -> Nat]
    BY DEF Uses
  <1>3. /\ Nothing \in [Event -> Nat] /\ v \in Uses
        /\ \A e \in Event : /\ s[e] \in Nat /\ s[e] <= UsedOf(u, e)
                            /\ UsedOf(v, e) = UsedOf(u, e) + 0 - s[e]
    <2>1. Nothing \in [Event -> Nat] /\ \A e \in Event : Nothing[e] = 0
      BY DEF Nothing
    <2>2. QED BY <2>1, UsedMoves
  <1> HIDE DEF s, v
  <1>4. \A e \in Event : s[e] <= b.lot[e].reserved
    <2> TAKE e \in Event
    <2>1. /\ DisputeHeld(b, e) \in Nat /\ UsedOf(u, e) \in Nat
          /\ b.lot[e].reserved = DisputeHeld(b, e) + UsedOf(u, e)
      BY <1>1, ReservedOf
    <2>2. QED BY <1>3, <2>1
  <1>5. /\ r \in Books /\ ReservedBy(b, r) /\ r.held = Total(ReservedIn(r), Event)
        /\ \A e \in Event : r.lot[e].reserved = b.lot[e].reserved - s[e]
    BY <1>1, <1>2, <1>4, UnreserveEffect
  <1> HIDE DEF r
  <1>6. \A e \in Event : /\ r.lot[e].reserved = DisputeHeld(b, e) + UsedOf(v, e)
                         /\ r.lot[e].reserved <= b.lot[e].amount - b.lot[e].consumed
    <2> TAKE e \in Event
    <2>1. /\ b.lot[e].amount \in Nat /\ b.lot[e].reserved \in Nat /\ b.lot[e].consumed \in Nat
          /\ DisputeHeld(b, e) \in Nat /\ UsedOf(u, e) \in Nat
          /\ b.lot[e].reserved = DisputeHeld(b, e) + UsedOf(u, e)
          /\ b.lot[e].reserved <= b.lot[e].amount - b.lot[e].consumed
      BY <1>1, ReservedOf
    <2>2. UsedOf(v, e) = UsedOf(u, e) + 0 - s[e] /\ s[e] \in Nat
      BY <1>3
    <2>3. r.lot[e].reserved = b.lot[e].reserved - s[e]
      BY <1>5
    <2>4. QED BY <2>1, <2>2, <2>3
  <1>7. OrderSound(r, v, c, n)
    BY <1>3, <1>5, <1>6, ReservedIsSound
  <1> QED BY <1>5, <1>7 DEF r, v, s

(* A payout leaves the lots and the account at once.                       *)
PaidFrom(b, s, a) == [Recover(b, s) EXCEPT !.paidOut = @ + a]

LEMMA PaidFromSound ==
  ASSUME NEW b, NEW u \in Uses, NEW c, NEW n, OrderSound(b, u, c, n),
         NEW s \in [Event -> Nat],
         \A e \in Event : /\ s[e] <= Unreserved(b, e)
                          /\ Blocked(b, e) <= b.lot[e].amount - b.lot[e].consumed - s[e],
         NEW a, a = Total(s, Event)
  PROVE  OrderSound(PaidFrom(b, s, a), u, c, n)
  <1> DEFINE q == Recover(b, s)
             r == [q EXCEPT !.paidOut = q.paidOut + a]
  <1>1. /\ b \in Books /\ LotsSound(b, u) /\ EntriesSound(b) /\ Whole(b) /\ FlagsSound(b, c)
        /\ EarnedSound(b) /\ Untouched(b, n)
    BY DEF OrderSound, BooksSound
  <1>2. a \in Nat /\ a <= b.available /\ LotsSound(q, u)
    BY <1>1, RecoverLots
  <1>3. /\ q \in Books /\ q.available = b.available - a
        /\ q.event = b.event /\ q.corrected = b.corrected /\ q.based = b.based
        /\ q.entry = b.entry /\ q.carry = b.carry /\ q.lots = b.lots
        /\ q.pending = b.pending /\ q.frozen = b.frozen
        /\ q.paidOut = b.paidOut
        /\ q.source = b.source /\ q.block = b.block /\ q.hold = b.hold
    BY <1>1, <1>2, RecoverEffect
  <1>4. PaidFrom(b, s, a) = r
    BY DEF PaidFrom
  <1> HIDE DEF q
  <1>5. /\ r \in Books /\ r.paidOut = q.paidOut + a /\ r.available = q.available
        /\ r.lot = q.lot /\ r.lots = q.lots /\ r.held = q.held
        /\ r.corrected = q.corrected /\ r.based = q.based
        /\ r.entry = q.entry /\ r.carry = q.carry
        /\ r.pending = q.pending /\ r.frozen = q.frozen
        /\ r.source = q.source /\ r.block = q.block /\ r.hold = q.hold
    <2>1. q.paidOut + a \in Nat
      BY <1>2, <1>3, Fields
    <2>2. QED BY <1>3, <2>1 DEF Books
  <1> HIDE DEF r
  <1>6. LotsSound(r, u)
    <2>1. \A e \in Event : Awaits(r, e) => Awaits(q, e)
      BY <1>5 DEF Awaits
    <2>2. QED BY <1>2, <1>5, <2>1, LotsSame
  <1>7. EntriesSound(r)
    BY <1>1, <1>3, <1>5, EntriesSame
  <1>8. LeftIn(r) = LeftIn(b) /\ BaseIn(r) = BaseIn(b)
    BY <1>3, <1>5 DEF LeftIn, LeftOf, BaseIn
  <1>9. Whole(r)
    <2>1. /\ Total(LeftIn(b), Event) + b.pending = b.frozen + b.available + b.paidOut
          /\ b.pending \in Nat /\ b.frozen \in Nat /\ b.available \in Nat /\ b.paidOut \in Nat
      BY <1>1, Fields DEF Whole
    <2>2. b.frozen + b.available + b.paidOut = b.frozen + (b.available - a) + (b.paidOut + a)
      BY <1>2, <2>1
    <2>3. QED BY <1>3, <1>5, <1>8, <2>1, <2>2 DEF Whole
  <1>10. FlagsSound(r, c) /\ EarnedSound(r) /\ Untouched(r, n)
    BY <1>1, <1>3, <1>5, <1>8 DEF FlagsSound, EarnedSound, Untouched
  <1> QED BY <1>4, <1>5, <1>6, <1>7, <1>9, <1>10 DEF OrderSound, BooksSound

LEMMA Here ==
  ASSUME CommissionsInv
  PROVE  /\ accrued \in Nat /\ accrued <= Len(Paid) /\ ripe \in 0..Len(Paid)
         /\ use \in Uses /\ case \in Cases /\ Others
         /\ OrderSound(books, use, case, accrued) /\ BooksSound(books, use, case)
         /\ UsesSound(use) /\ ClaimsSound(case, accrued) /\ books \in Books
         /\ LotsSound(books, use)
  <1>1. accrued \in 0..Len(Paid) /\ ripe \in 0..accrued
    BY InvIs DEF Others
  <1>2. ripe \in 0..Len(Paid) /\ accrued \in Nat /\ accrued <= Len(Paid)
    BY <1>1, Lengths
  <1> QED BY <1>2, InvIs DEF Others, OrderSound, BooksSound

(* What a use changes.                                                     *)
LEMMA UseStep ==
  ASSUME CommissionsInv, NEW x \in Use, NEW st \in UseStatus, NEW s \in [Event -> Nat],
         use' = UseAs(use, x, st, s), OrderSound(books', UseAs(use, x, st, s), case, accrued),
         st \in Reserving => Total(s, Event) = Amount[x],
         st \notin Reserving => s = Nothing,
         UNCHANGED <<accrued, ripe, blocked, case, fixed>>
  PROVE  CommissionsInv'
  <1>1. Others /\ UsesSound(use) /\ ClaimsSound(case, accrued) /\ use \in Uses
    BY Here
  <1>2. /\ use' \in Uses /\ use'[x].status = st /\ use'[x].share = s
        /\ \A y \in Use : y # x => use'[y] = use[y]
    BY <1>1, UsedMoves
  <1>3. UsesSound(use')
    <2> SUFFICES ASSUME NEW y \in Use
                 PROVE /\ use'[y].status \in Reserving => Total(use'[y].share, Event) = Amount[y]
                       /\ use'[y].status \notin Reserving => use'[y].share = Nothing
      BY DEF UsesSound
    <2>1. CASE y = x
      BY <1>2, <2>1
    <2>2. CASE y # x
      <3>1. use'[y] = use[y]
        BY <1>2, <2>2
      <3>2. QED BY <1>1, <3>1 DEF UsesSound
    <2>3. QED BY <2>1, <2>2
  <1>4. Others'
    BY <1>1, <1>2 DEF Others
  <1>5. OrderSound(books', use', case', accrued') /\ ClaimsSound(case', accrued')
    BY <1>1
  <1> QED BY <1>3, <1>4, <1>5 DEF CommissionsInv, OrderSound

(* A reservation: the whole amount is shared out.                          *)
LEMMA ReserveStep ==
  ASSUME CommissionsInv, NEW x \in Use, use[x].status \notin Reserving,
         NEW st \in Reserving, NEW b, OrderSound(b, use, case, accrued), ReserveUse(b, x, st)
  PROVE  CommissionsInv'
  <1> DEFINE limit == Spendable(b)
             s == Shares(b.lots, limit, Amount[x])
  <1>1. use \in Uses /\ UsesSound(use) /\ b \in Books /\ LotsSound(b, use)
    BY Here DEF OrderSound, BooksSound
  <1>2. /\ Total(limit, Event) >= Amount[x]
        /\ books' = Reserve(b, s) /\ use' = UseAs(use, x, st, s)
        /\ UNCHANGED <<accrued, ripe, blocked, case, fixed>>
    BY DEF ReserveUse, UseAs
  <1>3. /\ limit \in [Event -> Nat] /\ Total(limit, Event) \in Nat
        /\ b.lots \in Seq(Event) /\ Distinct(b.lots)
        /\ \A e \in Event : limit[e] > 0 => e \in Range(b.lots)
    BY <1>1, SpendableFits
  <1>4. Amount[x] \in Nat
    BY CommissionsAssumption
  <1>5. Amount[x] <= Total(limit, Event)
    BY <1>2, <1>3, <1>4
  <1>6. use[x].share = Nothing
    BY <1>1 DEF UsesSound
  <1>7. st \in UseStatus
    BY DEF UseStatus
  <1> HIDE DEF limit
  <1>8. /\ s \in [Event -> Nat] /\ \A e \in Event : s[e] <= limit[e]
        /\ Total(s, Event) = Amount[x]
    <2>1. s \in [Event -> Nat] /\ \A e \in Event : s[e] <= limit[e]
      BY <1>3, <1>4, SharesAddUp
    <2>2. Total(s, Event) = Amount[x]
      BY <1>3, <1>4, <1>5, SharesReachAmount
    <2>3. QED BY <2>1, <2>2
  <1> HIDE DEF s
  <1>9. OrderSound(Reserve(b, s), UseAs(use, x, st, s), case, accrued)
    BY <1>1, <1>6, <1>7, <1>8, ReserveUseSound DEF limit
  <1> QED BY <1>2, <1>7, <1>8, <1>9, UseStep

LEMMA ReleaseStep ==
  ASSUME CommissionsInv, NEW x \in Use, NEW st \in UseStatus \ Reserving, ReleaseUse(x, st)
  PROVE  CommissionsInv'
  <1>1. use \in Uses /\ OrderSound(books, use, case, accrued)
    BY Here
  <1>2. /\ books' = Unreserve(books, use[x].share) /\ use' = UseAs(use, x, st, Nothing)
        /\ UNCHANGED <<accrued, ripe, blocked, case, fixed>>
    BY DEF ReleaseUse, UseAs
  <1>3. OrderSound(books', UseAs(use, x, st, Nothing), case, accrued)
    BY <1>1, <1>2, ReleaseUseSound
  <1>4. Nothing \in [Event -> Nat]
    BY DEF Nothing
  <1> QED BY <1>2, <1>3, <1>4, UseStep

(* A payout: what it takes of a lot was not blocked, or is covered.        *)
LEMMA ConsumeStep ==
  ASSUME CommissionsInv, NEW x \in Use, use[x].status \in Reserving,
         NEW st \in UseStatus \ Reserving, ConsumeUse(x, st)
  PROVE  CommissionsInv'
  <1> DEFINE s == use[x].share
             q == Unreserve(books, s)
             v == UseAs(use, x, st, Nothing)
  <1>1. /\ use \in Uses /\ OrderSound(books, use, case, accrued) /\ UsesSound(use)
        /\ books \in Books /\ LotsSound(books, use)
    BY Here
  <1>2. /\ RequireExecution(x)
        /\ books' = PaidFrom(q, s, Amount[x]) /\ use' = v
        /\ UNCHANGED <<accrued, ripe, blocked, case, fixed>>
    BY DEF ConsumeUse, UseAs, PaidFrom
  <1>3. /\ OrderSound(q, v, case, accrued) /\ ReservedBy(books, q)
        /\ \A e \in Event : q.lot[e].reserved = books.lot[e].reserved - s[e]
    BY <1>1, ReleaseUseSound
  <1>4. /\ s \in [Event -> Nat] /\ Nothing \in [Event -> Nat] /\ v \in Uses
        /\ \A e \in Event : s[e] \in Nat /\ s[e] <= UsedOf(use, e)
    <2>1. s \in [Event -> Nat] /\ Nothing \in [Event -> Nat]
      BY <1>1 DEF Uses, Nothing
    <2>2. QED BY <1>1, <2>1, UsedMoves
  <1>5. Total(s, Event) = Amount[x]
    BY <1>1 DEF UsesSound
  <1>6. \A e \in Event : s[e] > 0 =>
          Blocked(books, e) <= Unreserved(books, e) + DisputeHeld(books, e)
    BY <1>2 DEF RequireExecution
  <1> HIDE DEF s, q, v
  <1>7. \A e \in Event : /\ s[e] <= Unreserved(q, e)
                         /\ Blocked(q, e) <= q.lot[e].amount - q.lot[e].consumed - s[e]
    <2> TAKE e \in Event
    <2>1. Blocked(q, e) = Blocked(books, e)
      BY <1>3 DEF ReservedBy, Blocked
    <2>2. /\ q.lot[e].amount = books.lot[e].amount
          /\ q.lot[e].consumed = books.lot[e].consumed
          /\ q.lot[e].reserved = books.lot[e].reserved - s[e]
      BY <1>3 DEF ReservedBy
    <2>3. /\ Blocked(books, e) \in Nat
          /\ Blocked(books, e) <= books.lot[e].amount - books.lot[e].consumed
          /\ Unreserved(books, e) >= 0
      BY <1>1, Blocks DEF LotsSound, LotSound
    <2>4. PICK a \in Nat, y \in Nat, z \in Nat, h \in Nat, w \in Nat, k \in Nat :
            /\ a = books.lot[e].amount /\ y = books.lot[e].reserved
            /\ z = books.lot[e].consumed /\ h = DisputeHeld(books, e)
            /\ w = UsedOf(use, e) /\ k = s[e] /\ y = h + w
      <3>1. /\ books.lot[e].amount \in Nat /\ books.lot[e].reserved \in Nat
            /\ books.lot[e].consumed \in Nat
            /\ DisputeHeld(books, e) \in Nat /\ UsedOf(use, e) \in Nat
            /\ books.lot[e].reserved = DisputeHeld(books, e) + UsedOf(use, e)
        BY <1>1, ReservedOf
      <3>2. s[e] \in Nat
        BY <1>4
      <3>3. QED BY <3>1, <3>2
    <2>5. k <= w /\ Unreserved(books, e) = a - y - z /\ Unreserved(q, e) = a - (y - k) - z
      BY <1>4, <2>2, <2>4 DEF Unreserved
    <2>6. k <= a - (y - k) - z
      BY <2>3, <2>4, <2>5
    <2>7. Blocked(books, e) <= a - z - k
      <3>1. CASE k = 0
        BY <2>3, <2>4, <3>1
      <3>2. CASE k # 0
        <4>1. Blocked(books, e) <= (a - y - z) + h
          BY <1>6, <2>4, <2>5, <3>2
        <4>2. QED BY <2>3, <2>4, <2>5, <4>1
      <3>3. QED BY <3>1, <3>2
    <2>8. QED BY <2>1, <2>2, <2>4, <2>5, <2>6, <2>7
  <1>8. OrderSound(PaidFrom(q, s, Amount[x]), v, case, accrued)
    BY <1>3, <1>4, <1>5, <1>7, PaidFromSound
  <1> QED BY <1>2, <1>4, <1>8, UseStep DEF v

LEMMA WithdrawalStep ==
  ASSUME CommissionsInv, NEW w \in Withdrawal,
         \/ RequestWithdrawal(w) \/ ApproveWithdrawal(w) \/ VerifyWithdrawalPaid(w)
         \/ CancelWithdrawal(w) \/ FailWithdrawal(w)
  PROVE  CommissionsInv'
  <1>1. w \in Use
    BY DEF Use
  <1>2. CASE RequestWithdrawal(w)
    <2>1. use[w].status = "none" /\ ReserveUse(AdvancePromoter(books), w, "requested")
      BY <1>2 DEF RequestWithdrawal
    <2>2. OrderSound(AdvancePromoter(books), use, case, accrued)
      <3>1. /\ BooksSound(AdvancePromoter(books), use, case)
            /\ Advanced(books, AdvancePromoter(books))
        BY Here, PromoterKeeps
      <3>2. OrderSound(books, use, case, accrued)
        BY Here
      <3>3. QED BY <3>1, <3>2, AdvanceIsSound
    <2>3. use[w].status \notin Reserving /\ "requested" \in Reserving
      BY <2>1 DEF Reserving
    <2>4. QED BY <1>1, <2>1, <2>2, <2>3, ReserveStep
  <1>3. CASE ApproveWithdrawal(w)
    <2> DEFINE s == use[w].share
    <2>1. /\ use[w].status = "requested" /\ use' = [use EXCEPT ![w].status = "approved"]
          /\ UNCHANGED <<books, accrued, ripe, blocked, case, fixed>>
      BY <1>3 DEF ApproveWithdrawal
    <2>2. use \in Uses /\ UsesSound(use) /\ OrderSound(books, use, case, accrued)
      BY Here
    <2>3. s \in [Event -> Nat] /\ Total(s, Event) = Amount[w]
      BY <1>1, <2>1, <2>2 DEF Uses, UsesSound, Reserving
    <2>4. use' = UseAs(use, w, "approved", s)
      <3>1. use[w] \in [status : UseStatus, share : [Event -> Nat]]
        BY <1>1, <2>2 DEF Uses
      <3>2. [use[w] EXCEPT !.status = "approved"] = [status |-> "approved", share |-> s]
        BY <3>1
      <3>3. use' = [use EXCEPT ![w] = [use[w] EXCEPT !.status = "approved"]]
        BY <2>1
      <3>4. QED BY <3>2, <3>3 DEF UseAs
    <2>5. "approved" \in Reserving /\ "approved" \in UseStatus
      BY DEF Reserving, UseStatus
    <2> HIDE DEF s
    <2>6. OrderSound(books, UseAs(use, w, "approved", s), case, accrued)
      <3>1. /\ UseAs(use, w, "approved", s) \in Uses
            /\ \A e \in Event : UsedOf(UseAs(use, w, "approved", s), e) = UsedOf(use, e)
        <4>1. /\ UseAs(use, w, "approved", s) \in Uses
              /\ \A e \in Event : /\ use[w].share[e] \in Nat
                                  /\ UsedOf(UseAs(use, w, "approved", s), e)
                                       = UsedOf(use, e) + s[e] - use[w].share[e]
          BY <1>1, <2>2, <2>3, <2>5, UsedMoves
        <4>2. \A e \in Event : UsedOf(use, e) \in Nat
          BY <2>2, UsedIsNat
        <4>3. QED BY <4>1, <4>2 DEF s
      <3>2. QED BY <2>2, <3>1 DEF OrderSound, BooksSound, LotsSound, LotSound
    <2>7. QED BY <1>1, <2>1, <2>3, <2>4, <2>5, <2>6, UseStep
  <1>4. CASE VerifyWithdrawalPaid(w)
    BY <1>1, <1>4, ConsumeStep DEF VerifyWithdrawalPaid, UseStatus, Reserving
  <1>5. CASE CancelWithdrawal(w)
    BY <1>1, <1>5, ReleaseStep DEF CancelWithdrawal, UseStatus, Reserving
  <1>6. CASE FailWithdrawal(w)
    BY <1>1, <1>6, ReleaseStep DEF FailWithdrawal, UseStatus, Reserving
  <1> QED BY <1>2, <1>3, <1>4, <1>5, <1>6

LEMMA PurchaseStep ==
  ASSUME CommissionsInv, NEW o \in Order, ReserveOrder(o) \/ CompleteOrder(o) \/ CloseOrder(o)
  PROVE  CommissionsInv'
  <1>1. o \in Use /\ OrderSound(books, use, case, accrued)
    BY Here DEF Use
  <1>2. CASE ReserveOrder(o)
    <2>1. /\ use[o].status \notin Reserving /\ "held" \in Reserving
          /\ ReserveUse(books, o, "held")
      BY <1>2 DEF ReserveOrder, Reserving
    <2>2. QED BY <1>1, <2>1, ReserveStep
  <1>3. CASE CompleteOrder(o)
    BY <1>1, <1>3, ConsumeStep DEF CompleteOrder, UseStatus, Reserving
  <1>4. CASE CloseOrder(o)
    BY <1>1, <1>4, ReleaseStep DEF CloseOrder, UseStatus, Reserving
  <1> QED BY <1>2, <1>3, <1>4

-----------------------------------------------------------------------------
(* Chargebacks.                                                            *)
Chargeback == [state : CaseState, applied : BOOLEAN, num : Nat, den : Nat, credit : Nat,
               claimed : [Event -> Nat], claim : [Event -> ClaimState]]
CaseAs(c, d, k) == [c EXCEPT ![d] = k]

LEMMA CaseMoves ==
  ASSUME NEW c \in Cases, NEW d \in Dispute, NEW k \in Chargeback
  PROVE  /\ CaseAs(c, d, k) \in Cases /\ CaseAs(c, d, k)[d] = k
         /\ \A x \in Dispute : x # d => CaseAs(c, d, k)[x] = c[x]
  BY DEF Cases, Chargeback, CaseAs

LEMMA CaseFields ==
  ASSUME NEW c \in Cases, NEW d \in Dispute
  PROVE  /\ c[d] \in Chargeback /\ c[d].num \in Nat /\ c[d].den \in Nat /\ c[d].credit \in Nat
         /\ c[d].claimed \in [Event -> Nat] /\ c[d].claim \in [Event -> ClaimState]
         /\ c[d].state \in CaseState /\ c[d].applied \in BOOLEAN
  BY DEF Cases, Chargeback

(* What the chargebacks block or hold of a lot, when one of them moves.    *)
Piled(f, e) == Total([x \in Dispute |-> f[x][e]], Dispute)

LEMMA DisputeChange ==
  ASSUME NEW f \in [Dispute -> [Event -> Nat]], NEW g \in [Dispute -> [Event -> Nat]],
         NEW d \in Dispute, \A x \in Dispute : x # d => g[x] = f[x], NEW e \in Event
  PROVE  /\ Piled(f, e) \in Nat /\ f[d][e] \in Nat /\ g[d][e] \in Nat /\ f[d][e] <= Piled(f, e)
         /\ Piled(g, e) = Piled(f, e) + g[d][e] - f[d][e]
  <1> DEFINE p == [x \in Dispute |-> f[x][e]]
             q == [x \in Dispute |-> g[x][e]]
  <1>1. \A x \in Dispute : p[x] \in Nat /\ q[x] \in Nat
    OBVIOUS
  <1>2. \A x \in Dispute \ {d} : p[x] = q[x]
    OBVIOUS
  <1>3. p[d] = f[d][e] /\ q[d] = g[d][e]
    OBVIOUS
  <1>4. Piled(f, e) = SumFunctionOnSet(p, Dispute) /\ Piled(g, e) = SumFunctionOnSet(q, Dispute)
    BY DEF Piled, Total
  <1> HIDE DEF p, q
  <1>5. IsFiniteSet(Dispute) /\ \A x \in Dispute : p[x] \in Int /\ q[x] \in Int
    BY <1>1, Lengths
  <1>6. SumFunctionOnSet(p, Dispute) \in Nat
    BY <1>1, <1>5, SumNat
  <1>7. p[d] <= SumFunctionOnSet(p, Dispute)
    BY <1>1, <1>5, SumAtLeast
  <1>8. SumFunctionOnSet(q, Dispute) = SumFunctionOnSet(p, Dispute) + q[d] - p[d]
    BY <1>2, <1>5, SumChange
  <1> QED BY <1>1, <1>3, <1>4, <1>6, <1>7, <1>8

LEMMA PiledIs ==
  ASSUME NEW b, NEW e
  PROVE  Blocked(b, e) = Piled(b.block, e) /\ DisputeHeld(b, e) = Piled(b.hold, e)
  BY DEF Blocked, DisputeHeld, Piled

LEMMA HoldsAreSound ==
  ASSUME NEW b, NEW u \in Uses, NEW c, NEW n, OrderSound(b, u, c, n), NEW v \in Uses,
         NEW r \in Books, OnlyHolds(b, r),
         r.corrected = b.corrected, r.based = b.based, r.carry = b.carry,
         \A e \in Event : /\ Blocked(r, e) <= r.lot[e].amount - r.lot[e].consumed
                          /\ r.lot[e].reserved = DisputeHeld(r, e) + UsedOf(v, e)
                          /\ Unreserved(r, e) >= 0,
         r.held = Total(ReservedIn(r), Event), NEW k, FlagsSound(r, k)
  PROVE  OrderSound(r, v, k, n)
  <1>1. BooksSound(b, u, c) /\ EarnedSound(b) /\ Untouched(b, n)
    BY DEF OrderSound
  <1>2. LotsSound(r, v) /\ EntriesSound(r) /\ Whole(r) /\ LeftIn(r) = LeftIn(b)
    BY <1>1, HoldsMove
  <1>3. r.entry = b.entry
    BY DEF OnlyHolds
  <1>4. BaseIn(r) = BaseIn(b)
    BY DEF BaseIn
  <1>5. EarnedSound(r) /\ Untouched(r, n)
    BY <1>1, <1>2, <1>3, <1>4 DEF EarnedSound, Untouched
  <1> QED BY <1>2, <1>5 DEF OrderSound, BooksSound

(* Sums over some of the chargebacks.                                      *)
LEMMA SomeDisputes ==
  ASSUME NEW S \in SUBSET Dispute
  PROVE  /\ Claimed(S) \in Nat
         /\ \A f : (\A x \in Dispute : f[x] \in Nat) => Total(f, S) \in Nat
  <1>1. IsFiniteSet(S) /\ \A x \in S : Claim[x] \in Nat
    BY Lengths, FS_Subset
  <1>2. Claimed(S) \in Nat
    BY <1>1, SumNat DEF Claimed, Total
  <1>3. ASSUME NEW f, \A x \in Dispute : f[x] \in Nat PROVE Total(f, S) \in Nat
    <2>1. \A x \in S : f[x] \in Nat
      BY <1>3
    <2>2. QED BY <1>1, <2>1, SumNat DEF Total
  <1> QED BY <1>2, <1>3

LEMMA DueIsNat == Due \in Nat
  <1>1. Due = SumFunctionOnSet(Paid, Event)
    BY DEF Due, Total
  <1>2. IsFiniteSet(Event) /\ \A e \in Event : Paid[e] \in Nat
    BY Lengths
  <1> QED BY <1>1, <1>2, SumNat

(* The books once a chargeback flags F and blocks B.                       *)
Flagged(b, d, F, B) == [b EXCEPT !.source[d] = F, !.block[d] = B]

LEMMA FlaggedEffect ==
  ASSUME NEW b \in Books, NEW d \in Dispute, NEW F \in SUBSET Event, NEW B \in [Event -> Nat]
  PROVE  LET r == Flagged(b, d, F, B) IN
         /\ r \in Books /\ OnlyHolds(b, r) /\ r.lot = b.lot
         /\ r.corrected = b.corrected /\ r.based = b.based /\ r.carry = b.carry
         /\ r.held = b.held /\ r.hold = b.hold
         /\ r.source[d] = F /\ r.block[d] = B
         /\ \A x \in Dispute : x # d => r.source[x] = b.source[x] /\ r.block[x] = b.block[x]
  <1> DEFINE S == [b.source EXCEPT ![d] = F]
             K == [b.block EXCEPT ![d] = B]
             r == [b EXCEPT !.source = S, !.block = K]
  <1>1. b.source \in [Dispute -> SUBSET Event] /\ b.block \in [Dispute -> [Event -> Nat]]
    BY Fields
  <1>2. /\ S \in [Dispute -> SUBSET Event] /\ K \in [Dispute -> [Event -> Nat]]
        /\ S[d] = F /\ K[d] = B
        /\ \A x \in Dispute : x # d => S[x] = b.source[x] /\ K[x] = b.block[x]
    BY <1>1
  <1>3. Flagged(b, d, F, B) = r
    BY DEF Flagged, Books
  <1> HIDE DEF S, K
  <1>4. /\ r \in Books /\ r.source = S /\ r.block = K /\ r.lot = b.lot /\ r.lots = b.lots
        /\ r.corrected = b.corrected /\ r.based = b.based /\ r.carry = b.carry
        /\ r.entry = b.entry /\ r.held = b.held /\ r.hold = b.hold
        /\ r.available = b.available /\ r.pending = b.pending /\ r.frozen = b.frozen
        /\ r.paidOut = b.paidOut
    BY <1>2 DEF Books
  <1> HIDE DEF r
  <1>5. OnlyHolds(b, r)
    BY <1>4 DEF OnlyHolds
  <1> QED BY <1>2, <1>3, <1>4, <1>5

(* A part of what is still free is blocked.                                *)
FlagIs(c, k, d, num, free) ==
  /\ c[d].state # "disputed" /\ \A x \in Dispute : x # d => k[x] = c[x]
  /\ k[d].state = "disputed" /\ k[d].num = num /\ k[d].den = free

LEMMA FlaggedIsSound ==
  ASSUME NEW b, NEW u \in Uses, NEW c, NEW n, OrderSound(b, u, c, n),
         NEW d \in Dispute,
         NEW num \in Nat, NEW free \in Nat \ {0}, num <= free,
         NEW F \in SUBSET Event, NEW k, FlagIs(c, k, d, num, free)
  PROVE  OrderSound(Flagged(b, d, F, Portion(b, num, free)), u, k, n)
  <1> DEFINE B == Portion(b, num, free)
             r == Flagged(b, d, F, B)
             room(e) == Positive(b.lot[e].amount - b.lot[e].consumed - Blocked(b, e))
  <1>1. b \in Books /\ LotsSound(b, u) /\ FlagsSound(b, c)
    BY DEF OrderSound, BooksSound
  <1>2. \A e \in Event : /\ room(e) \in Nat /\ Blocked(b, e) \in Nat
                         /\ Blocked(b, e) + room(e) = b.lot[e].amount - b.lot[e].consumed
    <2> TAKE e \in Event
    <2>1. PICK x \in Nat, z \in Nat, y \in Nat :
            x = b.lot[e].amount /\ z = b.lot[e].consumed /\ y = Blocked(b, e)
      BY <1>1, LotFields, Blocks
    <2>2. y <= x - z
      BY <1>1, <2>1 DEF LotsSound, LotSound
    <2>3. room(e) = x - z - y
      <3>1. x - z - y >= 0
        BY <2>1, <2>2
      <3>2. x - z - y = 0 \/ x - z - y > 0
        BY <2>1, <3>1
      <3>3. QED BY <2>1, <3>2 DEF Positive
    <2>4. x - z - y \in Nat /\ y + (x - z - y) = x - z
      BY <2>1, <2>2
    <2> HIDE DEF room
    <2>5. QED BY <2>1, <2>3, <2>4
  <1>3. B = [e \in Event |-> (room(e) * num) \div free]
    BY DEF Portion
  <1> HIDE DEF room, B
  <1>4. \A e \in Event : B[e] \in Nat /\ B[e] <= room(e)
    <2> TAKE e \in Event
    <2>1. room(e) \in Nat
      BY <1>2
    <2>2. (room(e) * num) \div free \in 0..room(e)
      BY <2>1, PartOfWhole
    <2>3. B[e] \in 0..room(e)
      BY <1>3, <2>2
    <2>4. QED BY <2>1, <2>3
  <1>5. B \in [Event -> Nat]
    <2>1. B = [e \in Event |-> B[e]]
      BY <1>3
    <2>2. QED BY <1>4, <2>1
  <1>7. /\ r \in Books /\ OnlyHolds(b, r) /\ r.lot = b.lot
        /\ r.corrected = b.corrected /\ r.based = b.based /\ r.carry = b.carry
        /\ r.held = b.held /\ r.hold = b.hold
        /\ r.source[d] = F /\ r.block[d] = B
        /\ \A x \in Dispute : x # d => r.source[x] = b.source[x] /\ r.block[x] = b.block[x]
    BY <1>1, <1>5, FlaggedEffect
  <1> HIDE DEF r
  <1>8. \A e \in Event : /\ Blocked(r, e) <= r.lot[e].amount - r.lot[e].consumed
                         /\ r.lot[e].reserved = DisputeHeld(r, e) + UsedOf(u, e)
                         /\ Unreserved(r, e) >= 0
    <2> TAKE e \in Event
    <2>1. b.block[d][e] = 0
      BY <1>1 DEF FlagsSound, Nothing, FlagIs
    <2>2. b.block \in [Dispute -> [Event -> Nat]] /\ r.block \in [Dispute -> [Event -> Nat]]
      BY <1>1, <1>7, Fields
    <2>3. Piled(r.block, e) = Piled(b.block, e) + r.block[d][e] - b.block[d][e]
      <3>1. \A x \in Dispute : x # d => r.block[x] = b.block[x]
        BY <1>7
      <3>2. QED BY <2>2, <3>1, DisputeChange
    <2>4. Blocked(r, e) = Blocked(b, e) + B[e] - 0
      BY <1>7, <2>1, <2>3, PiledIs
    <2>5. Blocked(r, e) <= b.lot[e].amount - b.lot[e].consumed
      <3>1. PICK x, y \in Nat, z \in Nat, w \in Nat :
              /\ x = b.lot[e].amount - b.lot[e].consumed /\ y = Blocked(b, e)
              /\ z = B[e] /\ w = room(e) /\ y + w = x /\ z <= w
        BY <1>2, <1>4
      <3>2. y + z - 0 <= x
        BY <3>1
      <3>3. QED BY <2>4, <3>1, <3>2
    <2>6. DisputeHeld(r, e) = DisputeHeld(b, e) /\ Unreserved(r, e) = Unreserved(b, e)
      BY <1>7 DEF DisputeHeld, Unreserved
    <2>7. QED BY <1>1, <1>7, <2>5, <2>6 DEF LotsSound, LotSound
  <1>9. r.held = Total(ReservedIn(r), Event)
    BY <1>1, <1>7 DEF LotsSound, ReservedIn
  <1>10. FlagsSound(r, k)
    <2> SUFFICES ASSUME NEW x \in Dispute
                 PROVE  /\ k[x].state # "disputed" => /\ r.source[x] = {} /\ r.block[x] = Nothing
                                                      /\ r.hold[x] = Nothing
                        /\ r.source[x] # {} => k[x].den > 0
                        /\ k[x].num <= k[x].den
                        /\ ~k[x].applied => r.hold[x] = Nothing
      BY DEF FlagsSound
    <2>1. CASE x = d
      <3>1. r.hold[d] = Nothing
        BY <1>1, <1>7 DEF FlagsSound, FlagIs
      <3>2. QED BY <2>1, <3>1 DEF FlagIs
    <2>2. CASE x # d
      BY <1>1, <1>7, <2>2 DEF FlagsSound, FlagIs
    <2>3. QED BY <2>1, <2>2
  <1>11. OrderSound(r, u, k, n)
    BY <1>7, <1>8, <1>9, <1>10, HoldsAreSound
  <1> QED BY <1>11 DEF r, B

LEMMA FlagsOf ==
  ASSUME NEW b, NEW u, NEW c, NEW n, OrderSound(b, u, c, n), NEW k, FlagsSound(b, k)
  PROVE  OrderSound(b, u, k, n)
  BY DEF OrderSound, BooksSound

LEMMA RecordStep ==
  ASSUME CommissionsInv, NEW d \in Dispute, RecordChargeback(d)
  PROVE  CommissionsInv'
  <1> DEFINE free  == Free
             num   == Least(Claim[d], free)
             flag  == Basis > 0 /\ free > 0
             B == Portion(books, num, free)
             k == [case[d] EXCEPT !.state = "disputed",
                                  !.num = IF flag THEN num ELSE 0,
                                  !.den = IF flag THEN free ELSE 0]
  <1>1. /\ accrued \in Nat /\ accrued <= Len(Paid) /\ use \in Uses /\ case \in Cases /\ Others
        /\ OrderSound(books, use, case, accrued) /\ BooksSound(books, use, case)
        /\ UsesSound(use) /\ ClaimsSound(case, accrued) /\ FlagsSound(books, case)
    BY Here DEF BooksSound
  <1>2. /\ case[d].state = "none"
        /\ books' = IF ~flag THEN books ELSE Flagged(books, d, 1..accrued, B)
        /\ UNCHANGED <<accrued, ripe, blocked, use, fixed>>
    BY DEF RecordChargeback, Flagged
  <1>3. case' = CaseAs(case, d, k)
    BY DEF RecordChargeback, CaseAs
  <1>4. Basis \in Int /\ free \in Int /\ Claim[d] \in Nat /\ num \in Int
    <2>1. Invalid \in SUBSET Dispute /\ Active \in SUBSET Dispute
      BY DEF Invalid, Active
    <2>2. Claimed(Invalid) \in Nat /\ Due \in Nat
      BY <2>1, SomeDisputes, DueIsNat
    <2>3. Total([x \in Dispute |-> case[x].num], Active) \in Nat
      <3> DEFINE f == [x \in Dispute |-> case[x].num]
      <3>1. \A x \in Dispute : f[x] \in Nat
        BY <1>1, CaseFields
      <3> HIDE DEF f
      <3>2. QED BY <2>1, <3>1, SomeDisputes DEF f
    <2>4. Claim[d] \in Nat
      BY Lengths
    <2>5. QED BY <2>2, <2>3, <2>4 DEF Least, Basis, Free
  <1>5. flag => free \in Nat \ {0} /\ num \in Nat /\ num <= free
    <2> HIDE DEF free
    <2>1. QED BY <1>4 DEF Least
  <1> HIDE DEF free, num, B
  <1>6. /\ k \in Chargeback /\ k.state = "disputed" /\ k.applied = case[d].applied
        /\ k.claim = case[d].claim
        /\ flag => k.num = num /\ k.den = free
        /\ ~flag => k.num = 0 /\ k.den = 0
    <2>1. case[d] \in Chargeback
      BY <1>1, CaseFields
    <2>2. (IF flag THEN num ELSE 0) \in Nat /\ (IF flag THEN free ELSE 0) \in Nat
      BY <1>5
    <2> HIDE DEF flag
    <2>3. QED BY <2>1, <2>2 DEF Chargeback, CaseState
  <1> HIDE DEF flag, k
  <1>8. case' \in Cases /\ case'[d] = k /\ \A x \in Dispute : x # d => case'[x] = case[x]
    BY <1>1, <1>3, <1>6, CaseMoves
  <1>9. OrderSound(books', use, case', accrued)
    <2>1. ASSUME flag PROVE OrderSound(Flagged(books, d, 1..accrued, B), use, case', accrued)
      <3>1. /\ case'[d].state = "disputed" /\ case'[d].num = num /\ case'[d].den = free
            /\ num \in Nat /\ free \in Nat \ {0} /\ num <= free
            /\ case[d].state # "disputed"
        BY <1>2, <1>5, <1>6, <1>8, <2>1
      <3>2. \A x \in Dispute : x # d => case'[x] = case[x]
        BY <1>8
      <3>3. 1..accrued \in SUBSET Event
        BY <1>1, Lengths
      <3>4. FlagIs(case, case', d, num, free)
        BY <3>1, <3>2 DEF FlagIs
      <3>5. QED BY <1>1, <3>1, <3>3, <3>4, FlaggedIsSound DEF B
    <2>2. ASSUME ~flag PROVE OrderSound(books, use, case', accrued)
      <3>1. FlagsSound(books, case')
        <4> SUFFICES ASSUME NEW x \in Dispute
                     PROVE  /\ case'[x].state # "disputed" => /\ books.source[x] = {}
                                                              /\ books.block[x] = Nothing
                                                              /\ books.hold[x] = Nothing
                            /\ books.source[x] # {} => case'[x].den > 0
                            /\ case'[x].num <= case'[x].den
                            /\ ~case'[x].applied => books.hold[x] = Nothing
          BY DEF FlagsSound
        <4>1. CASE x = d
          BY <1>1, <1>2, <1>6, <1>8, <2>2, <4>1 DEF FlagsSound
        <4>2. CASE x # d
          BY <1>1, <1>8, <4>2 DEF FlagsSound
        <4>3. QED BY <4>1, <4>2
      <3>2. QED BY <1>1, <3>1, FlagsOf
    <2>3. QED BY <1>2, <2>1, <2>2
  <1>10. ClaimsSound(case', accrued')
    BY <1>1, <1>2, <1>6, <1>8 DEF ClaimsSound
  <1>11. Others'
    BY <1>1, <1>2, <1>8 DEF Others
  <1> QED BY <1>1, <1>2, <1>9, <1>10, <1>11 DEF CommissionsInv, OrderSound

(* What is claimed of the events, and of which.                            *)
LEMMA ClaimedEffect ==
  ASSUME NEW d \in Dispute, NEW basis \in Nat \ {0}, Claim[d] <= basis,
         case \in Cases, books \in Books, accrued \in Nat
  PROVE  /\ ClaimedOf(d, basis) \in [Event -> Nat]
         /\ \A e \in Event : ClaimedOf(d, basis)[e] > 0 => e <= accrued
  <1> DEFINE claim == Claim[d]
             others(e) == Total([x \in Dispute |-> case[x].claimed[e]], Applied)
             left(e) == IF e > accrued THEN 0 ELSE Paid[e] - books.corrected[e] - others(e)
  <1>1. claim \in Nat /\ claim <= basis
    BY Lengths
  <1>2. ClaimedOf(d, basis) = [e \in Event |-> (Positive(left(e)) * claim) \div basis]
    BY DEF ClaimedOf
  <1>3. ASSUME NEW e \in Event PROVE left(e) \in Int
    <2>1. others(e) \in Nat
      <3> DEFINE f == [x \in Dispute |-> case[x].claimed[e]]
      <3>1. \A x \in Dispute : f[x] \in Nat
        BY CaseFields
      <3>2. Applied \in SUBSET Dispute
        BY DEF Applied, Active
      <3> HIDE DEF f
      <3>3. QED BY <3>1, <3>2, SomeDisputes DEF f
    <2>2. Paid[e] \in Nat /\ books.corrected[e] \in Nat
      BY Lengths, Fields
    <2> HIDE DEF others
    <2>3. QED BY <2>1, <2>2
  <1>4. \A e \in Event : e > accrued => left(e) = 0
    OBVIOUS
  <1> HIDE DEF claim, left
  <1>5. ASSUME NEW e \in Event
        PROVE  (Positive(left(e)) * claim) \div basis \in 0..Positive(left(e))
               /\ Positive(left(e)) \in Nat
    <2>1. Positive(left(e)) \in Nat
      BY <1>3 DEF Positive
    <2>2. QED BY <1>1, <2>1, PartOfWhole
  <1> DEFINE c(e) == (Positive(left(e)) * claim) \div basis
  <1>6. ClaimedOf(d, basis) = [e \in Event |-> c(e)]
    BY <1>2
  <1>7. \A e \in Event : c(e) \in 0..Positive(left(e)) /\ Positive(left(e)) \in Nat
    BY <1>5
  <1> HIDE DEF c
  <1>8. \A e \in Event : c(e) \in Nat
    BY <1>7
  <1>9. ASSUME NEW e \in Event, c(e) > 0 PROVE e <= accrued
    <2>1. SUFFICES ASSUME e > accrued PROVE FALSE
      BY Lengths
    <2>2. Positive(left(e)) = 0
      BY <1>4, <2>1 DEF Positive
    <2>3. c(e) \in 0..0
      BY <1>7, <2>2
    <2>4. QED BY <1>9, <2>3
  <1> QED BY <1>6, <1>8, <1>9

(* The books once a chargeback holds h and leaves the credit x.            *)
Restricted(b, d, h, x, E) ==
  [Reserve(b, h) EXCEPT !.hold[d] = h, !.credit = x, !.event = E]

LEMMA RestrictedEffect ==
  ASSUME NEW b \in Books, b.held = Total(ReservedIn(b), Event), NEW d \in Dispute,
         NEW h \in [Event -> Nat], NEW x \in Nat, NEW E \in [Event -> EventStatus]
  PROVE  LET r == Restricted(b, d, h, x, E) IN
         /\ r \in Books /\ OnlyHolds(b, r)
         /\ r.corrected = b.corrected /\ r.based = b.based /\ r.carry = b.carry
         /\ r.held = Total(ReservedIn(r), Event)
         /\ \A e \in Event : r.lot[e].reserved = b.lot[e].reserved + h[e]
         /\ r.source = b.source /\ r.block = b.block
         /\ r.hold[d] = h /\ \A y \in Dispute : y # d => r.hold[y] = b.hold[y]
  <1> DEFINE q == Reserve(b, h)
             H == [q.hold EXCEPT ![d] = h]
             r == [q EXCEPT !.hold = H, !.credit = x, !.event = E]
  <1>1. /\ q \in Books /\ ReservedBy(b, q) /\ q.held = Total(ReservedIn(q), Event)
        /\ \A e \in Event : q.lot[e].reserved = b.lot[e].reserved + h[e]
    BY ReserveEffect
  <1>2. Restricted(b, d, h, x, E) = r
    BY DEF Restricted
  <1> HIDE DEF q
  <1>3. /\ H \in [Dispute -> [Event -> Nat]] /\ H[d] = h
        /\ \A y \in Dispute : y # d => H[y] = b.hold[y]
    <2>1. q.hold = b.hold
      BY <1>1 DEF ReservedBy
    <2>2. b.hold \in [Dispute -> [Event -> Nat]]
      BY Fields
    <2>3. QED BY <2>1, <2>2
  <1> HIDE DEF H
  <1>4. /\ r \in Books /\ r.hold = H /\ r.lot = q.lot /\ r.lots = q.lots /\ r.held = q.held
        /\ r.corrected = q.corrected /\ r.based = q.based /\ r.carry = q.carry
        /\ r.entry = q.entry /\ r.source = q.source /\ r.block = q.block
        /\ r.available = q.available /\ r.pending = q.pending /\ r.frozen = q.frozen
        /\ r.paidOut = q.paidOut
    BY <1>1, <1>3 DEF Books
  <1> HIDE DEF r
  <1>5. OnlyHolds(b, r)
    BY <1>1, <1>4 DEF OnlyHolds, ReservedBy
  <1>6. r.held = Total(ReservedIn(r), Event)
    BY <1>1, <1>4 DEF ReservedIn
  <1>7. /\ r.corrected = b.corrected /\ r.based = b.based /\ r.carry = b.carry
        /\ r.source = b.source /\ r.block = b.block
    BY <1>1, <1>4 DEF ReservedBy
  <1> QED BY <1>1, <1>2, <1>3, <1>4, <1>5, <1>6, <1>7

(* Applied: the chargeback k[d] may hold, and nothing else changes of it.  *)
ApplyIs(c, k, d) ==
  /\ \A x \in Dispute : x # d => k[x] = c[x]
  /\ c[d].state = "disputed" /\ ~c[d].applied
  /\ k[d].state = c[d].state /\ k[d].num = c[d].num /\ k[d].den = c[d].den /\ k[d].applied

LEMMA RestrictedIsSound ==
  ASSUME NEW b, NEW u \in Uses, NEW c, NEW n, OrderSound(b, u, c, n), NEW d \in Dispute,
         NEW h \in [Event -> Nat], \A e \in Event : h[e] <= Unreserved(b, e),
         NEW x \in Nat, NEW E \in [Event -> EventStatus], NEW k, ApplyIs(c, k, d)
  PROVE  OrderSound(Restricted(b, d, h, x, E), u, k, n)
  <1> DEFINE r == Restricted(b, d, h, x, E)
  <1>1. b \in Books /\ LotsSound(b, u) /\ FlagsSound(b, c)
        /\ b.held = Total(ReservedIn(b), Event)
    BY DEF OrderSound, BooksSound, LotsSound
  <1>2. /\ r \in Books /\ OnlyHolds(b, r)
        /\ r.corrected = b.corrected /\ r.based = b.based /\ r.carry = b.carry
        /\ r.held = Total(ReservedIn(r), Event)
        /\ \A e \in Event : r.lot[e].reserved = b.lot[e].reserved + h[e]
        /\ r.source = b.source /\ r.block = b.block
        /\ r.hold[d] = h /\ \A y \in Dispute : y # d => r.hold[y] = b.hold[y]
    BY <1>1, RestrictedEffect
  <1> HIDE DEF r
  <1>3. \A e \in Event : /\ Blocked(r, e) <= r.lot[e].amount - r.lot[e].consumed
                         /\ r.lot[e].reserved = DisputeHeld(r, e) + UsedOf(u, e)
                         /\ Unreserved(r, e) >= 0
    <2> TAKE e \in Event
    <2>1. b.hold[d][e] = 0
      BY <1>1 DEF FlagsSound, Nothing, ApplyIs
    <2>2. DisputeHeld(r, e) = DisputeHeld(b, e) + h[e] - 0
      <3>1. b.hold \in [Dispute -> [Event -> Nat]] /\ r.hold \in [Dispute -> [Event -> Nat]]
        BY <1>1, <1>2, Fields
      <3>2. \A y \in Dispute : y # d => r.hold[y] = b.hold[y]
        BY <1>2
      <3>3. Piled(r.hold, e) = Piled(b.hold, e) + r.hold[d][e] - b.hold[d][e]
        BY <3>1, <3>2, DisputeChange
      <3>4. QED BY <1>2, <2>1, <3>3, PiledIs
    <2>3. Blocked(r, e) = Blocked(b, e)
      BY <1>2 DEF Blocked
    <2>4. /\ r.lot[e].amount = b.lot[e].amount /\ r.lot[e].consumed = b.lot[e].consumed
          /\ r.lot[e].reserved = b.lot[e].reserved + h[e]
      BY <1>2 DEF OnlyHolds
    <2>5. Blocked(b, e) <= b.lot[e].amount - b.lot[e].consumed
      BY <1>1 DEF LotsSound, LotSound
    <2>6. PICK a \in Nat, y \in Nat, z \in Nat, s \in Nat, w \in Nat, g \in Nat :
            /\ a = b.lot[e].amount /\ y = b.lot[e].reserved
            /\ z = b.lot[e].consumed /\ s = DisputeHeld(b, e)
            /\ w = UsedOf(u, e) /\ g = h[e] /\ y = s + w
      <3>1. /\ b.lot[e].amount \in Nat /\ b.lot[e].reserved \in Nat
            /\ b.lot[e].consumed \in Nat
            /\ DisputeHeld(b, e) \in Nat /\ UsedOf(u, e) \in Nat
            /\ b.lot[e].reserved = DisputeHeld(b, e) + UsedOf(u, e)
        BY <1>1, ReservedOf
      <3>2. h[e] \in Nat
        OBVIOUS
      <3>3. QED BY <3>1, <3>2
    <2>7. r.lot[e].reserved = DisputeHeld(r, e) + UsedOf(u, e)
      BY <2>2, <2>4, <2>6
    <2>8. Unreserved(r, e) >= 0
      <3>1. g <= a - y - z
        BY <2>6 DEF Unreserved
      <3>2. a - (y + g) - z >= 0
        BY <2>6, <3>1
      <3>3. QED BY <2>4, <2>6, <3>2 DEF Unreserved
    <2>9. QED BY <2>3, <2>4, <2>5, <2>7, <2>8
  <1>4. FlagsSound(r, k)
    <2> SUFFICES ASSUME NEW y \in Dispute
                 PROVE  /\ k[y].state # "disputed" => /\ r.source[y] = {} /\ r.block[y] = Nothing
                                                      /\ r.hold[y] = Nothing
                        /\ r.source[y] # {} => k[y].den > 0
                        /\ k[y].num <= k[y].den
                        /\ ~k[y].applied => r.hold[y] = Nothing
      BY DEF FlagsSound
    <2>1. CASE y = d
      BY <1>1, <1>2, <2>1 DEF FlagsSound, ApplyIs
    <2>2. CASE y # d
      BY <1>1, <1>2, <2>2 DEF FlagsSound, ApplyIs
    <2>3. QED BY <2>1, <2>2
  <1>5. OrderSound(r, u, k, n)
    BY <1>2, <1>3, <1>4, HoldsAreSound
  <1> QED BY <1>5 DEF r

LEMMA RestrictStep ==
  ASSUME CommissionsInv, NEW d \in Dispute, RestrictChargeback(d)
  PROVE  CommissionsInv'
  <1> DEFINE basis == Due - Claimed(Invalid \cup Applied)
             claimed == ClaimedOf(d, basis)
             touched == {e \in Event : claimed[e] > 0}
             least(e) == Least(books.block[d][e], books.lot[e].amount - books.lot[e].consumed)
             hold == [e \in Event |-> IF e \in touched THEN least(e) ELSE 0]
             credit == (books.credit * Claim[d]) \div basis
             later == {e \in touched : books.event[e] # "confirmed"}
             claim == [e \in Event |-> IF e \in later THEN "disputed"
                                       ELSE IF e \in touched THEN "observed" ELSE "none"]
             E == [e \in Event |-> IF e \in later THEN "disputed" ELSE books.event[e]]
             x == books.credit - credit
             k == [case[d] EXCEPT !.applied = TRUE, !.credit = credit, !.claimed = claimed,
                                  !.claim = claim]
  <1>1. /\ accrued \in Nat /\ use \in Uses /\ case \in Cases /\ Others
        /\ OrderSound(books, use, case, accrued) /\ UsesSound(use)
        /\ ClaimsSound(case, accrued) /\ books \in Books /\ LotsSound(books, use)
    BY Here
  <1>2. /\ case[d].state = "disputed" /\ ~case[d].applied /\ Claim[d] <= basis
        /\ \A e \in touched : hold[e] <= Unreserved(books, e)
        /\ case' = CaseAs(case, d, k)
        /\ books' = Restricted(books, d, hold, x, E)
        /\ UNCHANGED <<accrued, ripe, blocked, use, fixed>>
    <2>1. books' = Restricted(books, d, hold, x, E)
      BY DEF RestrictChargeback, Restricted
    <2>2. case' = CaseAs(case, d, k)
      BY DEF RestrictChargeback, CaseAs
    <2>3. case[d].state = "disputed" /\ ~case[d].applied /\ Claim[d] <= basis
      BY DEF RestrictChargeback
    <2>4. \A e \in touched : hold[e] <= Unreserved(books, e)
      BY DEF RestrictChargeback
    <2>5. UNCHANGED <<accrued, ripe, blocked, use, fixed>>
      BY DEF RestrictChargeback
    <2> HIDE DEF basis, claimed, touched, least, hold, credit, later, claim, E, x, k
    <2>6. QED BY <2>1, <2>2, <2>3, <2>4, <2>5
  <1>3. basis \in Nat \ {0} /\ Claim[d] \in Nat
    <2>1. Invalid \cup Applied \in SUBSET Dispute
      BY DEF Invalid, Applied, Active
    <2>2. Claimed(Invalid \cup Applied) \in Nat /\ Due \in Nat
      BY <2>1, SomeDisputes, DueIsNat
    <2>3. Claim[d] \in Nat \ {0}
      BY Lengths
    <2>4. QED BY <1>2, <2>2, <2>3
  <1> HIDE DEF basis
  <1>4. claimed \in [Event -> Nat] /\ \A e \in touched : e \in Event /\ e <= accrued
    BY <1>1, <1>2, <1>3, ClaimedEffect
  <1>5. credit \in Nat /\ x \in Nat
    <2>1. books.credit \in Nat
      BY <1>1, Fields
    <2>2. credit \in 0..books.credit
      BY <1>2, <1>3, <2>1, PartOfWhole
    <2> HIDE DEF credit
    <2>3. QED BY <2>1, <2>2
  <1> HIDE DEF claimed, touched, credit, x
  <1>6. \A e \in Event : least(e) \in Nat
    <2> TAKE e \in Event
    <2>1. books.block[d][e] \in Nat
      BY <1>1, Fields
    <2>2. books.lot[e].amount - books.lot[e].consumed \in Nat
      BY <1>1, InLotsNat DEF InLots
    <2>3. QED BY <2>1, <2>2 DEF Least
  <1> HIDE DEF least
  <1>7. hold \in [Event -> Nat]
    BY <1>6
  <1>8. \A e \in Event : hold[e] <= Unreserved(books, e)
    <2> TAKE e \in Event
    <2>1. CASE e \in touched
      BY <1>2, <2>1
    <2>2. CASE e \notin touched
      <3>1. hold[e] = 0
        BY <2>2
      <3>2. Unreserved(books, e) \in Nat
        BY <1>1, SpendableLeaves DEF LotsSound
      <3> HIDE DEF hold
      <3>3. QED BY <3>1, <3>2
    <2>3. QED BY <2>1, <2>2
  <1> HIDE DEF hold
  <1>9. E \in [Event -> EventStatus]
    <2>1. books.event \in [Event -> EventStatus]
      BY <1>1, Fields
    <2>2. QED BY <2>1 DEF EventStatus
  <1> HIDE DEF E
  <1>10. /\ claim \in [Event -> ClaimState]
         /\ \A e \in Event : claim[e] # "none" => e <= accrued
    <2>1. \A e \in later : e \in touched
      OBVIOUS
    <2>2. claim \in [Event -> ClaimState]
      BY DEF ClaimState
    <2> HIDE DEF later
    <2>3. QED BY <1>4, <2>1, <2>2
  <1> HIDE DEF claim
  <1>11. /\ k \in Chargeback /\ k.state = case[d].state /\ k.num = case[d].num
         /\ k.den = case[d].den /\ k.applied /\ k.claim = claim
    <2>1. case[d] \in Chargeback
      BY <1>1, CaseFields
    <2>2. QED BY <1>4, <1>5, <1>10, <2>1 DEF Chargeback
  <1> HIDE DEF k
  <1>12. case' \in Cases /\ case'[d] = k /\ \A y \in Dispute : y # d => case'[y] = case[y]
    BY <1>1, <1>2, <1>11, CaseMoves
  <1>13. OrderSound(books', use, case', accrued)
    <2>1. ApplyIs(case, case', d)
      BY <1>2, <1>11, <1>12 DEF ApplyIs
    <2>2. QED BY <1>1, <1>2, <1>5, <1>7, <1>8, <1>9, <2>1, RestrictedIsSound
  <1>14. ClaimsSound(case', accrued')
    <2> SUFFICES ASSUME NEW y \in Dispute, NEW e \in Event, case'[y].claim[e] # "none"
                 PROVE  e <= accrued
      BY <1>2 DEF ClaimsSound
    <2>1. CASE y = d
      BY <1>10, <1>11, <1>12, <2>1
    <2>2. CASE y # d
      BY <1>1, <1>12, <2>2 DEF ClaimsSound
    <2>3. QED BY <2>1, <2>2
  <1>15. Others'
    BY <1>1, <1>2, <1>12 DEF Others
  <1> QED BY <1>1, <1>2, <1>13, <1>14, <1>15 DEF CommissionsInv, OrderSound

(* A chargeback is resolved: it holds and blocks nothing any more.         *)
LEMMA FreedEffect ==
  ASSUME NEW b \in Books, NEW d \in Dispute, b.held = Total(ReservedIn(b), Event),
         \A e \in Event : b.hold[d][e] <= b.lot[e].reserved
  PROVE  LET r == ReleaseRestrictions(b, d) IN
         /\ r \in Books /\ OnlyHolds(b, r)
         /\ r.corrected = b.corrected /\ r.based = b.based /\ r.carry = b.carry
         /\ r.held = Total(ReservedIn(r), Event)
         /\ \A e \in Event : r.lot[e].reserved = b.lot[e].reserved - b.hold[d][e]
         /\ r.source[d] = {} /\ r.block[d] = Nothing /\ r.hold[d] = Nothing
         /\ \A y \in Dispute : y # d => /\ r.source[y] = b.source[y]
                                        /\ r.block[y] = b.block[y] /\ r.hold[y] = b.hold[y]
  <1> DEFINE h == b.hold[d]
             q == Unreserve(b, h)
             H == [q.hold EXCEPT ![d] = Nothing]
             K == [q.block EXCEPT ![d] = Nothing]
             S == [q.source EXCEPT ![d] = {}]
             r == [q EXCEPT !.hold = H, !.block = K, !.source = S]
  <1>1. h \in [Event -> Nat] /\ Nothing \in [Event -> Nat]
    BY Fields DEF Nothing
  <1>2. ReleaseRestrictions(b, d) = r
    BY DEF ReleaseRestrictions
  <1> HIDE DEF h
  <1>3. /\ q \in Books /\ ReservedBy(b, q) /\ q.held = Total(ReservedIn(q), Event)
        /\ \A e \in Event : q.lot[e].reserved = b.lot[e].reserved - h[e]
    <2>1. \A e \in Event : h[e] <= b.lot[e].reserved
      BY DEF h
    <2>2. QED BY <1>1, <2>1, UnreserveEffect
  <1> HIDE DEF q
  <1>4. /\ H \in [Dispute -> [Event -> Nat]] /\ K \in [Dispute -> [Event -> Nat]]
        /\ S \in [Dispute -> SUBSET Event]
        /\ H[d] = Nothing /\ K[d] = Nothing /\ S[d] = {}
        /\ \A y \in Dispute : y # d => /\ H[y] = b.hold[y] /\ K[y] = b.block[y]
                                       /\ S[y] = b.source[y]
    <2>1. q.hold = b.hold /\ q.block = b.block /\ q.source = b.source
      BY <1>3 DEF ReservedBy
    <2>2. /\ b.hold \in [Dispute -> [Event -> Nat]] /\ b.block \in [Dispute -> [Event -> Nat]]
          /\ b.source \in [Dispute -> SUBSET Event]
      BY Fields
    <2>3. QED BY <1>1, <2>1, <2>2
  <1> HIDE DEF H, K, S
  <1>5. /\ r \in Books /\ r.hold = H /\ r.block = K /\ r.source = S
        /\ r.lot = q.lot /\ r.lots = q.lots /\ r.held = q.held
        /\ r.corrected = q.corrected /\ r.based = q.based /\ r.carry = q.carry
        /\ r.entry = q.entry
        /\ r.available = q.available /\ r.pending = q.pending /\ r.frozen = q.frozen
        /\ r.paidOut = q.paidOut
    BY <1>3, <1>4 DEF Books
  <1> HIDE DEF r
  <1>6. OnlyHolds(b, r)
    BY <1>3, <1>5 DEF OnlyHolds, ReservedBy
  <1>7. r.held = Total(ReservedIn(r), Event)
    BY <1>3, <1>5 DEF ReservedIn
  <1>8. r.corrected = b.corrected /\ r.based = b.based /\ r.carry = b.carry
    BY <1>3, <1>5 DEF ReservedBy
  <1> QED BY <1>2, <1>3, <1>4, <1>5, <1>6, <1>7, <1>8 DEF h

LEMMA FreedIsSound ==
  ASSUME NEW b, NEW u \in Uses, NEW c, NEW n, OrderSound(b, u, c, n), NEW d \in Dispute
  PROVE  LET r == ReleaseRestrictions(b, d) IN
         /\ OrderSound(r, u, c, n) /\ r.corrected = b.corrected
         /\ r.source[d] = {} /\ r.block[d] = Nothing /\ r.hold[d] = Nothing
  <1> DEFINE r == ReleaseRestrictions(b, d)
             h == b.hold[d]
  <1>1. b \in Books /\ LotsSound(b, u) /\ FlagsSound(b, c)
        /\ b.held = Total(ReservedIn(b), Event)
    BY DEF OrderSound, BooksSound, LotsSound
  <1>2. \A e \in Event : /\ h[e] \in Nat /\ h[e] <= DisputeHeld(b, e)
    <2> TAKE e \in Event
    <2>1. b.hold \in [Dispute -> [Event -> Nat]] /\ \A x \in Dispute : x # d => b.hold[x] = b.hold[x]
      BY <1>1, Fields
    <2>2. b.hold[d][e] \in Nat /\ b.hold[d][e] <= Piled(b.hold, e)
      BY <2>1, DisputeChange
    <2>3. QED BY <2>2, PiledIs
  <1> HIDE DEF h
  <1>3. \A e \in Event : h[e] <= b.lot[e].reserved
    <2> TAKE e \in Event
    <2>1. /\ DisputeHeld(b, e) \in Nat /\ UsedOf(u, e) \in Nat
          /\ b.lot[e].reserved = DisputeHeld(b, e) + UsedOf(u, e)
      BY <1>1, ReservedOf
    <2>2. QED BY <1>2, <2>1
  <1>4. /\ r \in Books /\ OnlyHolds(b, r)
        /\ r.corrected = b.corrected /\ r.based = b.based /\ r.carry = b.carry
        /\ r.held = Total(ReservedIn(r), Event)
        /\ \A e \in Event : r.lot[e].reserved = b.lot[e].reserved - h[e]
        /\ r.source[d] = {} /\ r.block[d] = Nothing /\ r.hold[d] = Nothing
        /\ \A y \in Dispute : y # d => /\ r.source[y] = b.source[y]
                                       /\ r.block[y] = b.block[y] /\ r.hold[y] = b.hold[y]
    <2>1. \A e \in Event : b.hold[d][e] <= b.lot[e].reserved
      BY <1>3 DEF h
    <2>2. QED BY <1>1, <2>1, FreedEffect DEF h
  <1> HIDE DEF r
  <1>5. \A e \in Event : /\ Blocked(r, e) <= r.lot[e].amount - r.lot[e].consumed
                         /\ r.lot[e].reserved = DisputeHeld(r, e) + UsedOf(u, e)
                         /\ Unreserved(r, e) >= 0
    <2> TAKE e \in Event
    <2>1. /\ b.hold \in [Dispute -> [Event -> Nat]] /\ r.hold \in [Dispute -> [Event -> Nat]]
          /\ b.block \in [Dispute -> [Event -> Nat]] /\ r.block \in [Dispute -> [Event -> Nat]]
      BY <1>1, <1>4, Fields
    <2>2. /\ \A y \in Dispute : y # d => r.hold[y] = b.hold[y]
          /\ \A y \in Dispute : y # d => r.block[y] = b.block[y]
      BY <1>4
    <2>3. r.hold[d][e] = 0 /\ r.block[d][e] = 0
      BY <1>4 DEF Nothing
    <2>4. /\ Piled(r.hold, e) = Piled(b.hold, e) + r.hold[d][e] - b.hold[d][e]
          /\ b.hold[d][e] \in Nat
      BY <2>1, <2>2, DisputeChange
    <2>5. /\ Piled(r.block, e) = Piled(b.block, e) + r.block[d][e] - b.block[d][e]
          /\ b.block[d][e] \in Nat /\ Piled(b.block, e) \in Nat
      BY <2>1, <2>2, DisputeChange
    <2>6. DisputeHeld(r, e) = DisputeHeld(b, e) + 0 - h[e]
      BY <2>3, <2>4, PiledIs DEF h
    <2>7. Blocked(r, e) \in Int /\ Blocked(r, e) <= Blocked(b, e) /\ Blocked(b, e) \in Nat
      <3>1. Blocked(r, e) = Blocked(b, e) + 0 - b.block[d][e] /\ Blocked(b, e) \in Nat
        BY <2>3, <2>5, PiledIs
      <3>2. QED BY <2>5, <3>1
    <2>8. /\ r.lot[e].amount = b.lot[e].amount /\ r.lot[e].consumed = b.lot[e].consumed
          /\ r.lot[e].reserved = b.lot[e].reserved - h[e]
          /\ Blocked(b, e) <= b.lot[e].amount - b.lot[e].consumed /\ Unreserved(b, e) >= 0
      BY <1>1, <1>4 DEF OnlyHolds, LotsSound, LotSound
    <2>9. PICK a \in Nat, y \in Nat, z \in Nat, s \in Nat, w \in Nat, g \in Nat :
            /\ a = b.lot[e].amount /\ y = b.lot[e].reserved
            /\ z = b.lot[e].consumed /\ s = DisputeHeld(b, e)
            /\ w = UsedOf(u, e) /\ g = h[e] /\ y = s + w
      <3>1. /\ b.lot[e].amount \in Nat /\ b.lot[e].reserved \in Nat
            /\ b.lot[e].consumed \in Nat
            /\ DisputeHeld(b, e) \in Nat /\ UsedOf(u, e) \in Nat
            /\ b.lot[e].reserved = DisputeHeld(b, e) + UsedOf(u, e)
        BY <1>1, ReservedOf
      <3>2. h[e] \in Nat
        BY <1>2
      <3>3. QED BY <3>1, <3>2
    <2>10. Blocked(r, e) <= r.lot[e].amount - r.lot[e].consumed
      BY <2>7, <2>8, <2>9
    <2>11. r.lot[e].reserved = DisputeHeld(r, e) + UsedOf(u, e)
      BY <2>6, <2>8, <2>9
    <2>12. Unreserved(r, e) >= 0
      <3>1. a - y - z >= 0
        BY <2>8, <2>9 DEF Unreserved
      <3>2. a - (y - g) - z >= 0
        BY <2>9, <3>1
      <3>3. QED BY <2>8, <2>9, <3>2 DEF Unreserved
    <2>13. QED BY <2>10, <2>11, <2>12
  <1>6. FlagsSound(r, c)
    <2> SUFFICES ASSUME NEW y \in Dispute
                 PROVE  /\ c[y].state # "disputed" => /\ r.source[y] = {} /\ r.block[y] = Nothing
                                                      /\ r.hold[y] = Nothing
                        /\ r.source[y] # {} => c[y].den > 0
                        /\ c[y].num <= c[y].den
                        /\ ~c[y].applied => r.hold[y] = Nothing
      BY DEF FlagsSound
    <2>1. CASE y = d
      BY <1>1, <1>4, <2>1 DEF FlagsSound
    <2>2. CASE y # d
      BY <1>1, <1>4, <2>2 DEF FlagsSound
    <2>3. QED BY <2>1, <2>2
  <1>7. OrderSound(r, u, c, n)
    BY <1>4, <1>5, <1>6, HoldsAreSound
  <1> QED BY <1>4, <1>7 DEF r

(* The books r on the way of a settlement that began with b and has come   *)
(* to event i: the events to come are as they were.                        *)
SettledTo(b, r, u, c, n, i) ==
  /\ OrderSound(r, u, c, n)
  /\ r.source = b.source /\ r.hold = b.hold
  /\ \A x \in Dispute : b.source[x] = {} => r.block[x] = b.block[x]
  /\ \A y \in Event : y > i => r.corrected[y] = b.corrected[y]

LEMMA DisputeReleased ==
  ASSUME NEW b, NEW u, NEW c, NEW n, OrderSound(b, u, c, n), NEW d, NEW e \in Event
  PROVE  LET r == ReleaseEventDispute(b, d, e) IN
         OrderSound(r, u, c, n) /\ Advanced(b, r)
  <1> DEFINE r == ReleaseEventDispute(b, d, e)
             p == [b EXCEPT !.event[e] = "pending"]
  <1>1. r = p \/ r = b
    BY DEF ReleaseEventDispute
  <1>2. BooksSound(p, u, c) /\ Advanced(b, p)
    <2>1. BooksSound(b, u, c) /\ "pending" \in EventStatus
      BY DEF OrderSound, EventStatus
    <2>2. QED BY <2>1, EventMoves
  <1>3. Advanced(b, b)
    BY AdvancedNot
  <1> HIDE DEF r, p
  <1>4. BooksSound(r, u, c) /\ Advanced(b, r)
    BY <1>1, <1>2, <1>3 DEF OrderSound
  <1>5. OrderSound(r, u, c, n)
    BY <1>4, AdvanceIsSound
  <1> QED BY <1>4, <1>5 DEF r

LEMMA SettledFurther ==
  ASSUME NEW b, NEW q, NEW r, NEW u, NEW c, NEW n, NEW i \in Nat, NEW e \in Event, e = i + 1,
         SettledTo(b, q, u, c, n, i), OrderSound(r, u, c, n),
         Advanced(q, r) \/ \E a : Reversed(q, r, e, a)
  PROVE  SettledTo(b, r, u, c, n, e)
  <1>1. r.source = q.source /\ r.hold = q.hold
    BY DEF Advanced, Reversed
  <1>2. \A x \in Dispute : q.source[x] = {} => r.block[x] = q.block[x]
    BY DEF Advanced, Reversed
  <1>3. \A y \in Event : y # e => r.corrected[y] = q.corrected[y]
    BY DEF Advanced, Reversed
  <1>4. \A y \in Event : y > e => r.corrected[y] = b.corrected[y]
    <2> SUFFICES ASSUME NEW y \in Event, y > e PROVE r.corrected[y] = b.corrected[y]
      OBVIOUS
    <2>1. y \in Nat /\ y > i /\ y # e
      BY Lengths
    <2>2. QED BY <1>3, <2>1 DEF SettledTo
  <1> QED BY <1>1, <1>2, <1>4 DEF SettledTo

LEMMA SettleKeeps ==
  ASSUME CommissionsInv, NEW d \in Dispute, NEW reversed \in BOOLEAN,
         NEW i \in Nat, NEW e \in Event, e = i + 1, NEW b, NEW q,
         SettledTo(b, q, use, case, accrued, i),
         reversed => Correctable(b, e, case[d].claimed[e])
  PROVE  SettledTo(b, Settle(q, d, e, reversed), use, case, accrued, e)
  <1> DEFINE a == case[d].claimed[e]
             p == IF reversed THEN ReverseEvent(q, e, a) ELSE q
             r == Settle(q, d, e, reversed)
  <1>1. OrderSound(q, use, case, accrued) /\ e > i /\ e \in Nat
    BY Lengths DEF SettledTo
  <1>2. CASE case[d].claim[e] = "none"
    <2>1. r = q
      BY <1>2 DEF Settle
    <2>2. Advanced(q, q)
      BY AdvancedNot
    <2>3. QED BY <1>1, <2>1, <2>2, SettledFurther
  <1>3. CASE case[d].claim[e] # "none"
    <2>1. e <= accrued
      BY <1>3, Here DEF ClaimsSound
    <2>2. a \in Nat /\ use \in Uses /\ case \in Cases /\ ripe \in 0..Len(Paid) /\ accrued \in Nat
      BY Here, CaseFields
    <2> HIDE DEF a
    <2>3. OrderSound(p, use, case, accrued) /\ (p = q \/ Reversed(q, p, e, a))
      <3>1. ASSUME reversed
            PROVE  OrderSound(ReverseEvent(q, e, a), use, case, accrued)
                   /\ Reversed(q, ReverseEvent(q, e, a), e, a)
        <4>1. Correctable(q, e, a)
          <5>1. q.corrected[e] = b.corrected[e] /\ Correctable(b, e, a)
            BY <1>1, <3>1 DEF SettledTo, a
          <5>2. QED BY <5>1 DEF Correctable
        <4>2. QED BY <1>1, <2>1, <2>2, <4>1, ReverseEventKeeps
      <3>2. QED BY <1>1, <3>1
    <2>4. SettledTo(b, p, use, case, accrued, e)
      <3>1. Advanced(q, p) \/ \E x : Reversed(q, p, e, x)
        BY <2>3, AdvancedNot
      <3> HIDE DEF p
      <3>2. QED BY <2>3, <3>1, SettledFurther
    <2>5. r = p \/ r = ReleaseEventDispute(p, d, e)
      BY <1>3 DEF Settle, a
    <2> HIDE DEF p, r
    <2>6. SettledTo(b, ReleaseEventDispute(p, d, e), use, case, accrued, e)
      <3> DEFINE s == ReleaseEventDispute(p, d, e)
      <3>1. OrderSound(s, use, case, accrued) /\ Advanced(p, s)
        BY <2>3, DisputeReleased
      <3> HIDE DEF s
      <3>2. s.source = p.source /\ s.hold = p.hold /\ s.corrected = p.corrected
        BY <3>1 DEF Advanced
      <3>3. \A x \in Dispute : p.source[x] = {} => s.block[x] = p.block[x]
        BY <3>1 DEF Advanced
      <3>4. /\ p.source = b.source /\ p.hold = b.hold
            /\ \A x \in Dispute : b.source[x] = {} => p.block[x] = b.block[x]
            /\ \A y \in Event : y > e => p.corrected[y] = b.corrected[y]
        BY <2>4 DEF SettledTo
      <3>5. \A x \in Dispute : b.source[x] = {} => s.block[x] = b.block[x]
        BY <3>3, <3>4
      <3>6. SettledTo(b, s, use, case, accrued, e)
        BY <3>1, <3>2, <3>4, <3>5 DEF SettledTo
      <3>7. QED BY <3>6 DEF s
    <2>7. QED BY <2>4, <2>5, <2>6 DEF r
  <1> QED BY <1>2, <1>3

LEMMA SettledKeeps ==
  ASSUME CommissionsInv, NEW d \in Dispute, NEW reversed \in BOOLEAN, NEW b,
         OrderSound(b, use, case, accrued),
         reversed => \A e \in Event : Correctable(b, e, case[d].claimed[e])
  PROVE  LET r == SettleEvents(b, d, reversed) IN
         /\ OrderSound(r, use, case, accrued) /\ r.source = b.source /\ r.hold = b.hold
         /\ \A x \in Dispute : b.source[x] = {} => r.block[x] = b.block[x]
  <1> DEFINE n == Len(Paid)
  <1>1. n \in Nat /\ Event = 1..n
    BY Lengths
  <1>2. PICK f : /\ f[0] = b /\ \A i \in 1..n : f[i] = Settle(f[i - 1], d, i, reversed)
                 /\ SettleEvents(b, d, reversed) = f[n]
    BY LoopSettled
  <1> HIDE DEF n
  <1> DEFINE G == {i \in 0..n : SettledTo(b, f[i], use, case, accrued, i)}
  <1>3. 0 \in G
    BY <1>1, <1>2 DEF SettledTo
  <1>4. ASSUME NEW i \in 1..n, i - 1 \in G PROVE i \in G
    <2>1. i \in Event /\ i - 1 \in Nat /\ i = (i - 1) + 1
      BY <1>1
    <2>2. SettledTo(b, f[i - 1], use, case, accrued, i - 1)
      BY <1>4
    <2>3. reversed => Correctable(b, i, case[d].claimed[i])
      BY <2>1
    <2>4. SettledTo(b, Settle(f[i - 1], d, i, reversed), use, case, accrued, i)
      BY <2>1, <2>2, <2>3, SettleKeeps
    <2>5. QED BY <1>1, <1>2, <2>4
  <1> HIDE DEF G
  <1>5. n \in G
    <2>1. \A i \in 0..n : i \in G
      BY <1>1, <1>3, <1>4, AllReached
    <2>2. QED BY <1>1, <2>1
  <1>6. SettledTo(b, f[n], use, case, accrued, n)
    BY <1>5 DEF G
  <1> QED BY <1>2, <1>6 DEF SettledTo

LEMMA ResolveStep ==
  ASSUME CommissionsInv, NEW d \in Dispute, NEW class \in {"invalid_payment", "other"},
         ResolveChargeback(d, class)
  PROVE  CommissionsInv'
  <1> DEFINE reversed == class = "invalid_payment"
             kept == ReleaseRestrictions(books, d)
             r == SettleEvents(kept, d, reversed)
             x == IF reversed THEN r.credit ELSE r.credit + case[d].credit
             claim == [e \in Event |-> IF case[d].claim[e] = "none" THEN "none" ELSE "closed"]
             k == [case[d] EXCEPT !.state = class, !.credit = 0, !.num = 0, !.den = 0,
                                  !.claimed = Nothing, !.claim = claim]
  <1>1. /\ accrued \in Nat /\ use \in Uses /\ case \in Cases /\ Others
        /\ OrderSound(books, use, case, accrued) /\ UsesSound(use) /\ ClaimsSound(case, accrued)
    BY Here
  <1>2. case' = CaseAs(case, d, k)
    BY DEF ResolveChargeback, CaseAs
  <1>3. books' = Credited(r, x)
    BY DEF ResolveChargeback, Credited
  <1>4. reversed => \A e \in Event : Correctable(books, e, case[d].claimed[e])
    BY DEF ResolveChargeback
  <1>5. UNCHANGED <<accrued, ripe, blocked, use, fixed>>
    BY DEF ResolveChargeback
  <1>6. reversed \in BOOLEAN
    OBVIOUS
  <1>7. /\ OrderSound(kept, use, case, accrued) /\ kept.corrected = books.corrected
        /\ kept.source[d] = {} /\ kept.block[d] = Nothing /\ kept.hold[d] = Nothing
    BY <1>1, FreedIsSound
  <1> HIDE DEF reversed, kept
  <1>8. /\ OrderSound(r, use, case, accrued) /\ r.source = kept.source /\ r.hold = kept.hold
        /\ \A y \in Dispute : kept.source[y] = {} => r.block[y] = kept.block[y]
    <2>1. reversed => \A e \in Event : Correctable(kept, e, case[d].claimed[e])
      BY <1>4, <1>7 DEF Correctable
    <2>2. QED BY <1>6, <1>7, <2>1, SettledKeeps
  <1> HIDE DEF r
  <1>9. r.source[d] = {} /\ r.block[d] = Nothing /\ r.hold[d] = Nothing
    BY <1>7, <1>8
  <1>10. /\ k \in Chargeback /\ k.state # "disputed" /\ k.num = 0 /\ k.den = 0
         /\ \A e \in Event : k.claim[e] # "none" => case[d].claim[e] # "none"
    <2>1. case[d] \in Chargeback /\ Nothing \in [Event -> Nat] /\ class \in CaseState
      BY <1>1, CaseFields DEF Nothing, CaseState
    <2>2. claim \in [Event -> ClaimState]
      BY DEF ClaimState
    <2>3. \A e \in Event : claim[e] # "none" => case[d].claim[e] # "none"
      OBVIOUS
    <2> HIDE DEF claim
    <2>4. QED BY <2>1, <2>2, <2>3 DEF Chargeback
  <1> HIDE DEF k
  <1>11. case' \in Cases /\ case'[d] = k /\ \A y \in Dispute : y # d => case'[y] = case[y]
    BY <1>1, <1>2, <1>10, CaseMoves
  <1>12. OrderSound(r, use, case', accrued)
    <2>1. FlagsSound(r, case)
      BY <1>8 DEF OrderSound, BooksSound
    <2>2. FlagsSound(r, case')
      <3> SUFFICES ASSUME NEW y \in Dispute
                   PROVE  /\ case'[y].state # "disputed" => /\ r.source[y] = {}
                                                            /\ r.block[y] = Nothing
                                                            /\ r.hold[y] = Nothing
                          /\ r.source[y] # {} => case'[y].den > 0
                          /\ case'[y].num <= case'[y].den
                          /\ ~case'[y].applied => r.hold[y] = Nothing
        BY DEF FlagsSound
      <3>1. CASE y = d
        BY <1>9, <1>10, <1>11, <3>1
      <3>2. CASE y # d
        BY <1>11, <2>1, <3>2 DEF FlagsSound
      <3>3. QED BY <3>1, <3>2
    <2>3. QED BY <1>8, <2>2, FlagsOf
  <1>13. x \in Nat
    <2>1. r.credit \in Nat /\ case[d].credit \in Nat
      BY <1>1, <1>8, Fields, CaseFields DEF OrderSound, BooksSound
    <2>2. QED BY <2>1
  <1> HIDE DEF x
  <1>14. OrderSound(books', use, case', accrued)
    BY <1>3, <1>12, <1>13, CreditKeeps
  <1>15. ClaimsSound(case', accrued')
    <2> SUFFICES ASSUME NEW y \in Dispute, NEW e \in Event, case'[y].claim[e] # "none"
                 PROVE  e <= accrued
      BY <1>5 DEF ClaimsSound
    <2>1. CASE y = d
      BY <1>1, <1>10, <1>11, <2>1 DEF ClaimsSound
    <2>2. CASE y # d
      BY <1>1, <1>11, <2>2 DEF ClaimsSound
    <2>3. QED BY <2>1, <2>2
  <1>16. Others'
    BY <1>1, <1>5, <1>11 DEF Others
  <1> QED BY <1>1, <1>5, <1>14, <1>15, <1>16 DEF CommissionsInv, OrderSound

-----------------------------------------------------------------------------
(* The invariant holds at first, and every step keeps it.                  *)
LEMMA ZerosAddUp ==
  ASSUME NEW f, \A e \in Event : f[e] = 0
  PROVE  Total(f, Event) = 0
  BY Lengths, SumZero DEF Total

LEMMA InitHolds ==
  ASSUME CommissionsInit
  PROVE  CommissionsInv
  <1>1. books = [event     |-> [e \in Event |-> "none"],
                 corrected |-> Nothing,
                 based     |-> [e \in Event |-> FALSE],
                 entry     |-> [e \in Event |-> [status |-> "none", amount |-> 0, reversed |-> 0]],
                 carry     |-> [base |-> 0, credited |-> 0, reversed |-> 0],
                 lot       |-> [e \in Event |-> [amount |-> 0, reserved |-> 0, consumed |-> 0]],
                 lots      |-> <<>>,
                 pending   |-> 0, frozen |-> 0, available |-> 0, held |-> 0,
                 paidOut   |-> 0, credit |-> Due,
                 source    |-> [d \in Dispute |-> {}],
                 block     |-> [d \in Dispute |-> Nothing],
                 hold      |-> [d \in Dispute |-> Nothing]]
    BY DEF CommissionsInit
  <1>2. /\ accrued = 0 /\ ripe = 0 /\ blocked = FALSE /\ fixed = {}
        /\ use = [u \in Use |-> [status |-> "none", share |-> Nothing]]
        /\ case = [d \in Dispute |-> [state |-> "none", applied |-> FALSE,
                                      num |-> 0, den |-> 0, credit |-> 0, claimed |-> Nothing,
                                      claim |-> [e \in Event |-> "none"]]]
    BY DEF CommissionsInit
  <1>3. Nothing \in [Event -> Nat] /\ \A e \in Event : Nothing[e] = 0
    BY DEF Nothing
  <1>4. /\ books.corrected = Nothing /\ books.carry = [base |-> 0, credited |-> 0, reversed |-> 0]
        /\ books.lots = <<>> /\ books.pending = 0 /\ books.frozen = 0 /\ books.available = 0
        /\ books.held = 0 /\ books.paidOut = 0
        /\ \A e \in Event : /\ books.based[e] = FALSE
                            /\ books.entry[e] = [status |-> "none", amount |-> 0, reversed |-> 0]
                            /\ books.lot[e] = NoLot
        /\ \A d \in Dispute : /\ books.source[d] = {} /\ books.block[d] = Nothing
                              /\ books.hold[d] = Nothing
    BY <1>1 DEF NoLot
  <1>5. books \in Books
    <2>1. Due \in Nat /\ <<>> \in Seq(Event)
      BY DueIsNat
    <2>2. /\ [e \in Event |-> "none"] \in [Event -> EventStatus]
          /\ [e \in Event |-> FALSE] \in [Event -> BOOLEAN]
          /\ [e \in Event |-> [status |-> "none", amount |-> 0, reversed |-> 0]] \in [Event -> Entry]
          /\ [base |-> 0, credited |-> 0, reversed |-> 0] \in Carry
          /\ [e \in Event |-> [amount |-> 0, reserved |-> 0, consumed |-> 0]] \in [Event -> Lot]
      BY DEF EventStatus, EntryStatus, Entry, Carry, Lot
    <2>3. /\ [d \in Dispute |-> {}] \in [Dispute -> SUBSET Event]
          /\ [d \in Dispute |-> Nothing] \in [Dispute -> [Event -> Nat]]
      BY <1>3
    <2>4. QED BY <1>1, <1>3, <2>1, <2>2, <2>3 DEF Books
  <1>6. use \in Uses
    BY <1>2, <1>3 DEF Uses, UseStatus
  <1>7. case \in Cases
    BY <1>2, <1>3 DEF Cases, CaseState, ClaimState
  <1>8. Others
    <2>1. accrued \in 0..Len(Paid) /\ ripe \in 0..accrued
      BY <1>2, Lengths
    <2>2. blocked \in BOOLEAN /\ fixed \subseteq DOMAIN Fix
      BY <1>2
    <2>3. QED BY <1>6, <1>7, <2>1, <2>2 DEF Others
  <1>9. \A e \in Event : /\ Blocked(books, e) = 0 /\ DisputeHeld(books, e) = 0
                         /\ UsedOf(use, e) = 0 /\ Unreserved(books, e) = 0
                         /\ LeftOf(books, e) = 0
    <2> TAKE e \in Event
    <2>1. Blocked(books, e) = 0 /\ DisputeHeld(books, e) = 0
      <3> DEFINE f == [d \in Dispute |-> books.block[d][e]]
                 g == [d \in Dispute |-> books.hold[d][e]]
      <3>1. \A d \in Dispute : f[d] = 0 /\ g[d] = 0
        BY <1>3, <1>4
      <3> HIDE DEF f, g
      <3>2. QED BY <3>1, Lengths, SumZero DEF Blocked, DisputeHeld, Total, f, g
    <2>2. UsedOf(use, e) = 0
      <3> DEFINE f == [x \in Use |-> use[x].share[e]]
      <3>1. \A x \in Use : f[x] = 0
        BY <1>2, <1>3
      <3> HIDE DEF f
      <3>2. QED BY <3>1, Lengths, SumZero DEF UsedOf, Total, f
    <2>3. Unreserved(books, e) = 0 /\ LeftOf(books, e) = 0
      BY <1>4 DEF Unreserved, LeftOf, NoLot
    <2>4. QED BY <2>1, <2>2, <2>3
  <1>10. /\ Total(InLots(books), Event) = 0 /\ Total(ReservedIn(books), Event) = 0
         /\ Total(FrozenIn(books), Event) = 0 /\ Total(LeftIn(books), Event) = 0
         /\ Total(BaseIn(books), Event) = 0
    <2>1. \A e \in Event : /\ InLots(books)[e] = 0 /\ ReservedIn(books)[e] = 0
                           /\ FrozenIn(books)[e] = 0 /\ LeftIn(books)[e] = 0
                           /\ BaseIn(books)[e] = 0
      BY <1>4, <1>9 DEF InLots, ReservedIn, FrozenIn, LeftIn, BaseIn, NoLot
    <2>2. QED BY <2>1, ZerosAddUp
  <1>11. LotsSound(books, use)
    <2>1. DOMAIN books.lots = {} /\ Range(books.lots) = {}
      BY <1>4 DEF Range
    <2>2. \A e \in Event : /\ books.lot[e] = NoLot /\ books.lot[e].reserved = 0
                           /\ books.lot[e].amount = 0 /\ books.lot[e].consumed = 0
      BY <1>4 DEF NoLot
    <2>3. \A e \in Event : LotSound(books, use, e)
      BY <1>9, <2>1, <2>2 DEF LotSound
    <2>4. Distinct(books.lots)
      BY <2>1 DEF Distinct
    <2>5. QED BY <1>4, <1>10, <2>3, <2>4 DEF LotsSound
  <1>12. EntriesSound(books)
    <2>1. \A e \in Event : books.entry[e].status \notin {"frozen", "available"}
      BY <1>4
    <2>2. QED BY <1>4, <1>9, <1>10, <2>1 DEF EntriesSound
  <1>13. Whole(books)
    BY <1>4, <1>10 DEF Whole
  <1>14. FlagsSound(books, case)
    BY <1>2, <1>4 DEF FlagsSound
  <1>15. EarnedSound(books)
    <2>1. Target(0) = 0
      BY TargetRises
    <2>2. \A e \in Event : books.corrected[e] <= Paid[e]
      BY <1>3, <1>4, Lengths
    <2>3. books.carry.credited = 0 /\ books.carry.reversed = 0 /\ books.carry.base = 0
      BY <1>4
    <2>4. QED BY <1>10, <2>1, <2>2, <2>3 DEF EarnedSound
  <1>16. Untouched(books, accrued) /\ UsesSound(use) /\ ClaimsSound(case, accrued)
    <2>1. Untouched(books, accrued)
      BY <1>3, <1>4 DEF Untouched
    <2>2. UsesSound(use)
      BY <1>2 DEF UsesSound, Reserving
    <2>3. ClaimsSound(case, accrued)
      BY <1>2 DEF ClaimsSound
    <2>4. QED BY <2>1, <2>2, <2>3
  <1> QED BY <1>5, <1>8, <1>11, <1>12, <1>13, <1>14, <1>15, <1>16 DEF CommissionsInv, BooksSound

LEMMA NextHolds ==
  ASSUME CommissionsInv, [CommissionsNext]_commissionsVars
  PROVE  CommissionsInv'
  <1>1. CASE UNCHANGED commissionsVars
    <2>1. /\ books' = books /\ accrued' = accrued /\ ripe' = ripe /\ blocked' = blocked
          /\ use' = use /\ case' = case /\ fixed' = fixed
      BY <1>1 DEF commissionsVars
    <2>2. QED BY <2>1 DEF CommissionsInv, Others
  <1>2. CASE CommissionsNext
    <2>1. ASSUME NEW kind, AccrueGrantEvent(kind) PROVE CommissionsInv'
      BY <2>1, AccrueStep
    <2>2. ASSUME NEW k \in DOMAIN Fix, CorrectUsage(k) PROVE CommissionsInv'
      BY <2>2, FixStep
    <2>3. ASSUME NEW stop \in BOOLEAN, SetFunctionState(stop) PROVE CommissionsInv'
      BY <2>3, StateStep
    <2>4. ASSUME NEW w \in Withdrawal,
                 \/ RequestWithdrawal(w) \/ ApproveWithdrawal(w) \/ VerifyWithdrawalPaid(w)
                 \/ CancelWithdrawal(w) \/ FailWithdrawal(w)
          PROVE  CommissionsInv'
      BY <2>4, WithdrawalStep
    <2>5. ASSUME NEW o \in Order, ReserveOrder(o) \/ CompleteOrder(o) \/ CloseOrder(o)
          PROVE  CommissionsInv'
      BY <2>5, PurchaseStep
    <2>6. ASSUME NEW d \in Dispute, RecordChargeback(d) PROVE CommissionsInv'
      BY <2>6, RecordStep
    <2>7. ASSUME NEW d \in Dispute, RestrictChargeback(d) PROVE CommissionsInv'
      BY <2>7, RestrictStep
    <2>8. ASSUME NEW d \in Dispute, NEW class \in {"invalid_payment", "other"},
                 ResolveChargeback(d, class)
          PROVE  CommissionsInv'
      BY <2>8, ResolveStep
    <2>9. ASSUME Ripen \/ Advance PROVE CommissionsInv'
      BY <2>9, RipenStep, AdvanceStepKeeps
    <2>10. QED
      BY <1>2, <2>1, <2>2, <2>3, <2>4, <2>5, <2>6, <2>7, <2>8, <2>9 DEF CommissionsNext
  <1> QED BY <1>1, <1>2

LEMMA AlwaysInv == CommissionsSpec => []CommissionsInv
  BY InitHolds, NextHolds, PTL DEF CommissionsSpec

-----------------------------------------------------------------------------
(* Every variable keeps its type: no account, lot, entry, block, hold or   *)
(* pending offset ever becomes negative (incentives, remediation).         *)
THEOREM CommissionsTyped == CommissionsSpec => []CommissionsTypeOK
  <1>1. CommissionsInv => CommissionsTypeOK
    BY DEF CommissionsInv, Others, BooksSound, CommissionsTypeOK, Books, Lot, Entry, Carry,
           Uses, Cases
  <1>2. QED BY <1>1, AlwaysInv, PTL

(* The ledger's accounts and the provenance of the lots say the same       *)
(* (commission_funding.go, confirmation.go, corrections.go).               *)
THEOREM BooksAlwaysAgree == CommissionsSpec => []BooksAgree
  <1>1. CommissionsInv => BooksAgree
    <2> SUFFICES ASSUME CommissionsInv PROVE BooksAgree
      OBVIOUS
    <2>1. LotsSound(books, use) /\ EntriesSound(books) /\ books \in Books
      BY Here DEF OrderSound, BooksSound
    <2>2. /\ books.available = Total([e \in Event |-> books.lot[e].amount - books.lot[e].consumed],
                                     Event)
          /\ books.held = Total([e \in Event |-> books.lot[e].reserved], Event)
      BY <2>1 DEF LotsSound, InLots, ReservedIn
    <2>3. \A e \in Event :
            /\ books.lot[e].reserved =
                 DisputeHeld(books, e) + Total([u \in Use |-> use[u].share[e]], Use)
            /\ Unreserved(books, e) >= 0
      BY <2>1 DEF LotsSound, LotSound, UsedOf
    <2>4. books.frozen = Total([e \in Event |-> Left(e)], {e \in Event : Frozen(books, e)})
      <3> DEFINE S == {e \in Event : Frozen(books, e)}
                 g == [e \in Event |-> Left(e)]
      <3>1. S \subseteq Event /\ IsFiniteSet(S)
        BY Lengths, FS_Subset
      <3>2. /\ \A e \in Event : FrozenIn(books)[e] \in Int
            /\ \A e \in Event \ S : FrozenIn(books)[e] = 0
            /\ \A e \in S : FrozenIn(books)[e] = g[e]
        <4>1. \A e \in Event : FrozenIn(books)[e] \in Nat
          BY <2>1, LeftIsNat
        <4>2. QED BY <4>1 DEF FrozenIn, LeftOf, Left
      <3> HIDE DEF S, g
      <3>3. SumFunctionOnSet(FrozenIn(books), S) = SumFunctionOnSet(FrozenIn(books), Event)
        BY <3>1, <3>2, Lengths, SumWithoutZeros
      <3>4. SumFunctionOnSet(FrozenIn(books), S) = SumFunctionOnSet(g, S)
        BY <3>1, <3>2, SumSame
      <3>5. books.frozen = Total(FrozenIn(books), Event)
        BY <2>1 DEF EntriesSound
      <3>6. QED BY <3>3, <3>4, <3>5 DEF Total, S, g
    <2>5. QED BY <2>2, <2>3, <2>4 DEF BooksAgree
  <1>2. QED BY <1>1, AlwaysInv, PTL

(* What the promoter has, had or owes is exactly the commission of the     *)
(* consumption that was not corrected (confirmation.go, corrections.go).   *)
THEOREM AlwaysEarnedExactly == CommissionsSpec => []EarnedExactly
  <1>1. CommissionsInv => EarnedExactly
    <2> SUFFICES ASSUME CommissionsInv PROVE EarnedExactly
      OBVIOUS
    <2>1. EarnedSound(books) /\ Whole(books) /\ EntriesSound(books) /\ books \in Books
      BY Here DEF OrderSound, BooksSound
    <2>2. LeftIn(books) = [e \in Event |-> Left(e)]
      BY DEF LeftIn, LeftOf, Left
    <2> DEFINE S == {e \in Event : books.based[e]}
               g == [e \in Event |-> Paid[e] - books.corrected[e]]
    <2>3. S \subseteq Event /\ IsFiniteSet(S)
      BY Lengths, FS_Subset
    <2>4. /\ \A e \in Event : BaseIn(books)[e] \in Int
          /\ \A e \in Event \ S : BaseIn(books)[e] = 0
          /\ \A e \in S : BaseIn(books)[e] = g[e]
      <3>1. \A e \in Event : Paid[e] \in Nat /\ books.corrected[e] \in Nat
        BY <2>1, Lengths, Fields
      <3>2. QED BY <3>1 DEF BaseIn
    <2> HIDE DEF S, g
    <2>5. SumFunctionOnSet(BaseIn(books), S) = SumFunctionOnSet(BaseIn(books), Event)
      BY <2>3, <2>4, Lengths, SumWithoutZeros
    <2>6. SumFunctionOnSet(BaseIn(books), S) = SumFunctionOnSet(g, S)
      BY <2>3, <2>4, SumSame
    <2>7. books.carry.base = Total(g, S)
      BY <2>1, <2>5, <2>6 DEF EarnedSound, Total
    <2>8. Total(LeftIn(books), Event) = Target(Total(g, S))
      BY <2>1, <2>7 DEF EarnedSound
    <2>9. Total(LeftIn(books), Event)
            = books.frozen + books.available + books.paidOut - books.pending
      <3>1. /\ Total(LeftIn(books), Event) \in Nat /\ books.pending \in Nat
            /\ books.frozen \in Nat /\ books.available \in Nat /\ books.paidOut \in Nat
        BY <2>1, LeftIsNat, Fields
      <3>2. Total(LeftIn(books), Event) + books.pending
              = books.frozen + books.available + books.paidOut
        BY <2>1 DEF Whole
      <3>3. PICK d \in Int : d = books.paidOut - books.pending
        BY <3>1
      <3>4. books.paidOut = d + books.pending
        BY <3>1, <3>3
      <3>5. Total(LeftIn(books), Event) = books.frozen + books.available + d
        BY <3>1, <3>2, <3>4
      <3>6. QED BY <3>3, <3>5
    <2>10. QED BY <2>2, <2>8, <2>9 DEF EarnedExactly, S, g
  <1>2. QED BY <1>1, AlwaysInv, PTL

(* What the open chargebacks block of a lot stays in it                    *)
(* (commission_sources.go 84-115, commission_order_flags.go).              *)
THEOREM DisputedAlwaysKept == CommissionsSpec => []DisputedIsKept
  <1>1. CommissionsInv => DisputedIsKept
    BY Here DEF LotsSound, LotSound, DisputedIsKept
  <1>2. QED BY <1>1, AlwaysInv, PTL
=============================================================================
