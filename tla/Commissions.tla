---------------------------- MODULE Commissions ----------------------------
(***************************************************************************)
(* A promoter earns a share of what a referred customer consumes:          *)
(* internal/incentives, with the chargebacks of internal/remediation that  *)
(* dispute the payment behind the consumption.                             *)
(*                                                                         *)
(* One order of one customer is consumed in events.  Each may earn the     *)
(* promoter a commission ENTRY, frozen until the event is confirmed; a     *)
(* release turns it into a LOT, from which withdrawals and the promoter's  *)
(* own purchases reserve.  A correction takes back what was earned, from   *)
(* the lots where it still is and as a pending offset where it is not.  A  *)
(* chargeback blocks a part of the lots as soon as it is recorded, holds   *)
(* it when it is applied, and takes or frees it when it is resolved.       *)
(*                                                                         *)
(* Every command takes the operator's advisory lock (LockBusiness) first:  *)
(* a command is one action.  The code's helpers change several rows of the *)
(* ledger and of provenance in turn; here each maps a record of the BOOKS  *)
(* to the next.  Money is counted in whole atoms, as Quantize leaves it.   *)
(***************************************************************************)
EXTENDS Integers, Sequences, FiniteSets, Functions

CONSTANTS
    Paid,         \* Paid[e]: the paid money event number e consumed
    RateNum,      \* the promoter's rate is RateNum / RateDen
    RateDen,
    Claim,        \* Claim[d]: what chargeback number d claims of the receipt
    Fix,          \* Fix[k]: what usage correction number k gives back, and
                  \* of which event
    Withdrawal,   \* withdrawal requests
    Order,        \* the promoter's orders paid from commission
    Amount        \* Amount[u]: what withdrawal or order u asks for

Event   == DOMAIN Paid
Dispute == DOMAIN Claim
Use     == Withdrawal \cup Order
Events  == [i \in 1..Len(Paid) |-> i]

Total(f, S) == SumFunctionOnSet(f, S)

\* A loop: step(.., i) for every i of 1..n in turn.
Through(step(_, _), n, b) ==
    LET after[i \in 0..n] == IF i = 0 THEN b ELSE step(after[i - 1], i)
    IN  after[n]

Least(a, b) == IF a <= b THEN a ELSE b
Positive(a) == IF a > 0 THEN a ELSE 0
Nothing == [e \in Event |-> 0]

\* The receipt paid for exactly this order.
Due == Total(Paid, Event)

ASSUME CommissionsAssumption ==
    /\ Paid \in Seq(Nat \ {0}) /\ Claim \in Seq(1..Due)
    /\ Fix \in Seq([event : Event, amount : Nat \ {0}])
    /\ RateDen \in Nat \ {0} /\ RateNum \in 1..RateDen
    /\ Withdrawal \cap Order = {} /\ IsFiniteSet(Use)
    /\ Amount \in [Use -> Nat \ {0}]

VARIABLES
    books,     \* events, entries, lots and the promoter's accounts (below)
    accrued,   \* events observed so far: they are numbered in that order
    ripe,      \* of these, how many are past their confirmation time
    blocked,   \* the promoter's function state stops releases and uses
    use,       \* use[u]: the withdrawal's or order's status and allocations
    case,      \* case[d]: the chargeback, its flag and what it claims
    fixed      \* the usage corrections done

commissionsVars == <<books, accrued, ripe, blocked, use, case, fixed>>

EntryStatus == {"none", "frozen", "available", "reversed"}
EventStatus == {"none", "pending", "disputed", "confirmed"}
Reserving        == {"requested", "approved", "held"}
UseStatus   == Reserving \cup {"none", "paid", "captured", "cancelled", "failed", "released"}
CaseState   == {"none", "disputed", "invalid_payment", "other"}
ClaimState  == {"none", "disputed", "observed", "closed"}

CommissionsTypeOK ==
    /\ books \in
         [event     : [Event -> EventStatus],
          corrected : [Event -> Nat],         \* what corrections took of it
          based     : [Event -> BOOLEAN],     \* it counts for the commission
          entry     : [Event -> [status : EntryStatus, amount : Nat, reversed : Nat]],
          carry     : [base : Nat, credited : Nat, reversed : Nat],
          lot       : [Event -> [amount : Nat, reserved : Nat, consumed : Nat]],
          lots      : Seq(Event),             \* in the order of their creation
          pending   : Nat,                    \* offset still to be recovered
          frozen    : Nat,                    \* account commission:frozen
          available : Nat,                    \* account commission:available
          held      : Nat,                    \*   and what is held of it
          paidOut   : Nat,                    \* captured by payouts and orders
          credit    : Nat,                    \* paid credit left to consume
          source    : [Dispute -> SUBSET Event],      \* active source flags
          block     : [Dispute -> [Event -> Nat]],    \* active entry flags
          hold      : [Dispute -> [Event -> Nat]]]    \* dispute holds
    /\ accrued \in 0..Len(Paid) /\ ripe \in 0..accrued
    /\ blocked \in BOOLEAN
    /\ use \in [Use -> [status : UseStatus, share : [Event -> Nat]]]
    /\ case \in [Dispute -> [state : CaseState, applied : BOOLEAN,
                             num : Nat, den : Nat, credit : Nat,
                             claimed : [Event -> Nat],
                             claim : [Event -> ClaimState]]]
    /\ fixed \subseteq DOMAIN Fix

CommissionsInit ==
    /\ books = [event     |-> [e \in Event |-> "none"],
                corrected |-> Nothing,
                based     |-> [e \in Event |-> FALSE],
                entry     |-> [e \in Event |-> [status |-> "none", amount |-> 0, reversed |-> 0]],
                carry     |-> [base |-> 0, credited |-> 0, reversed |-> 0],
                lot       |-> [e \in Event |-> [amount |-> 0, reserved |-> 0, consumed |-> 0]],
                lots      |-> <<>>,
                pending   |-> 0, frozen |-> 0, available |-> 0, held |-> 0,
                paidOut   |-> 0, credit |-> Due,
                source    |-> [d \in Dispute |-> {}],
                block     |-> [d \in Dispute |-> Nothing],
                hold      |-> [d \in Dispute |-> Nothing]]
    /\ accrued = 0 /\ ripe = 0 /\ blocked = FALSE
    /\ use = [u \in Use |-> [status |-> "none", share |-> Nothing]]
    /\ case = [d \in Dispute |-> [state |-> "none", applied |-> FALSE,
                                  num |-> 0, den |-> 0, credit |-> 0, claimed |-> Nothing,
                                  claim |-> [e \in Event |-> "none"]]]
    /\ fixed = {}

-----------------------------------------------------------------------------
(* Provenance: what may be used of a lot, and which lots an amount comes    *)
(* from.                                                                    *)

Blocked(b, e)     == Total([d \in Dispute |-> b.block[d][e]], Dispute)
DisputeHeld(b, e) == Total([d \in Dispute |-> b.hold[d][e]], Dispute)
Unreserved(b, e)  == b.lot[e].amount - b.lot[e].reserved - b.lot[e].consumed
Available(b)      == b.available - b.held

\* What a block covers is either held already, and so reserved, or is kept
\* back here.
Spendable(b) ==
    [e \in Event |-> Positive(Unreserved(b, e) - Positive(Blocked(b, e) - DisputeHeld(b, e)))]

\* amount, taken along queue and from each no more than its limit.
Shares(queue, limit, amount) ==
    [e \in Event |->
        IF e \notin Range(queue) THEN 0
        ELSE LET earlier == {queue[i] : i \in 1..(CHOOSE i \in DOMAIN queue : queue[i] = e) - 1}
             IN  Least(limit[e], Positive(amount - Total(limit, earlier)))]

Reserve(b, share) ==
    [b EXCEPT !.lot = [e \in Event |-> [b.lot[e] EXCEPT !.reserved = @ + share[e]]],
              !.held = @ + Total(share, Event)]

Unreserve(b, share) ==
    [b EXCEPT !.lot = [e \in Event |-> [b.lot[e] EXCEPT !.reserved = @ - share[e]]],
              !.held = @ - Total(share, Event)]

\* Mutant: the money leaves the account and the lots keep it.
RecoverCash(b, share) == [b EXCEPT !.available = @ - Total(share, Event)]

\* A recovery reserves and consumes at once and leaves the account.
Recover(b, share) ==
    [b EXCEPT !.lot = [e \in Event |-> [b.lot[e] EXCEPT !.consumed = @ + share[e]]],
              !.available = @ - Total(share, Event)]

-----------------------------------------------------------------------------
(* Releases.                                                                *)

\* A flag blocks its fraction of what the flags before it left of the lot.
Block(b, d, e) ==
    [b EXCEPT !.block[d][e] =
        (Positive(b.lot[e].amount - b.lot[e].consumed - Blocked(b, e)) * case[d].num)
            \div case[d].den]

ApplyFlags(b, e) ==
    Through(LAMBDA acc, d : IF e \in acc.source[d] THEN Block(acc, d, e) ELSE acc,
            Len(Claim), b)

FundingLot(b, e, amount) ==
    ApplyFlags([b EXCEPT !.lot[e] = [amount |-> amount, reserved |-> 0, consumed |-> 0],
                         !.lots = Append(@, e)], e)

\* A pending offset is settled first, from what the new lot may spend.
Release(b, e) ==
    LET amount  == b.entry[e].amount - b.entry[e].reversed
        made    == FundingLot(b, e, amount)
        offset  == Least(b.pending, Spendable(made)[e])
    IN  IF blocked THEN b
        ELSE [made EXCEPT !.lot[e].consumed = offset,
                          !.pending = @ - offset,
                          !.frozen = @ - amount,
                          !.available = @ + (amount - offset),
                          !.entry[e].status = "available"]

Frozen(b, e) == b.entry[e].status = "frozen"

Confirm(b, e) ==
    LET confirmed == [b EXCEPT !.event[e] = "confirmed"]
    IN  IF Frozen(b, e) THEN Release(confirmed, e) ELSE confirmed

SettleOffsets(b) ==
    LET limit  == Spendable(b)
        amount == Least(Least(Available(b), b.pending), Total(limit, Event))
    IN  [Recover(b, Shares(b.lots, limit, amount)) EXCEPT !.pending = @ - amount]

\* advance for the customer confirms all that is due, and releases with it;
ConfirmDue(b, e) == IF b.event[e] = "pending" THEN Confirm(b, e) ELSE b

AdvanceCustomer(b) == Through(ConfirmDue, ripe, b)

\* for the promoter it confirms the events behind frozen entries, releases
\* the entries whose release was put off, and settles offsets.
ConfirmEarned(b, e) == IF b.event[e] = "pending" /\ Frozen(b, e) THEN Confirm(b, e) ELSE b
ReleaseLate(b, e) == IF b.event[e] = "confirmed" /\ Frozen(b, e) THEN Release(b, e) ELSE b

\* Mutant: an entry is released with its event or never.
AdvancePromoterOnce(b) == SettleOffsets(Through(ConfirmEarned, ripe, b))

AdvancePromoter(b) ==
    SettleOffsets(Through(ReleaseLate, ripe, Through(ConfirmEarned, ripe, b)))

AdvanceStep ==
    books' = AdvancePromoter(books) /\ UNCHANGED <<accrued, ripe, blocked, use, case, fixed>>

Advance ==
    \/ /\ books' = AdvanceCustomer(books)
       /\ UNCHANGED <<accrued, ripe, blocked, use, case, fixed>>
    \/ AdvanceStep

-----------------------------------------------------------------------------
(* Consumption and its corrections.                                         *)

Target(base) == (base * RateNum) \div RateDen

\* Mutant: the commission of each event is rounded by itself.
EarnRounded(b, e) ==
    LET amount == Target(Paid[e])
    IN  [b EXCEPT !.based[e] = TRUE,
                  !.carry.base = @ + Paid[e], !.carry.credited = @ + amount,
                  !.entry[e] = [status |-> "frozen", amount |-> amount, reversed |-> 0],
                  !.frozen = @ + amount]

\* The commission of the whole base, less what was credited of it before:
\* fractions of an atom are carried from event to event.
Earn(b, e) ==
    LET base   == b.carry.base + Paid[e]
        amount == Target(base) - (b.carry.credited - b.carry.reversed)
        counted == [b EXCEPT !.based[e] = TRUE,
                             !.carry.base = base, !.carry.credited = @ + amount]
    IN  IF amount = 0 THEN counted
        ELSE [counted EXCEPT
                !.entry[e] = [status |-> "frozen", amount |-> amount, reversed |-> 0],
                !.frozen = @ + amount]

\* "expiry": credit expired unused, which earns nothing; "ineligible": the
\* promoter is advanced and found not to qualify; "eligible": it does.
AccrueGrantEvent(kind) ==
    LET e == accrued + 1
        flags == {d \in Dispute : case[d].state = "disputed" /\ case[d].den > 0
                                    /\ ~case[d].applied}
        seen == [books EXCEPT
                   !.event[e] = "pending",
                   !.credit = @ - Paid[e],
                   !.source = [d \in Dispute |-> IF d \in flags THEN @[d] \cup {e} ELSE @[d]]]
        advanced == IF kind = "expiry" THEN seen ELSE AdvancePromoter(seen)
        earned == IF kind = "eligible" THEN Earn(advanced, e) ELSE advanced
    IN  /\ accrued < Len(Paid) /\ Paid[e] <= books.credit
        /\ accrued' = e
        /\ books' = AdvanceCustomer(earned)
        /\ UNCHANGED <<ripe, blocked, use, case, fixed>>

Ripen ==
    /\ ripe < accrued
    /\ ripe' = ripe + 1
    /\ UNCHANGED <<books, accrued, blocked, use, case, fixed>>

\* From a frozen entry all of it is taken; from a released one what the
\* account and the lots can spend, its own lot first, and the rest is owed.
ReverseEntry(b, e, amount) ==
    LET limit == Spendable(b)
        take == Least(amount, Least(Available(b), Total(limit, Event)))
        own  == Least(take, limit[e])
        rest == Shares(b.lots, [limit EXCEPT ![e] = @ - own], take - own)
        reversed == b.entry[e].reversed + amount
        noted == [b EXCEPT !.entry[e].reversed = reversed,
                           !.entry[e].status =
                               IF reversed = b.entry[e].amount THEN "reversed" ELSE @]
    IN  IF amount = 0 THEN b
        ELSE IF Frozen(b, e) THEN [noted EXCEPT !.frozen = @ - amount]
        ELSE [Recover(noted, [rest EXCEPT ![e] = @ + own])
                EXCEPT !.pending = @ + (amount - take)]

Correctable(b, e, amount) == b.corrected[e] + amount <= Paid[e]

TakeBack(b, share) ==
    Through(LAMBDA acc, x : ReverseEntry(acc, x, share[x]), Len(Paid), b)

\* The earliest entries of the order give way first, whichever event is
\* corrected: they share one carry.
ReverseEvent(b, e, amount) ==
    LET base  == b.carry.base - amount
        back  == (b.carry.credited - b.carry.reversed) - Target(base)
        left  == [x \in Event |-> b.entry[x].amount - b.entry[x].reversed]
        share == Shares(Events, left, back)
        taken == TakeBack(b, share)
        rebased == IF b.based[e]
                   THEN [taken EXCEPT !.carry.base = base, !.carry.reversed = @ + back]
                   ELSE b
    IN  AdvanceCustomer([rebased EXCEPT !.corrected[e] = @ + amount])

\* A correction of the usage gives the customer the credit back as well.
CorrectUsage(k) ==
    /\ k \notin fixed /\ Fix[k].event <= accrued
    /\ Correctable(books, Fix[k].event, Fix[k].amount)
    /\ fixed' = fixed \cup {k}
    /\ books' = [ReverseEvent(books, Fix[k].event, Fix[k].amount) EXCEPT !.credit = @ + Fix[k].amount]
    /\ UNCHANGED <<accrued, ripe, blocked, use, case>>

SetFunctionState(stop) ==
    /\ books' = AdvancePromoter(books)
    /\ blocked' = stop
    /\ UNCHANGED <<accrued, ripe, use, case, fixed>>

-----------------------------------------------------------------------------
(* Uses of available commission.                                            *)

\* Oldest lots first; the whole amount or nothing.
ReserveUse(b, u, status) ==
    LET limit == Spendable(b)
        share == Shares(b.lots, limit, Amount[u])
    IN  /\ ~blocked
        /\ Total(limit, Event) >= Amount[u] /\ Available(b) >= Amount[u]
        /\ books' = Reserve(b, share)
        /\ use' = [use EXCEPT ![u] = [status |-> status, share |-> share]]
        /\ UNCHANGED <<accrued, ripe, blocked, case, fixed>>

ReleaseUse(u, status) ==
    /\ books' = Unreserve(books, use[u].share)
    /\ use' = [use EXCEPT ![u] = [status |-> status, share |-> Nothing]]
    /\ UNCHANGED <<accrued, ripe, blocked, case, fixed>>

\* A flag recorded since the reservation stops the payout of its lots when
\* what is left of them beside the reservations does not cover the block.
\* Mutant: only the promoter's function state is looked at.
RequireFunction(u) == ~blocked

RequireExecution(u) ==
    /\ ~blocked
    /\ \A e \in Event : use[u].share[e] > 0 =>
         Blocked(books, e) <= Unreserved(books, e) + DisputeHeld(books, e)

ConsumeUse(u, status) ==
    /\ RequireExecution(u)
    /\ books' = [Recover(Unreserve(books, use[u].share), use[u].share)
                    EXCEPT !.paidOut = @ + Amount[u]]
    /\ use' = [use EXCEPT ![u] = [status |-> status, share |-> Nothing]]
    /\ UNCHANGED <<accrued, ripe, blocked, case, fixed>>

RequestWithdrawal(w) ==
    /\ use[w].status = "none"
    /\ ReserveUse(AdvancePromoter(books), w, "requested")

ApproveWithdrawal(w) ==
    /\ use[w].status = "requested"
    /\ use' = [use EXCEPT ![w].status = "approved"]
    /\ UNCHANGED <<books, accrued, ripe, blocked, case, fixed>>

VerifyWithdrawalPaid(w) == use[w].status = "approved" /\ ConsumeUse(w, "paid")
CancelWithdrawal(w)     == use[w].status = "requested" /\ ReleaseUse(w, "cancelled")
FailWithdrawal(w)       == use[w].status \in {"requested", "approved"} /\ ReleaseUse(w, "failed")

\* An order whose funds were released is paid after all, and reserves again.
ReserveOrder(o)  == use[o].status \in {"none", "released"} /\ ReserveUse(books, o, "held")
CompleteOrder(o) == use[o].status = "held" /\ ConsumeUse(o, "captured")
CloseOrder(o)    == use[o].status = "held" /\ ReleaseUse(o, "released")

-----------------------------------------------------------------------------
(* Chargebacks.                                                             *)

Claimed(S) == Total(Claim, S)
Invalid == {d \in Dispute : case[d].state = "invalid_payment"}
Active  == {d \in Dispute : case[d].state = "disputed"}
Applied == {d \in Active : case[d].applied}

\* What of the receipt is not found invalid, and what of it is not flagged.
Basis == Due - Claimed(Invalid)
Free  == Basis - Total([x \in Dispute |-> case[x].num], Active)

\* num / den of what the flags so far leave of every lot.
Portion(b, num, den) ==
    [e \in Event |->
        (Positive(b.lot[e].amount - b.lot[e].consumed - Blocked(b, e)) * num) \div den]

\* A verified chargeback flags the order: the events so far at once, and
\* those that follow until it is applied.
RecordChargeback(d) ==
    LET num  == Least(Claim[d], Free)
        flag == Basis > 0 /\ Free > 0
    IN  /\ case[d].state = "none"
        /\ \A x \in Dispute : x < d => case[x].state # "none"
        /\ case' = [case EXCEPT ![d] = [case[d] EXCEPT
                        !.state = "disputed",
                        !.num = IF flag THEN num ELSE 0, !.den = IF flag THEN Free ELSE 0]]
        /\ books' = IF ~flag THEN books
                    ELSE [books EXCEPT !.source[d] = 1..accrued,
                                       !.block[d] = Portion(books, num, Free)]
        /\ UNCHANGED <<accrued, ripe, blocked, use, fixed>>

\* The chargeback's part of what the others left of each event.
ClaimedOf(d, basis) ==
    [e \in Event |->
        (Positive(IF e > accrued THEN 0 ELSE
            Paid[e] - books.corrected[e]
               - Total([x \in Dispute |-> case[x].claimed[e]], Applied)) * Claim[d]) \div basis]

\* Applying holds the blocked part of the lots, stops the confirmation of
\* the events not confirmed yet and freezes a share of the unused credit.
RestrictChargeback(d) ==
    LET basis == Due - Claimed(Invalid \cup Applied)
        claimed == ClaimedOf(d, basis)
        touched == {e \in Event : claimed[e] > 0}
        hold  == [e \in Event |-> IF e \in touched
                    THEN Least(books.block[d][e], books.lot[e].amount - books.lot[e].consumed)
                    ELSE 0]
        credit == (books.credit * Claim[d]) \div basis
        later == {e \in touched : books.event[e] # "confirmed"}
    IN  /\ case[d].state = "disputed" /\ ~case[d].applied
        /\ Claim[d] <= basis
        /\ \A e \in touched : hold[e] <= Unreserved(books, e)
        /\ case' = [case EXCEPT ![d] = [case[d] EXCEPT
                        !.applied = TRUE, !.credit = credit, !.claimed = claimed,
                        !.claim = [e \in Event |-> IF e \in later THEN "disputed"
                                                   ELSE IF e \in touched THEN "observed"
                                                   ELSE "none"]]]
        /\ books' = [Reserve(books, hold) EXCEPT
                        !.hold[d] = hold,
                        !.credit = books.credit - credit,
                        !.event = [e \in Event |-> IF e \in later THEN "disputed"
                                                   ELSE books.event[e]]]
        /\ UNCHANGED <<accrued, ripe, blocked, use, fixed>>

ReleaseRestrictions(b, d) ==
    [Unreserve(b, b.hold[d]) EXCEPT !.hold[d] = Nothing, !.block[d] = Nothing, !.source[d] = {}]

\* The event is confirmed again once nobody disputes it.
ReleaseEventDispute(b, d, e) ==
    LET others == {x \in Dispute \ {d} : case[x].claim[e] = "disputed"}
    IN  IF b.event[e] = "disputed" /\ others = {}
        THEN [b EXCEPT !.event[e] = "pending"] ELSE b

\* Found invalid, the payment's share of every claimed event is corrected;
\* otherwise all is as before.
Settle(b, d, e, reversed) ==
    LET corrected == IF reversed THEN ReverseEvent(b, e, case[d].claimed[e]) ELSE b
    IN  IF case[d].claim[e] = "none" THEN b
        ELSE IF case[d].claim[e] = "disputed" THEN ReleaseEventDispute(corrected, d, e)
        ELSE corrected

SettleEvents(b, d, reversed) ==
    Through(LAMBDA acc, e : Settle(acc, d, e, reversed), Len(Paid), b)

ResolveChargeback(d, class) ==
    LET kept == ReleaseRestrictions(books, d)
        reversed == class = "invalid_payment"
    IN  /\ case[d].state = "disputed"
        /\ reversed => /\ case[d].applied
                       /\ Claimed(Invalid \cup {d}) <= Due
                       /\ \A e \in Event : Correctable(books, e, case[d].claimed[e])
        /\ books' = [SettleEvents(kept, d, reversed) EXCEPT
                        !.credit = IF reversed THEN @ ELSE @ + case[d].credit]
        /\ case' = [case EXCEPT ![d] = [case[d] EXCEPT
                        !.state = class, !.credit = 0, !.num = 0, !.den = 0, !.claimed = Nothing,
                        !.claim = [e \in Event |-> IF case[d].claim[e] = "none" THEN "none"
                                                   ELSE "closed"]]]
        /\ UNCHANGED <<accrued, ripe, blocked, use, fixed>>

-----------------------------------------------------------------------------
CommissionsNext ==
    \/ \E kind \in {"expiry", "ineligible", "eligible"} : AccrueGrantEvent(kind)
    \/ Ripen
    \/ Advance
    \/ \E k \in DOMAIN Fix : CorrectUsage(k)
    \/ \E stop \in BOOLEAN : SetFunctionState(stop)
    \/ \E w \in Withdrawal : \/ RequestWithdrawal(w) \/ ApproveWithdrawal(w)
                             \/ VerifyWithdrawalPaid(w) \/ CancelWithdrawal(w)
                             \/ FailWithdrawal(w)
    \/ \E o \in Order : ReserveOrder(o) \/ CompleteOrder(o) \/ CloseOrder(o)
    \/ \E d \in Dispute : \/ RecordChargeback(d) \/ RestrictChargeback(d)
                          \/ \E class \in {"invalid_payment", "other"} : ResolveChargeback(d, class)

CommissionsSpec == CommissionsInit /\ [][CommissionsNext]_commissionsVars

\* The qualification task of the worker advances every customer, the
\* promoter among them, again and again (portal/worker.go 270-286): weak
\* fairness of AdvanceStep, which is enabled just when it changes the books,
\* spelled out so that TLC need not evaluate ENABLED.
CommissionsFairSpec ==
    /\ CommissionsSpec
    /\ []<>(AdvancePromoter(books) = books) \/ []<><<AdvanceStep>>_commissionsVars

-----------------------------------------------------------------------------
(* Properties.                                                              *)

Left(e) == books.entry[e].amount - books.entry[e].reversed

\* The ledger and the provenance rows say the same: what is available is
\* what the lots still hold, what is held is what their allocations reserve,
\* and what is frozen is what the frozen entries are worth.
BooksAgree ==
    /\ books.available = Total([e \in Event |-> books.lot[e].amount - books.lot[e].consumed], Event)
    /\ books.held = Total([e \in Event |-> books.lot[e].reserved], Event)
    /\ \A e \in Event :
         /\ books.lot[e].reserved =
              DisputeHeld(books, e) + Total([u \in Use |-> use[u].share[e]], Use)
         /\ Unreserved(books, e) >= 0
    /\ books.frozen = Total([e \in Event |-> Left(e)], {e \in Event : Frozen(books, e)})

\* Through any order of releases, uses, corrections and chargebacks the
\* promoter has, or has had, exactly the commission of the consumption that
\* was not corrected; what was spent of a commission that was taken back
\* afterwards is owed as the pending offset.
EarnedExactly ==
    /\ Total([e \in Event |-> Left(e)], Event) =
         Target(Total([e \in Event |-> Paid[e] - books.corrected[e]],
                      {e \in Event : books.based[e]}))
    /\ Total([e \in Event |-> Left(e)], Event) =
         books.frozen + books.available + books.paidOut - books.pending

\* What the open chargebacks block of a lot is never paid out, spent or
\* recovered: neither by a use reserved before the chargeback was recorded,
\* nor for another correction, nor for an older debt.
DisputedIsKept ==
    \A e \in Event : Blocked(books, e) <= books.lot[e].amount - books.lot[e].consumed

\* A commission past its confirmation time is released, also when the
\* release was put off by a dispute or by the promoter's function state and
\* its event has been confirmed meanwhile.
Releasable(e) ==
    /\ e <= ripe /\ Frozen(books, e) /\ ~blocked
    /\ books.event[e] \in {"pending", "confirmed"}

ReleasedInTheEnd == \A e \in Event : Releasable(e) ~> ~Releasable(e)
=============================================================================
