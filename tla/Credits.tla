------------------------------- MODULE Credits -------------------------------
(***************************************************************************)
(* The credit grants of one customer (internal/ledger grants.go,           *)
(* corrections.go, waiver.go): what an order issued, requests that reserve *)
(* and settle credits first-expiring first, expiry, reversal of wrong      *)
(* usage, cancellation of refunded rights, and the attribution of every    *)
(* unit to a source kind and to a share of the money paid.                 *)
(*                                                                         *)
(* Every method runs in one transaction under lockCustomer, hence one      *)
(* action.  The account of a grant is in the ledger: balance and held      *)
(* change as Post, Reserve, Release and Capture of module Ledger do, and   *)
(* the control account mirrors them.  A failed CHECK aborts a method.      *)
(***************************************************************************)
EXTENDS Integers, FiniteSets, Functions

CONSTANTS
  Grant,          \* 1..n: the order of the ids, which breaks ties
  Kind,           \* 1..m: source kinds in alphabetical order
  Paid,           \* the kind that was paid for, the others are gifts
  Quantity,       \* Quantity[g][k]
  PaidMoney,      \* PaidMoney[g], in atoms
  Effective, Expires,      \* Expires[g] > ClockBound stands for no expiry
  Request,        \* model requests, each with its hold and settlement key
  Case,           \* refund, chargeback and waiver holds on a single grant
  Correction,     \* business keys of usage corrections
  MaxUse,         \* bound on an estimate and on metered usage
  ClockBound      \* bound on the clock

Class == {"consumed", "expired", "cancelled"}
NoUnits == [k \in Kind |-> 0]
NoAmounts == [g \in Grant |-> 0]
Sum(f) == SumFunctionOnSet(f, DOMAIN f)
Total(g) == Sum(Quantity[g])

ASSUME CreditsAssumption ==
  /\ Grant \subseteq Nat /\ IsFiniteSet(Grant)
  /\ Kind \subseteq Nat /\ IsFiniteSet(Kind) /\ Paid \in Kind
  /\ IsFiniteSet(Request) /\ IsFiniteSet(Case)
  /\ Effective \in [Grant -> Int] /\ Expires \in [Grant -> Int]
  /\ ClockBound \in Nat /\ MaxUse \in Nat
  /\ Quantity \in [Grant -> [Kind -> Nat]] /\ PaidMoney \in [Grant -> Nat]
  /\ \A g \in Grant : /\ Total(g) > 0 /\ Effective[g] < Expires[g]
                      /\ PaidMoney[g] > 0 => Quantity[g][Paid] > 0

VARIABLES
  clock,
  issued,      \* grants that exist
  owned, onHold,           \* balance and held of the grants' accounts
  source,      \* source[g][class][kind]: the columns of ledger_grant_sources
  row,         \* row[g][class]: consumed, expired, cancelled of ledger_grants
  money,       \* money[g][class]: the share of PaidMoney they carry
  hold,        \* hold[r]: status and allocation of a request
  event,       \* event[r][g]: the usage event of a settlement
  reversed,    \* reversed[r][g]: the sum of its reversals
  result,      \* result[r]: the stored CreditResult
  case,        \* case[c]: a hold on one grant for a refund or a waiver
  expiries,    \* business keys of expiry journals, with their amounts
  corrected    \* corrections made

creditsVars == <<clock, issued, owned, onHold, source, row, money, hold, event,
                 reversed, result, case, expiries, corrected>>

NoEvent == [units |-> NoUnits, paid |-> 0]
NoResult == [requested |-> 0, debited |-> 0, shortfall |-> 0, paid |-> 0]
NoCase == [status |-> "none", grant |-> 0, amount |-> 0]

Event == [units : [Kind -> Nat], paid : Int]
CreditsTypeOK ==
  /\ clock \in 0..ClockBound /\ issued \subseteq Grant
  /\ owned \in [Grant -> Nat] /\ onHold \in [Grant -> Nat]
  /\ source \in [Grant -> [Class -> [Kind -> Nat]]]
  /\ row \in [Grant -> [Class -> Nat]] /\ money \in [Grant -> [Class -> Int]]
  /\ hold \in [Request -> [status : {"none", "active", "released", "captured"},
                           amounts : [Grant -> Nat]]]
  /\ event \in [Request -> [Grant -> Event]]
  /\ reversed \in [Request -> [Grant -> Event]]
  /\ DOMAIN result = Request /\ DOMAIN case = Case
  /\ corrected \subseteq Correction
  \* the CHECKs of accounts, grants and sources
  /\ \A g \in Grant :
       /\ onHold[g] <= owned[g]
       /\ \A c \in Class : money[g][c] >= 0
       /\ Sum(money[g]) <= PaidMoney[g] /\ Sum(row[g]) <= Total(g)
       /\ \A k \in Kind : source[g]["consumed"][k] + source[g]["expired"][k]
                          + source[g]["cancelled"][k] <= Quantity[g][k]

CreditsInit ==
  /\ clock = 0 /\ issued = {} /\ owned = NoAmounts /\ onHold = NoAmounts
  /\ source = [g \in Grant |-> [c \in Class |-> NoUnits]]
  /\ row = [g \in Grant |-> [c \in Class |-> 0]]
  /\ money = [g \in Grant |-> [c \in Class |-> 0]]
  /\ hold = [r \in Request |-> [status |-> "none", amounts |-> NoAmounts]]
  /\ event = [r \in Request |-> [g \in Grant |-> NoEvent]]
  /\ reversed = [r \in Request |-> [g \in Grant |-> NoEvent]]
  /\ result = [r \in Request |-> NoResult]
  /\ case = [c \in Case |-> NoCase]
  /\ expiries = {} /\ corrected = {}

TimePasses ==
  /\ clock < ClockBound /\ clock' = clock + 1
  /\ UNCHANGED <<issued, owned, onHold, source, row, money, hold, event, reversed,
                 result, case, expiries, corrected>>

IssueGrant(g) ==
  /\ g \notin issued
  /\ issued' = issued \cup {g}
  /\ owned' = [owned EXCEPT ![g] = Total(g)]
  /\ UNCHANGED <<clock, onHold, source, row, money, hold, event, reversed, result,
                 case, expiries, corrected>>

-----------------------------------------------------------------------------
(* Choosing grants.                                                        *)
\* Mutant: newest first.
ByIssue(g, h) == g > h
Fefo(g, h) == \/ Expires[g] < Expires[h]
              \/ Expires[g] = Expires[h] /\ Effective[g] < Effective[h]
              \/ Expires[g] = Expires[h] /\ Effective[g] = Effective[h] /\ g < h
Before(g, h) == Fefo(g, h)

(* Fill n from the amounts on offer, in that order.                        *)
FefoTake(offer, n) ==
  [g \in Grant |->
     LET earlier == SumFunctionOnSet(offer, {h \in Grant : Before(h, g)})
         missing == n - earlier
     IN  IF missing <= 0 THEN 0 ELSE IF missing < offer[g] THEN missing ELSE offer[g]]

\* Mutant: a grant lasts one instant too long.
UsableLate(g) == g \in issued /\ Effective[g] <= clock /\ Expires[g] >= clock
Usable(g) == g \in issued /\ Effective[g] <= clock /\ Expires[g] > clock
\* Mutant: what others hold is offered as well.
AllOf(g) == owned[g]
FreeOf(g) == owned[g] - onHold[g]
Spendable == [g \in Grant |-> IF Usable(g) THEN FreeOf(g) ELSE 0]

ReserveCredits(r, n) ==
  /\ hold[r].status = "none" /\ n > 0
  /\ LET take == FefoTake(Spendable, n)
     IN  /\ Sum(take) = n
         /\ onHold' = [g \in Grant |-> onHold[g] + take[g]]
         /\ hold' = [hold EXCEPT ![r] = [status |-> "active", amounts |-> take]]
  /\ UNCHANGED <<clock, issued, owned, source, row, money, event, reversed, result,
                 case, expiries, corrected>>

-----------------------------------------------------------------------------
(* Attribution.                                                            *)
(* Proportional: n split by weight, the last atoms by largest remainder.   *)
Proportional(n, weight) ==
  LET all == Sum(weight)
      floor == [k \in Kind |-> IF all = 0 THEN 0 ELSE (n * weight[k]) \div all]
      rem == [k \in Kind |-> IF all = 0 THEN 0 ELSE (n * weight[k]) % all]
      ahead(k) == {j \in Kind : rem[j] > rem[k] \/ (rem[j] = rem[k] /\ j < k)}
  IN  [k \in Kind |-> floor[k] + IF Cardinality(ahead(k)) < n - Sum(floor) THEN 1 ELSE 0]

Left(g) == [k \in Kind |-> Quantity[g][k] - source[g]["consumed"][k]
                           - source[g]["expired"][k] - source[g]["cancelled"][k]]

\* Mutant: a share of this debit alone, not the cumulative target.
ShareOfDebit(g, n) == (PaidMoney[g] * n) \div Total(g)
CumulativeShare(g, n) ==
  (PaidMoney[g] * (Sum(row[g]) + n)) \div Total(g) - Sum(money[g])
PaidShare(g, n) == CumulativeShare(g, n)

EventFor(g, n) == IF n = 0 THEN NoEvent
                  ELSE [units |-> Proportional(n, Left(g)), paid |-> PaidShare(g, n)]

(* attributeGrant for the amounts n[g] > 0 of one class.                   *)
Attribute(class, n) ==
  /\ source' = [g \in Grant |->
       [source[g] EXCEPT ![class] =
          [k \in Kind |-> @[k] + EventFor(g, n[g]).units[k]]]]
  /\ row' = [g \in Grant |-> [row[g] EXCEPT ![class] = @ + n[g]]]
  /\ money' = [g \in Grant |-> [money[g] EXCEPT ![class] = @ + EventFor(g, n[g]).paid]]
  /\ \A g \in Grant : money'[g][class] >= 0    \* CHECK

\* Mutant: only the free part of this hold's own grants is looked at.
HeldOnly(r, actual) == FefoTake(hold[r].amounts, actual)
(* The held amounts first, then free credits, both first-expiring first.   *)
HeldThenFree(r, actual) ==
  LET own == FefoTake(hold[r].amounts, actual)
      more == FefoTake(Spendable, actual - Sum(own))
  IN  [g \in Grant |-> own[g] + more[g]]
Debits(r, actual) == HeldThenFree(r, actual)

SettleCredits(r, actual) ==
  /\ hold[r].status = "active"
  /\ LET take == Debits(r, actual)
         debited == Sum(take)
     IN  /\ owned' = [g \in Grant |-> owned[g] - take[g]]
         /\ onHold' = [g \in Grant |-> onHold[g] - hold[r].amounts[g]]
         /\ hold' = [hold EXCEPT ![r].status =
                       IF debited = 0 THEN "released" ELSE "captured"]
         /\ Attribute("consumed", take)
         /\ event' = [event EXCEPT ![r] = [g \in Grant |-> EventFor(g, take[g])]]
         /\ result' = [result EXCEPT ![r] =
              [requested |-> actual, debited |-> debited, shortfall |-> actual - debited,
               paid |-> Sum([g \in Grant |-> EventFor(g, take[g]).paid])]]
  /\ UNCHANGED <<clock, issued, reversed, case, expiries, corrected>>

(* Release by the usage service when a request ends without a charge.      *)
ReleaseCredits(r) ==
  /\ hold[r].status = "active"
  /\ onHold' = [g \in Grant |-> onHold[g] - hold[r].amounts[g]]
  /\ hold' = [hold EXCEPT ![r].status = "released"]
  /\ UNCHANGED <<clock, issued, owned, source, row, money, event, reversed, result,
                 case, expiries, corrected>>

-----------------------------------------------------------------------------
(* ExpireCredits debits what is free of every expired grant under a key    *)
(* made of the grant and of what expired of it before.                     *)
\* Mutant: the key of an expiry names the grant alone.
KeyByGrant(g) == <<g, 0>>
ExpiryKey(g) == <<g, row[g]["expired"]>>
Expired(g) == g \in issued /\ Expires[g] <= clock

(* What the postings do to an account: nothing when the journal exists.    *)
ExpiryDebit(g, n) == IF <<ExpiryKey(g), n>> \in expiries THEN 0 ELSE n
KeyConflict(g, n) == \E e \in expiries : e[1] = ExpiryKey(g) /\ e[2] # n

Expirable(units) == [g \in Grant |-> IF Expired(g) THEN units[g] - onHold[g] ELSE 0]

ExpireCredits ==
  LET n == Expirable(owned)
      hit == {g \in Grant : n[g] > 0}
  IN  /\ hit # {}
      /\ \A g \in hit : ~KeyConflict(g, n[g])
      /\ owned' = [g \in Grant |-> owned[g] - ExpiryDebit(g, n[g])]
      /\ Attribute("expired", n)
      /\ expiries' = expiries \cup {<<ExpiryKey(g), n[g]>> : g \in hit}
      /\ UNCHANGED <<clock, issued, onHold, hold, event, reversed, result, case, corrected>>

-----------------------------------------------------------------------------
(* ReverseUsage restores part of a usage event and, in the same            *)
(* transaction, expires again what may no longer be used.                  *)
Amount(e) == Sum(e.units)
StillCharged(r, g) == [k \in Kind |-> event[r][g].units[k] - reversed[r][g].units[k]]

Reversible(r, g, n) == n <= Amount(event[r][g]) - Amount(reversed[r][g])

PaidBack(r, g, n) ==
  (event[r][g].paid * (Amount(reversed[r][g]) + n)) \div Amount(event[r][g])
  - reversed[r][g].paid

\* Mutant: the expiry run at the end is forgotten.
LeaveRestored(g, n) == FALSE
ReclassifyAll(g, n) == \E h \in Grant : Expirable([owned EXCEPT ![g] = @ + n])[h] > 0
MustReclassify(g, n) == ReclassifyAll(g, n)

(* The columns of g once n units of the event are given back.              *)
Restored(r, g, n) ==
  LET parts == Proportional(n, StillCharged(r, g)) IN
  [units |-> [k \in Kind |-> source[g]["consumed"][k] - parts[k]],
   consumed |-> row[g]["consumed"] - n,
   paid |-> money[g]["consumed"] - PaidBack(r, g, n),
   parts |-> parts]

(* The expiry of h inside the transaction, after the restoration of g.     *)
ReExpired(r, g, n) ==
  IF ~MustReclassify(g, n) THEN NoAmounts
  ELSE Expirable([owned EXCEPT ![g] = @ + n])
ReExpiredShare(r, g, n, h) ==
  LET x == ReExpired(r, g, n)[h]
      back == Restored(r, g, n)
      attributed == Sum(row[h]) - (IF h = g THEN n ELSE 0)
      carried == Sum(money[h]) - (IF h = g THEN PaidBack(r, g, n) ELSE 0)
  IN  IF x = 0 THEN 0 ELSE (PaidMoney[h] * (attributed + x)) \div Total(h) - carried
ReExpiredUnits(r, g, n, h) ==
  LET x == ReExpired(r, g, n)[h]
      parts == Restored(r, g, n).parts
      left == IF h = g THEN [k \in Kind |-> Left(g)[k] + parts[k]] ELSE Left(h)
  IN  IF x = 0 THEN NoUnits ELSE Proportional(x, left)

ReverseUsage(c, r, g, n) ==
  /\ c \notin corrected /\ n > 0
  /\ event[r][g] # NoEvent
  /\ Reversible(r, g, n)
  /\ LET back == Restored(r, g, n)
         again == ReExpired(r, g, n)
         hit == {h \in Grant : again[h] > 0}
     IN  /\ \A k \in Kind : back.units[k] >= 0
         /\ back.consumed >= 0 /\ back.paid >= 0
         /\ PaidBack(r, g, n) >= 0                    \* CHECK of the reversal
         /\ \A h \in hit : ~KeyConflict(h, again[h])
         /\ owned' = [h \in Grant |-> owned[h] + (IF h = g THEN n ELSE 0)
                                        - ExpiryDebit(h, again[h])]
         /\ source' = [h \in Grant |->
              [source[h] EXCEPT
                 !["consumed"] = IF h = g THEN back.units ELSE @,
                 !["expired"] = [k \in Kind |-> @[k] + ReExpiredUnits(r, g, n, h)[k]]]]
         /\ row' = [h \in Grant |->
              [row[h] EXCEPT !["consumed"] = IF h = g THEN back.consumed ELSE @,
                             !["expired"] = @ + again[h]]]
         /\ money' = [h \in Grant |->
              [money[h] EXCEPT !["consumed"] = IF h = g THEN back.paid ELSE @,
                               !["expired"] = @ + ReExpiredShare(r, g, n, h)]]
         /\ \A h \in Grant : money'[h]["expired"] >= 0
         /\ reversed' = [reversed EXCEPT ![r][g] =
              [units |-> [k \in Kind |-> @.units[k] + back.parts[k]],
               paid |-> @.paid + PaidBack(r, g, n)]]
         /\ expiries' = expiries \cup {<<ExpiryKey(h), again[h]>> : h \in hit}
  /\ corrected' = corrected \cup {c}
  /\ UNCHANGED <<clock, issued, onHold, hold, event, result, case>>

-----------------------------------------------------------------------------
(* Holds on one grant, made by the refund and chargeback workflows.        *)
HoldRights(c, g, n) ==
  /\ case[c].status = "none" /\ g \in issued
  /\ n > 0 /\ n <= FreeOf(g)
  /\ onHold' = [onHold EXCEPT ![g] = @ + n]
  /\ case' = [case EXCEPT ![c] = [status |-> "active", grant |-> g, amount |-> n]]
  /\ UNCHANGED <<clock, issued, owned, source, row, money, hold, event, reversed,
                 result, expiries, corrected>>

ReleaseRights(c) ==
  /\ case[c].status = "active"
  /\ onHold' = [onHold EXCEPT ![case[c].grant] = @ - case[c].amount]
  /\ case' = [case EXCEPT ![c].status = "released"]
  /\ UNCHANGED <<clock, issued, owned, source, row, money, hold, event, reversed,
                 result, expiries, corrected>>

CancelReservedGrant(c) ==
  /\ case[c].status = "active"
  /\ LET g == case[c].grant
         n == [NoAmounts EXCEPT ![g] = case[c].amount]
     IN  /\ owned' = [owned EXCEPT ![g] = @ - case[c].amount]
         /\ onHold' = [onHold EXCEPT ![g] = @ - case[c].amount]
         /\ Attribute("cancelled", n)
  /\ case' = [case EXCEPT ![c].status = "captured"]
  /\ UNCHANGED <<clock, issued, hold, event, reversed, result, expiries, corrected>>

(* WaiveCustomerCredits reserves and cancels what is left of every grant,  *)
(* and refuses while anything is held.                                     *)
WaiveCustomerCredits ==
  /\ \A g \in issued : onHold[g] = 0
  /\ owned' = NoAmounts
  /\ Attribute("cancelled", owned)
  /\ UNCHANGED <<clock, issued, onHold, hold, event, reversed, result, case, expiries,
                 corrected>>

(* At closure gifts may be waived once no paid unit is left.               *)
CancelClosureGifts ==
  /\ \A g \in issued : Left(g)[Paid] = 0
  /\ WaiveCustomerCredits

-----------------------------------------------------------------------------
CreditsNext ==
  \/ TimePasses
  \/ \E g \in Grant : IssueGrant(g)
  \/ \E r \in Request, n \in 0..MaxUse : ReserveCredits(r, n) \/ SettleCredits(r, n)
  \/ \E r \in Request : ReleaseCredits(r)
  \/ ExpireCredits
  \/ \E c \in Correction, r \in Request, g \in Grant, n \in 1..MaxUse :
       ReverseUsage(c, r, g, n)
  \/ \E c \in Case, g \in Grant, n \in 1..MaxUse : HoldRights(c, g, n)
  \/ \E c \in Case : ReleaseRights(c) \/ CancelReservedGrant(c)
  \/ WaiveCustomerCredits \/ CancelClosureGifts

CreditsSpec == CreditsInit /\ [][CreditsNext]_creditsVars

-----------------------------------------------------------------------------
(* What a request, and a case, hold of a grant.                            *)
Reserved(r, g) == IF hold[r].status = "active" THEN hold[r].amounts[g] ELSE 0
Kept(c, g) == IF case[c].status = "active" /\ case[c].grant = g THEN case[c].amount ELSE 0

(* Every unit a grant issued is in exactly one place: still owned, used,   *)
(* expired or cancelled.  The account in the ledger, the columns of the    *)
(* grant and those of its sources agree, and held is what requests and     *)
(* cases reserve.                                                          *)
UnitsConserved ==
  \A g \in issued :
    /\ owned[g] + Sum(row[g]) = Total(g)
    /\ \A c \in Class : Sum(source[g][c]) = row[g][c]
    /\ onHold[g] = Sum([r \in Request |-> Reserved(r, g)]) + Sum([c \in Case |-> Kept(c, g)])

(* The money of a grant is neither lost nor attributed twice: when no unit *)
(* is left, the shares of all events add up to what was paid.              *)
MoneyFullyAttributed ==
  \A g \in issued : owned[g] = 0 => Sum(money[g]) = PaidMoney[g]

(* A correction never revives an expired right: what it restores on an     *)
(* expired grant is expired again before anyone can spend it.              *)
CorrectionRevivesNothing ==
  [][corrected' # corrected =>
       \A g \in issued : Expires[g] <= clock => owned'[g] = onHold'[g]]_creditsVars

(* A shortfall is borne by the merchant only when the customer really had  *)
(* nothing more to spend.                                                  *)
ShortfallIsReal ==
  [][\A r \in Request :
       result[r] # result'[r] /\ result'[r].shortfall > 0 =>
         \A g \in issued : Effective[g] <= clock /\ Expires[g] > clock =>
           owned'[g] = onHold'[g]]_creditsVars

(* Rights are used first-expiring first: a request reserves from a grant   *)
(* only when all usable grants that expire earlier are used up, and an     *)
(* expired grant serves a settlement only within the request's own hold.   *)
UsedInOrder ==
  [][\A r \in Request, g \in issued :
       /\ \A h \in issued :
            /\ hold[r].status = "none" /\ hold'[r].status = "active"
            /\ hold'[r].amounts[g] > 0 /\ Expires[h] < Expires[g]
            /\ Effective[h] <= clock /\ Expires[h] > clock
            => owned'[h] = onHold'[h]
       /\ event[r][g] # event'[r][g] /\ Expires[g] <= clock =>
            Amount(event'[r][g]) <= hold[r].amounts[g]]_creditsVars
=============================================================================
