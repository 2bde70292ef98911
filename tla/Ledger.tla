------------------------------- MODULE Ledger -------------------------------
(***************************************************************************)
(* The double-entry ledger of internal/ledger: accounts, journals and      *)
(* holds.  Every method is one PostgreSQL transaction that locks the       *)
(* account rows it reads, hence one action; a call that is refused rolls   *)
(* back and changes nothing.                                               *)
(*                                                                         *)
(* A posting is what normalizePosting makes of the caller's lines: the     *)
(* net amount of every account.  A journal row is the posting it was made  *)
(* from, so comparing fingerprints is comparing postings; the same goes    *)
(* for a reservation and its hold row.                                     *)
(***************************************************************************)
EXTENDS Integers, FiniteSets, Functions

CONSTANTS
  Operator, Unit,
  Key,           \* business keys of postings and of reservations
  ReleaseKey,    \* resolution keys of releases
  Account,       \* the (operator, owner, purpose, unit) tuples
  Control,       \* the accounts with allow_negative, purpose "control:..."
  Overdraw,      \* the accounts with purpose "customer:atg..."
  OperatorOf, UnitOf,
  Posting,       \* normalised postings callers make
  Reservation,   \* reservations callers make
  NoResolution,  \* the null resolution_key
  Horizon        \* bound on the clock

PostingType == [operator : Operator, key : Key, lines : [Account -> Int],
                original : SUBSET (Operator \X Key)]   \* {} is no original
ReservationType == [operator : Operator, key : Key, expires : Nat,
                    amounts : [Account -> Nat]]

ASSUME LedgerAssumption ==
  /\ Control \subseteq Account /\ Overdraw \subseteq Account \ Control
  /\ OperatorOf \in [Account -> Operator] /\ UnitOf \in [Account -> Unit]
  /\ Posting \subseteq PostingType /\ Reservation \subseteq ReservationType
  /\ NoResolution \notin Posting \cup ReleaseKey
  /\ Posting \cap ReleaseKey = {}
  /\ Horizon \in Nat
(* A deployment has finitely many accounts: its books are sums over them.  *)
ASSUME AccountsAssumption == IsFiniteSet(Account)

VARIABLES
  open,        \* accounts that have a row
  balance, held,
  posted,      \* journal rows
  status,      \* status[r] of the hold row, "none" when there is no row
  resolution,  \* what ended the hold: a release key or the captured posting
  now,
  acked,       \* history: postings Post reported as made
  told         \* history: told[r], the resolutions reported as successful

vars == <<open, balance, held, posted, status, resolution, now, acked, told>>

TypeOK ==
  /\ open \subseteq Account
  /\ balance \in [Account -> Int] /\ held \in [Account -> Nat]
  /\ posted \subseteq Posting
  /\ status \in [Reservation -> {"none", "active", "released", "captured"}]
  /\ resolution \in [Reservation -> ReleaseKey \cup Posting \cup {NoResolution}]
  /\ now \in 0..Horizon
  /\ acked \subseteq Posting /\ told \in [Reservation -> SUBSET (ReleaseKey \cup Posting)]
  \* a row with no owner, no money and no hold is what is not there
  /\ \A a \in Account \ open : balance[a] = 0 /\ held[a] = 0

Init ==
  /\ open = {} /\ balance = [a \in Account |-> 0] /\ held = [a \in Account |-> 0]
  /\ posted = {} /\ status = [r \in Reservation |-> "none"]
  /\ resolution = [r \in Reservation |-> NoResolution]
  /\ now = 0 /\ acked = {} /\ told = [r \in Reservation |-> {}]

EnsureAccount(a) ==
  /\ a \notin open
  /\ open' = open \cup {a}
  /\ UNCHANGED <<balance, held, posted, status, resolution, now, acked, told>>

Tick == /\ now < Horizon /\ now' = now + 1
        /\ UNCHANGED <<open, balance, held, posted, status, resolution, acked, told>>

-----------------------------------------------------------------------------
(* Postings.                                                               *)
Touched(p) == {a \in Account : p.lines[a] # 0}

KeyTaken(p) == \E q \in posted : q.operator = p.operator /\ q.key = p.key

BalancedPerUnit(p) ==
  \A u \in Unit :
    SumFunctionOnSet(p.lines, {a \in Account : UnitOf[a] = u}) = 0

InScope(p) ==
  /\ \A a \in Touched(p) : a \in open /\ OperatorOf[a] = p.operator
  /\ \A o \in p.original :
       o[1] = p.operator /\ \E q \in posted : <<q.operator, q.key>> = o

\* Mutant: the amounts held for others may be spent.
FundedByBalance(p, reserved) ==
  \A a \in Touched(p) \ Control : balance[a] + p.lines[a] >= 0
(* after >= Held for every account that may not go negative.               *)
Funded(p, reserved) ==
  \A a \in Touched(p) \ Control : balance[a] + p.lines[a] >= reserved[a]

(* What normalizePosting, post and the balance trigger let through, given  *)
(* the held amounts at that point of the transaction.                      *)
Admissible(p, reserved) ==
  /\ Cardinality(Touched(p)) >= 2
  /\ InScope(p) /\ BalancedPerUnit(p) /\ Funded(p, reserved)

(* post: insert the journal and move the balances, or find it made.        *)
WithPosting(p) == IF p \in posted THEN balance
                  ELSE [a \in Account |-> balance[a] + p.lines[a]]

Post(p) ==
  /\ ~KeyTaken(p) /\ Admissible(p, held)
  /\ balance' = WithPosting(p)
  /\ posted' = posted \cup {p}
  /\ acked' = acked \cup {p}
  /\ UNCHANGED <<open, held, status, resolution, now, told>>

\* Mutant: the fingerprint of the earlier journal is not compared.
SameByKey(p) == KeyTaken(p)
SamePosting(p) == p \in posted
PostAgain(p) ==
  /\ SamePosting(p)
  /\ acked' = acked \cup {p}
  /\ UNCHANGED <<open, balance, held, posted, status, resolution, now, told>>

-----------------------------------------------------------------------------
(* Holds.                                                                  *)
HoldKeyTaken(r) == \E q \in Reservation : /\ status[q] # "none"
                                          /\ q.operator = r.operator /\ q.key = r.key
Allocated(r) == {a \in Account : r.amounts[a] > 0}

Reserve(r) ==
  /\ Allocated(r) # {}
  /\ ~HoldKeyTaken(r)
  /\ r.expires > now
  /\ \A a \in Allocated(r) :
       /\ a \in open \ Control /\ OperatorOf[a] = r.operator
       /\ balance[a] - held[a] >= r.amounts[a]
  /\ held' = [a \in Account |-> held[a] + r.amounts[a]]
  /\ status' = [status EXCEPT ![r] = "active"]
  /\ UNCHANGED <<open, balance, posted, resolution, now, acked, told>>

\* Mutant: a released hold can be resolved again.
NotCaptured(r) == status[r] \in {"active", "released"}
Active(r) == status[r] = "active"

(* releaseAllocations, with its refusal to take held below zero.           *)
CanRelease(r) == \A a \in Allocated(r) : held[a] >= r.amounts[a]
WithoutHold(r) == [a \in Account |-> held[a] - r.amounts[a]]

Resolve(r, how, by) ==
  /\ status' = [status EXCEPT ![r] = how]
  /\ resolution' = [resolution EXCEPT ![r] = by]
  /\ told' = [told EXCEPT ![r] = @ \cup {by}]

Release(r, k) ==
  /\ Active(r) /\ CanRelease(r)
  /\ held' = WithoutHold(r)
  /\ Resolve(r, "released", k)
  /\ UNCHANGED <<open, balance, posted, now, acked>>

ReleaseAgain(r, k) ==
  /\ status[r] = "released" /\ resolution[r] = k
  /\ told' = [told EXCEPT ![r] = @ \cup {k}]
  /\ UNCHANGED <<open, balance, held, posted, status, resolution, now, acked>>

(* Debits stay within the hold, except for the customer credit accounts    *)
(* the caller lists in allowExtra.                                         *)
WithinHold(r, p, extra) ==
  \A a \in Touched(p) \ Control :
    p.lines[a] < 0 => IF a \in extra THEN a \in Overdraw
                      ELSE -p.lines[a] <= r.amounts[a]
DebitsCovered(r, p, extra) == WithinHold(r, p, extra)

\* Mutant: a journal posted outside the hold is adopted.
Adoptable(p) == KeyTaken(p) => p \in posted
Unposted(p) == ~KeyTaken(p)

Capture(r, p, extra) ==
  /\ r.operator = p.operator
  /\ \A a \in Allocated(r) : OperatorOf[a] = p.operator
  /\ Active(r) /\ DebitsCovered(r, p, extra) /\ Unposted(p)
  /\ CanRelease(r)
  /\ Admissible(p, WithoutHold(r))
  /\ held' = WithoutHold(r)
  /\ balance' = WithPosting(p)
  /\ posted' = posted \cup {p}
  /\ Resolve(r, "captured", p)
  /\ UNCHANGED <<open, now, acked>>

CaptureAgain(r, p) ==
  /\ status[r] = "captured" /\ resolution[r] = p
  /\ told' = [told EXCEPT ![r] = @ \cup {p}]
  /\ UNCHANGED <<open, balance, held, posted, status, resolution, now, acked>>

-----------------------------------------------------------------------------
Next ==
  \/ Tick
  \/ \E a \in Account : EnsureAccount(a)
  \/ \E p \in Posting : Post(p) \/ PostAgain(p)
  \/ \E r \in Reservation : Reserve(r)
  \/ \E r \in Reservation, k \in ReleaseKey : Release(r, k) \/ ReleaseAgain(r, k)
  \/ \E r \in Reservation, p \in Posting :
       (\E extra \in SUBSET Account : Capture(r, p, extra)) \/ CaptureAgain(r, p)

Spec == Init /\ [][Next]_vars

-----------------------------------------------------------------------------
LinesOn(a) == [p \in Posting |-> p.lines[a]]
HoldsOn(a) == [r \in Reservation |-> r.amounts[a]]
ActiveHolds == {r \in Reservation : status[r] = "active"}
OfOperator(o, u) == {a \in Account : OperatorOf[a] = o /\ UnitOf[a] = u}

(* Reconcile never reports a difference: a balance is the sum of the       *)
(* entries of its account, held the sum of the active holds on it, and the *)
(* accounts of an operator sum to zero in every unit, so no money or       *)
(* credit appears without a control account that owes it.                  *)
Reconciles ==
  /\ \A a \in Account : /\ balance[a] = SumFunctionOnSet(LinesOn(a), posted)
                         /\ held[a] = SumFunctionOnSet(HoldsOn(a), ActiveHolds)
  /\ \A o \in Operator, u \in Unit : SumFunctionOnSet(balance, OfOperator(o, u)) = 0

(* Whatever is spent, and whatever a capture takes beyond its own hold,    *)
(* the money of every active hold is still there (TestCustomerOverage-     *)
(* CannotStealOtherHold).                                                  *)
HoldsCovered == /\ \A a \in Account \ Control : held[a] <= balance[a]
                /\ \A a \in Control : held[a] = 0

(* A captured hold took no more than it reserved from any account that is  *)
(* not a customer's credits: the comment of Capture.                       *)
OnlyCreditsExceedHold ==
  \A r \in Reservation : status[r] = "captured" =>
    \A a \in Account \ (Control \cup Overdraw) :
      -resolution[r].lines[a] <= r.amounts[a]

(* A hold is consumed by a journal made for it: no hold is closed against  *)
(* a journal that had already moved the money for someone else.            *)
ConsumptionIsPaid ==
  [][\A r \in Reservation :
       status[r] # "captured" /\ status'[r] = "captured" =>
         resolution'[r] \in posted' \ posted]_vars

(* A retry is told of success only when the very request it repeats took   *)
(* effect, and two different resolutions of a hold never both succeed.     *)
RepliesAreTrue == /\ acked \subseteq posted
                  /\ \A r \in Reservation : told[r] \subseteq {resolution[r]}

(* The ledger implements Vault: balance - held is free, active holds are   *)
(* locked.                                                                 *)
V == INSTANCE Vault WITH
       free <- [a \in Account |-> balance[a] - held[a]],
       locked <- [r \in Reservation |-> IF status[r] = "active" THEN r.amounts
                                        ELSE [a \in Account |-> 0]],
       used <- {r \in Reservation : status[r] # "none"},
       done <- posted
RefinesVault == V!VaultSpec
=============================================================================
