---------------------------- MODULE LedgerProofs ----------------------------
(***************************************************************************)
(* The safety of the ledger for every finite set of accounts and every set *)
(* of postings and reservations.  Holds, captures and the refinement of    *)
(* Vault need the guards on single accounts only; that the books reconcile *)
(* is an invariant about sums.                                             *)
(*                                                                         *)
(* The second part is about Credits, for every finite set of grants,       *)
(* source kinds, requests and cases: how the largest remainder splits, how *)
(* grants are drawn on, and the invariant its properties follow from.      *)
(***************************************************************************)
EXTENDS Ledger, Credits, SumTheorems

(* A hold that is not resolved has reported nothing; a resolved one knows  *)
(* what resolved it, and the journal of a captured one was posted.         *)
ResolutionKnown ==
  \A r \in Reservation :
    /\ status[r] \in {"none", "active"} => told[r] = {}
    /\ status[r] = "released" => resolution[r] \in ReleaseKey
    /\ status[r] = "captured" => resolution[r] \in posted

IInv == /\ TypeOK /\ HoldsCovered /\ OnlyCreditsExceedHold
        /\ ResolutionKnown /\ RepliesAreTrue

USE DEF PostingType, ReservationType

LEMMA PostingFields ==
  ASSUME NEW p \in Posting
  PROVE  /\ p.lines \in [Account -> Int] /\ p.key \in Key
         /\ p.operator \in Operator
  BY LedgerAssumption

LEMMA ReservationFields ==
  ASSUME NEW r \in Reservation
  PROVE  r.amounts \in [Account -> Nat] /\ r.expires \in Nat
  BY LedgerAssumption

(* The step of a posting leaves every non-control account with at least    *)
(* what is held on it.                                                     *)
LEMMA FundedKeepsHolds ==
  ASSUME NEW p \in Posting, NEW reserved \in [Account -> Int],
         balance \in [Account -> Int],
         Funded(p, reserved),
         NEW a \in Account \ Control, reserved[a] <= balance[a]
  PROVE  reserved[a] <= balance[a] + p.lines[a]
  <1>1. CASE p.lines[a] = 0
    BY <1>1
  <1>2. CASE p.lines[a] # 0
    BY <1>2, PostingFields DEF Funded, Touched
  <1>3. QED BY <1>1, <1>2

LEMMA InitInv == Init => IInv
  BY LedgerAssumption DEF Init, IInv, TypeOK, HoldsCovered, OnlyCreditsExceedHold,
     ResolutionKnown, RepliesAreTrue

LEMMA PostInv == ASSUME IInv, NEW p \in Posting, Post(p) PROVE IInv'
  <1> USE DEF IInv
  <1>1. ~(p \in posted) /\ balance' = [a \in Account |-> balance[a] + p.lines[a]]
    BY DEF Post, KeyTaken, WithPosting
  <1>2. TypeOK'
    <2>1. balance' \in [Account -> Int]
      BY <1>1, PostingFields DEF TypeOK
    <2>2. \A a \in Account \ open : p.lines[a] = 0
      BY DEF Post, Admissible, InScope, Touched
    <2>3. QED BY <1>1, <2>1, <2>2, PostingFields DEF Post, TypeOK
  <1>3. HoldsCovered'
    BY <1>1, FundedKeepsHolds, LedgerAssumption
    DEF Post, Admissible, HoldsCovered, TypeOK
  <1>4. OnlyCreditsExceedHold' /\ ResolutionKnown' /\ RepliesAreTrue'
    BY DEF Post, OnlyCreditsExceedHold, ResolutionKnown, RepliesAreTrue, TypeOK
  <1>5. QED BY <1>2, <1>3, <1>4

LEMMA ReserveInv == ASSUME IInv, NEW r \in Reservation, Reserve(r) PROVE IInv'
  <1> USE DEF IInv
  <1>1. held' = [a \in Account |-> held[a] + r.amounts[a]]
    BY DEF Reserve
  <1>2. \A a \in Account : r.amounts[a] = 0 \/ (a \in open \ Control /\ balance[a] - held[a] >= r.amounts[a])
    BY ReservationFields DEF Reserve, Allocated
  <1>3. TypeOK'
    BY <1>1, <1>2, ReservationFields DEF Reserve, TypeOK
  <1>4. HoldsCovered'
    <2>1. \A a \in Account : held'[a] = held[a] + r.amounts[a] /\ balance'[a] = balance[a]
      BY <1>1 DEF Reserve
    <2>2. \A a \in Account : balance[a] \in Int /\ held[a] \in Nat /\ r.amounts[a] \in Nat
      BY ReservationFields DEF TypeOK
    <2>3. \A a \in Account \ Control : held'[a] <= balance'[a]
      BY <1>2, <2>1, <2>2 DEF HoldsCovered
    <2>4. \A a \in Control : held'[a] = 0
      BY <1>2, <2>1, <2>2, LedgerAssumption DEF HoldsCovered
    <2>5. QED BY <2>3, <2>4 DEF HoldsCovered
  <1>5. status[r] = "none"
    BY DEF Reserve, HoldKeyTaken, TypeOK
  <1>6. OnlyCreditsExceedHold' /\ ResolutionKnown' /\ RepliesAreTrue'
    BY <1>5 DEF Reserve, OnlyCreditsExceedHold, ResolutionKnown, RepliesAreTrue, TypeOK
  <1>7. QED BY <1>3, <1>4, <1>6

LEMMA WithoutHoldFacts ==
  ASSUME TypeOK, NEW r \in Reservation, CanRelease(r)
  PROVE  /\ WithoutHold(r) \in [Account -> Nat]
         /\ \A a \in Account : WithoutHold(r)[a] = held[a] - r.amounts[a]
         /\ \A a \in Account : WithoutHold(r)[a] <= held[a]
         /\ \A a \in Account : held[a] = 0 => WithoutHold(r)[a] = 0
  <1>1. \A a \in Account : r.amounts[a] <= held[a] /\ r.amounts[a] \in Nat /\ held[a] \in Nat
    BY ReservationFields DEF TypeOK, CanRelease, Allocated
  <1>2. QED BY <1>1 DEF WithoutHold

LEMMA ReleaseInv ==
  ASSUME IInv, NEW r \in Reservation, NEW k \in ReleaseKey, Release(r, k) PROVE IInv'
  <1> USE DEF IInv
  <1>1. held' = WithoutHold(r) /\ CanRelease(r) /\ status[r] = "active"
    BY DEF Release, Active
  <1>2. TypeOK'
    BY <1>1, WithoutHoldFacts DEF Release, Resolve, TypeOK
  <1>3. HoldsCovered'
    BY <1>1, WithoutHoldFacts, LedgerAssumption DEF Release, HoldsCovered, TypeOK
  <1>4. OnlyCreditsExceedHold' /\ ResolutionKnown' /\ RepliesAreTrue'
    BY <1>1 DEF Release, Resolve, OnlyCreditsExceedHold, ResolutionKnown, RepliesAreTrue, TypeOK
  <1>5. QED BY <1>2, <1>3, <1>4

LEMMA CaptureInv ==
  ASSUME IInv, NEW r \in Reservation, NEW p \in Posting, NEW extra \in SUBSET Account,
         Capture(r, p, extra)
  PROVE  IInv'
  <1> USE DEF IInv
  <1>1. held' = WithoutHold(r) /\ CanRelease(r) /\ status[r] = "active"
    BY DEF Capture, Active
  <1>2. ~(p \in posted) /\ balance' = [a \in Account |-> balance[a] + p.lines[a]]
    BY DEF Capture, Unposted, KeyTaken, WithPosting
  <1>3. TypeOK'
    <2>1. balance' \in [Account -> Int]
      BY <1>2, PostingFields DEF TypeOK
    <2>2. \A a \in Account \ open : p.lines[a] = 0
      BY DEF Capture, Admissible, InScope, Touched
    <2>3. QED BY <1>1, <1>2, <2>1, <2>2, WithoutHoldFacts, PostingFields
              DEF Capture, Resolve, TypeOK
  <1>4. HoldsCovered'
    <2>1. \A a \in Account \ Control : held'[a] <= balance'[a]
      <3>1. TAKE a \in Account \ Control
      <3>2. WithoutHold(r)[a] <= balance[a]
        BY <1>1, WithoutHoldFacts DEF HoldsCovered, TypeOK
      <3>3. QED BY <1>1, <1>2, <3>2, FundedKeepsHolds, WithoutHoldFacts
                DEF Capture, Admissible, TypeOK
    <2>2. QED BY <1>1, <2>1, WithoutHoldFacts, LedgerAssumption DEF HoldsCovered, TypeOK
  <1>5. OnlyCreditsExceedHold'
    <2>1. \A a \in Account \ (Control \cup Overdraw) : -p.lines[a] <= r.amounts[a]
      BY PostingFields, ReservationFields DEF Capture, DebitsCovered, WithinHold, Touched
    <2>2. QED BY <1>1, <2>1 DEF Capture, Resolve, OnlyCreditsExceedHold, TypeOK
  <1>6. ResolutionKnown' /\ RepliesAreTrue'
    BY <1>1 DEF Capture, Resolve, ResolutionKnown, RepliesAreTrue, TypeOK
  <1>7. QED BY <1>3, <1>4, <1>5, <1>6

(* Retries, new account rows and the clock.                                *)
LEMMA QuietInv ==
  ASSUME IInv,
         \/ Tick
         \/ \E a \in Account : EnsureAccount(a)
         \/ \E p \in Posting : PostAgain(p)
         \/ \E r \in Reservation, k \in ReleaseKey : ReleaseAgain(r, k)
         \/ \E r \in Reservation, p \in Posting : CaptureAgain(r, p)
         \/ UNCHANGED vars
  PROVE  IInv'
  <1> USE DEF IInv, TypeOK, HoldsCovered, OnlyCreditsExceedHold, ResolutionKnown,
              RepliesAreTrue
  <1>1. CASE Tick
    BY <1>1, LedgerAssumption DEF Tick
  <1>2. ASSUME NEW a \in Account, EnsureAccount(a) PROVE IInv'
    BY <1>2 DEF EnsureAccount
  <1>3. ASSUME NEW p \in Posting, PostAgain(p) PROVE IInv'
    BY <1>3 DEF PostAgain, SamePosting
  <1>4. ASSUME NEW r \in Reservation, NEW k \in ReleaseKey, ReleaseAgain(r, k) PROVE IInv'
    BY <1>4 DEF ReleaseAgain
  <1>5. ASSUME NEW r \in Reservation, NEW p \in Posting, CaptureAgain(r, p) PROVE IInv'
    BY <1>5 DEF CaptureAgain
  <1>6. CASE UNCHANGED vars
    BY <1>6 DEF vars
  <1>7. QED BY <1>1, <1>2, <1>3, <1>4, <1>5, <1>6

LEMMA StepInv == ASSUME IInv, [Next]_vars PROVE IInv'
  BY PostInv, ReserveInv, ReleaseInv, CaptureInv, QuietInv DEF Next

(* IInv holds always: Post, Reserve, Release and Capture keep the types,   *)
(* the holds funded, the replies true and the resolution of holds known.   *)
THEOREM InductiveInvariant == Spec => []IInv
  BY InitInv, StepInv, PTL DEF Spec

(* The columns keep their types and an account without a row has no money  *)
(* and no hold.                                                            *)
THEOREM TypeCorrect == Spec => []TypeOK
  <1>1. IInv => TypeOK BY DEF IInv
  <1>2. QED BY <1>1, InductiveInvariant, PTL

(* No sequence of postings, captures and retries spends held money.        *)
THEOREM HoldsStayCovered == Spec => []HoldsCovered
  <1>1. IInv => HoldsCovered BY DEF IInv
  <1>2. QED BY <1>1, InductiveInvariant, PTL

(* Only customer credits are ever debited beyond their hold.               *)
THEOREM CapturesStayWithinHolds == Spec => []OnlyCreditsExceedHold
  <1>1. IInv => OnlyCreditsExceedHold BY DEF IInv
  <1>2. QED BY <1>1, InductiveInvariant, PTL

(* A reported success is the success of the request that was made.         *)
THEOREM RepliesStayTrue == Spec => []RepliesAreTrue
  <1>1. IInv => RepliesAreTrue BY DEF IInv
  <1>2. QED BY <1>1, InductiveInvariant, PTL

(* A hold is only ever consumed together with a new journal.               *)
THEOREM ConsumptionIsAlwaysPaid == Spec => ConsumptionIsPaid
  <1> DEFINE WithJournal == \A r \in Reservation :
                       status[r] # "captured" /\ status'[r] = "captured" =>
                         resolution'[r] \in posted' \ posted
  <1>1. ASSUME IInv, [Next]_vars PROVE WithJournal
    <2>1. ASSUME NEW p \in Posting, Post(p) PROVE WithJournal
      BY <2>1 DEF Post
    <2>2. ASSUME NEW r \in Reservation, Reserve(r) PROVE WithJournal
      BY <2>2 DEF Reserve, IInv, TypeOK
    <2>3. ASSUME NEW r \in Reservation, NEW k \in ReleaseKey, Release(r, k) PROVE WithJournal
      BY <2>3 DEF Release, Resolve, IInv, TypeOK
    <2>4. ASSUME NEW r \in Reservation, NEW p \in Posting, NEW e \in SUBSET Account,
                 Capture(r, p, e)
          PROVE  WithJournal
      <3>1. p \in posted' \ posted
        BY <2>4 DEF Capture, Unposted, KeyTaken
      <3>2. /\ status' = [status EXCEPT ![r] = "captured"]
            /\ resolution' = [resolution EXCEPT ![r] = p]
        BY <2>4 DEF Capture, Resolve
      <3>3. QED BY <1>1, <3>1, <3>2 DEF IInv, TypeOK
    <2>5. CASE status' = status
      BY <2>5
    <2>6. QED
      BY <1>1, <2>1, <2>2, <2>3, <2>4, <2>5
      DEF Next, Tick, EnsureAccount, PostAgain, ReleaseAgain, CaptureAgain, vars
  <1>2. QED BY <1>1, InductiveInvariant, PTL DEF Spec, ConsumptionIsPaid

-----------------------------------------------------------------------------
(* Refinement of Vault.                                                    *)
LEMMA VaultInitial == Init => V!VaultInit
  BY DEF Init, V!VaultInit, V!Nothing

LEMMA PostIsMove ==
  ASSUME IInv, IInv', NEW p \in Posting, Post(p) PROVE V!Move(p)
  <1>1. ~(p \in posted) /\ balance' = [a \in Account |-> balance[a] + p.lines[a]]
    BY DEF Post, KeyTaken, WithPosting
  <1>2. \A a \in Account : balance'[a] - held'[a] = (balance[a] - held[a]) + p.lines[a]
    BY <1>1, PostingFields DEF Post, IInv, TypeOK
  <1>3. \A a \in Account \ Control : balance'[a] - held'[a] >= 0
    BY DEF IInv, TypeOK, HoldsCovered
  <1>4. QED BY <1>1, <1>2, <1>3 DEF V!Move, V!NonNegative, Post

LEMMA ReserveIsLock ==
  ASSUME IInv, IInv', NEW r \in Reservation, Reserve(r) PROVE V!Lock(r)
  <1>1. status[r] = "none" /\ status' = [status EXCEPT ![r] = "active"]
    BY DEF Reserve, HoldKeyTaken, IInv, TypeOK
  <1>2. \A a \in Account : balance'[a] - held'[a] = (balance[a] - held[a]) - r.amounts[a]
    BY ReservationFields DEF Reserve, IInv, TypeOK
  <1>3. \A a \in Account \ Control : balance'[a] - held'[a] >= 0
    BY DEF IInv, TypeOK, HoldsCovered
  <1>4. \A a \in Control : r.amounts[a] = 0
    BY ReservationFields, LedgerAssumption DEF Reserve, Allocated
  <1>5. [q \in Reservation |-> IF status'[q] = "active" THEN q.amounts
                               ELSE [a \in Account |-> 0]]
        = [[q \in Reservation |-> IF status[q] = "active" THEN q.amounts
                                  ELSE [a \in Account |-> 0]] EXCEPT ![r] = r.amounts]
    BY <1>1 DEF IInv, TypeOK
  <1>6. {q \in Reservation : status'[q] # "none"}
        = {q \in Reservation : status[q] # "none"} \cup {r}
    BY <1>1 DEF IInv, TypeOK
  <1>7. r \notin {q \in Reservation : status[q] # "none"}
    BY <1>1
  <1>8. posted' = posted
    BY DEF Reserve
  <1>9. QED BY <1>2, <1>3, <1>4, <1>5, <1>6, <1>7, <1>8 DEF V!Lock, V!NonNegative

(* What both ways of resolving a hold do to the mapped locked and used.    *)
LEMMA ResolvedUnlocks ==
  ASSUME IInv, NEW r \in Reservation, NEW how \in {"released", "captured"}, NEW by,
         Active(r), Resolve(r, how, by)
  PROVE  /\ [q \in Reservation |-> IF status'[q] = "active" THEN q.amounts
                                   ELSE [a \in Account |-> 0]]
            = [[q \in Reservation |-> IF status[q] = "active" THEN q.amounts
                                      ELSE [a \in Account |-> 0]]
               EXCEPT ![r] = [a \in Account |-> 0]]
         /\ {q \in Reservation : status'[q] # "none"}
            = {q \in Reservation : status[q] # "none"}
         /\ r \in {q \in Reservation : status[q] # "none"}
  BY DEF Active, Resolve, IInv, TypeOK

LEMMA ReleaseIsUnlock ==
  ASSUME IInv, NEW r \in Reservation, NEW k \in ReleaseKey, Release(r, k)
  PROVE  V!Unlock(r)
  <1>1. \A a \in Account : balance'[a] - held'[a] = (balance[a] - held[a]) + r.amounts[a]
    BY WithoutHoldFacts, ReservationFields DEF Release, IInv, TypeOK
  <1>2. Active(r) /\ Resolve(r, "released", k) /\ status[r] = "active" /\ posted' = posted
    BY DEF Release, Active
  <1>3. QED BY <1>1, <1>2, ResolvedUnlocks DEF V!Unlock, V!Nothing

LEMMA CaptureIsSpend ==
  ASSUME IInv, IInv', NEW r \in Reservation, NEW p \in Posting, NEW e \in SUBSET Account,
         Capture(r, p, e)
  PROVE  V!Spend(r, p)
  <1>1. ~(p \in posted) /\ balance' = [a \in Account |-> balance[a] + p.lines[a]]
    BY DEF Capture, Unposted, KeyTaken, WithPosting
  <1>2. \A a \in Account : balance'[a] - held'[a]
                           = ((balance[a] - held[a]) + r.amounts[a]) + p.lines[a]
    BY <1>1, WithoutHoldFacts, ReservationFields, PostingFields DEF Capture, IInv, TypeOK
  <1>3. \A a \in Account \ Control : balance'[a] - held'[a] >= 0
    BY DEF IInv, TypeOK, HoldsCovered
  <1>4. /\ Active(r) /\ Resolve(r, "captured", p) /\ status[r] = "active"
        /\ posted' = posted \cup {p}
    BY DEF Capture, Active
  <1>5. QED BY <1>1, <1>2, <1>3, <1>4, ResolvedUnlocks
            DEF V!Spend, V!NonNegative, V!Nothing

LEMMA StepRefines == ASSUME IInv, IInv', [Next]_vars PROVE [V!VaultNext]_(V!vaultVars)
  <1>1. ASSUME NEW p \in Posting, Post(p) PROVE V!VaultNext
    BY <1>1, PostIsMove DEF V!VaultNext
  <1>2. ASSUME NEW r \in Reservation, Reserve(r) PROVE V!VaultNext
    BY <1>2, ReserveIsLock DEF V!VaultNext
  <1>3. ASSUME NEW r \in Reservation, NEW k \in ReleaseKey, Release(r, k) PROVE V!VaultNext
    BY <1>3, ReleaseIsUnlock DEF V!VaultNext
  <1>4. ASSUME NEW r \in Reservation, NEW p \in Posting, NEW e \in SUBSET Account,
               Capture(r, p, e)
        PROVE  V!VaultNext
    BY <1>4, CaptureIsSpend DEF V!VaultNext
  <1>5. CASE UNCHANGED <<balance, held, posted, status>>
    BY <1>5 DEF V!vaultVars
  <1>6. QED
    BY <1>1, <1>2, <1>3, <1>4, <1>5
    DEF Next, Tick, EnsureAccount, PostAgain, ReleaseAgain, CaptureAgain, vars

(* Free money moves once per posting, held money only through its hold.    *)
THEOREM ImplementsVault == Spec => RefinesVault
  BY InductiveInvariant, VaultInitial, StepRefines, PTL DEF Spec, RefinesVault, V!VaultSpec

-----------------------------------------------------------------------------
(* The books.  Journals and active holds are finitely many at any time,    *)
(* which lets the sums over them be taken apart.                           *)
Books == IsFiniteSet(posted) /\ IsFiniteSet(ActiveHolds) /\ Reconciles

(* One more journal: every balance still is the sum of its entries.        *)
LEMMA EntriesAddUp ==
  ASSUME TypeOK, Books, NEW p \in Posting, p \notin posted,
         posted' = posted \cup {p},
         balance' = [a \in Account |-> balance[a] + p.lines[a]]
  PROVE  /\ IsFiniteSet(posted')
         /\ \A a \in Account : balance'[a] = SumFunctionOnSet(LinesOn(a), posted')
<1>1. IsFiniteSet(posted')
  BY FS_AddElement DEF Books
<1>2. ASSUME NEW a \in Account
      PROVE  balance'[a] = SumFunctionOnSet(LinesOn(a), posted')
  <2>1. \A q \in posted \cup {p} : LinesOn(a)[q] = q.lines[a] /\ q.lines[a] \in Int
    BY PostingFields DEF LinesOn, TypeOK
  <2>2. SumFunctionOnSet(LinesOn(a), posted \cup {p})
          = LinesOn(a)[p] + SumFunctionOnSet(LinesOn(a), posted)
    BY <2>1, SumAdd DEF Books
  <2>3. balance[a] = SumFunctionOnSet(LinesOn(a), posted)
    BY DEF Books, Reconciles
  <2>4. balance'[a] = balance[a] + p.lines[a] /\ balance[a] \in Int
    BY DEF TypeOK
  <2> QED BY <2>1, <2>2, <2>3, <2>4
<1> QED BY <1>1, <1>2

(* A posting that is balanced in a unit and touches accounts of its own    *)
(* operator only is balanced among the accounts of every operator.         *)
LEMMA BalancedPerOperator ==
  ASSUME NEW p \in Posting, BalancedPerUnit(p), InScope(p),
         NEW o \in Operator, NEW u \in Unit
  PROVE  SumFunctionOnSet(p.lines, OfOperator(o, u)) = 0
<1> DEFINE S == {a \in Account : UnitOf[a] = u}
<1>1. IsFiniteSet(S) /\ OfOperator(o, u) \subseteq S /\ IsFiniteSet(OfOperator(o, u))
  BY AccountsAssumption, FS_Subset, S \subseteq Account, OfOperator(o, u) \subseteq Account
  DEF OfOperator
<1>2. \A a \in S : p.lines[a] \in Int
  BY PostingFields
<1>3. \A a \in Account : p.lines[a] # 0 => OperatorOf[a] = p.operator
  BY DEF InScope, Touched
<1>4. CASE p.operator = o
  <2>1. \A a \in S \ OfOperator(o, u) : p.lines[a] = 0
    BY <1>3, <1>4 DEF OfOperator
  <2>2. SumFunctionOnSet(p.lines, OfOperator(o, u)) = SumFunctionOnSet(p.lines, S)
    BY <1>1, <1>2, <2>1, SumWithoutZeros
  <2> QED BY <2>2 DEF BalancedPerUnit
<1>5. CASE p.operator # o
  <2>1. \A a \in OfOperator(o, u) : p.lines[a] = 0
    BY <1>3, <1>5 DEF OfOperator
  <2> QED BY <1>1, <2>1, SumZero
<1> QED BY <1>4, <1>5

LEMMA OperatorsStayBalanced ==
  ASSUME TypeOK, Books, NEW p \in Posting, BalancedPerUnit(p), InScope(p),
         balance' = [a \in Account |-> balance[a] + p.lines[a]],
         NEW o \in Operator, NEW u \in Unit
  PROVE  SumFunctionOnSet(balance', OfOperator(o, u)) = 0
<1> DEFINE S == OfOperator(o, u)
<1>1. IsFiniteSet(S) /\ S \subseteq Account
  BY AccountsAssumption, FS_Subset DEF OfOperator
<1>2. \A a \in S : /\ balance[a] \in Int /\ p.lines[a] \in Int
                    /\ balance'[a] = balance[a] + p.lines[a]
  BY <1>1, PostingFields DEF TypeOK
<1>3. SumFunctionOnSet(balance', S)
        = SumFunctionOnSet(balance, S) + SumFunctionOnSet(p.lines, S)
  BY <1>1, <1>2, SumPlus
<1>4. SumFunctionOnSet(balance, S) = 0
  BY DEF Books, Reconciles
<1>5. SumFunctionOnSet(p.lines, S) = 0
  BY BalancedPerOperator
<1> QED BY <1>3, <1>4, <1>5

(* A hold comes, or goes, with its amounts.                                *)
LEMMA HoldComes ==
  ASSUME TypeOK, Books, NEW r \in Reservation, r \notin ActiveHolds,
         ActiveHolds' = ActiveHolds \cup {r},
         held' = [a \in Account |-> held[a] + r.amounts[a]]
  PROVE  /\ IsFiniteSet(ActiveHolds')
         /\ \A a \in Account : held'[a] = SumFunctionOnSet(HoldsOn(a), ActiveHolds')
<1>1. IsFiniteSet(ActiveHolds')
  BY FS_AddElement DEF Books
<1>2. ASSUME NEW a \in Account
      PROVE  held'[a] = SumFunctionOnSet(HoldsOn(a), ActiveHolds')
  <2>1. \A q \in ActiveHolds \cup {r} : HoldsOn(a)[q] = q.amounts[a] /\ q.amounts[a] \in Nat
    BY ReservationFields DEF HoldsOn, ActiveHolds
  <2>2. SumFunctionOnSet(HoldsOn(a), ActiveHolds \cup {r})
          = HoldsOn(a)[r] + SumFunctionOnSet(HoldsOn(a), ActiveHolds)
    BY <2>1, SumAdd DEF Books
  <2>3. held[a] = SumFunctionOnSet(HoldsOn(a), ActiveHolds)
    BY DEF Books, Reconciles
  <2>4. held'[a] = held[a] + r.amounts[a] /\ held[a] \in Nat
    BY DEF TypeOK
  <2> QED BY <2>1, <2>2, <2>3, <2>4
<1> QED BY <1>1, <1>2

LEMMA HoldGoes ==
  ASSUME TypeOK, Books, NEW r \in ActiveHolds, ActiveHolds' = ActiveHolds \ {r},
         held' = WithoutHold(r)
  PROVE  /\ IsFiniteSet(ActiveHolds')
         /\ \A a \in Account : held'[a] = SumFunctionOnSet(HoldsOn(a), ActiveHolds')
<1>1. IsFiniteSet(ActiveHolds')
  BY FS_RemoveElement DEF Books
<1>2. ASSUME NEW a \in Account
      PROVE  held'[a] = SumFunctionOnSet(HoldsOn(a), ActiveHolds')
  <2>1. \A q \in ActiveHolds : HoldsOn(a)[q] = q.amounts[a] /\ q.amounts[a] \in Nat
    BY ReservationFields DEF HoldsOn, ActiveHolds
  <2>2. /\ SumFunctionOnSet(HoldsOn(a), ActiveHolds \ {r}) \in Int
        /\ SumFunctionOnSet(HoldsOn(a), ActiveHolds)
             = HoldsOn(a)[r] + SumFunctionOnSet(HoldsOn(a), ActiveHolds \ {r})
    <3>1. \A q \in ActiveHolds : HoldsOn(a)[q] \in Int
      BY <2>1
    <3>2. IsFiniteSet(ActiveHolds)
      BY DEF Books
    <3> QED BY <3>1, <3>2, SumRemove
  <2>3. held[a] = SumFunctionOnSet(HoldsOn(a), ActiveHolds)
    BY DEF Books, Reconciles
  <2>4. held'[a] = held[a] - r.amounts[a] /\ held[a] \in Nat
    BY DEF TypeOK, WithoutHold
  <2> QED BY <2>1, <2>2, <2>3, <2>4
<1> QED BY <1>1, <1>2

LEMMA BooksOpenEmpty == Init => Books
<1> SUFFICES ASSUME Init PROVE Books
  OBVIOUS
<1>1. posted = {} /\ ActiveHolds = {}
  BY DEF Init, ActiveHolds
<1>2. \A a \in Account : balance[a] = 0 /\ held[a] = 0
  BY DEF Init
<1>3. ASSUME NEW o \in Operator, NEW u \in Unit
      PROVE  SumFunctionOnSet(balance, OfOperator(o, u)) = 0
  <2>1. IsFiniteSet(OfOperator(o, u)) /\ \A a \in OfOperator(o, u) : balance[a] = 0
    BY <1>2, AccountsAssumption, FS_Subset DEF OfOperator
  <2> QED BY <2>1, SumZero
<1>4. \A a \in Account : /\ SumFunctionOnSet(LinesOn(a), {}) = 0
                         /\ SumFunctionOnSet(HoldsOn(a), {}) = 0
  BY SumEmpty
<1> QED BY <1>1, <1>2, <1>3, <1>4, FS_EmptySet DEF Books, Reconciles

LEMMA BooksKept == ASSUME IInv, Books, [Next]_vars PROVE Books'
<1> USE DEF IInv
<1>1. ASSUME NEW p \in Posting, Post(p) PROVE Books'
  <2>1. /\ p \notin posted /\ posted' = posted \cup {p} /\ BalancedPerUnit(p) /\ InScope(p)
        /\ balance' = [a \in Account |-> balance[a] + p.lines[a]]
    BY <1>1 DEF Post, KeyTaken, WithPosting, Admissible
  <2>2. ActiveHolds' = ActiveHolds /\ held' = held
    BY <1>1 DEF Post, ActiveHolds
  <2> QED BY <2>1, <2>2, EntriesAddUp, OperatorsStayBalanced
          DEF Books, Reconciles, HoldsOn, LinesOn, OfOperator
<1>2. ASSUME NEW r \in Reservation, Reserve(r) PROVE Books'
  <2>1. /\ posted' = posted /\ balance' = balance
        /\ held' = [a \in Account |-> held[a] + r.amounts[a]]
        /\ status[r] = "none" /\ status' = [status EXCEPT ![r] = "active"]
    BY <1>2 DEF Reserve, HoldKeyTaken, TypeOK
  <2>2. r \notin ActiveHolds /\ ActiveHolds' = ActiveHolds \cup {r}
    BY <2>1 DEF ActiveHolds, TypeOK
  <2> QED BY <2>1, <2>2, HoldComes DEF Books, Reconciles, HoldsOn, LinesOn, OfOperator
<1>3. ASSUME NEW r \in Reservation, Active(r), held' = WithoutHold(r),
             NEW how \in {"released", "captured"}, NEW by, Resolve(r, how, by)
      PROVE  /\ IsFiniteSet(ActiveHolds')
             /\ \A a \in Account : held'[a] = SumFunctionOnSet(HoldsOn(a), ActiveHolds')
  <2>1. r \in ActiveHolds /\ ActiveHolds' = ActiveHolds \ {r}
    BY <1>3 DEF ActiveHolds, Active, Resolve, TypeOK
  <2> QED BY <1>3, <2>1, HoldGoes
<1>4. ASSUME NEW r \in Reservation, NEW k \in ReleaseKey, Release(r, k) PROVE Books'
  <2>1. /\ posted' = posted /\ balance' = balance
        /\ Active(r) /\ held' = WithoutHold(r) /\ Resolve(r, "released", k)
    BY <1>4 DEF Release
  <2> QED BY <2>1, <1>3 DEF Books, Reconciles, HoldsOn, LinesOn, OfOperator
<1>5. ASSUME NEW r \in Reservation, NEW p \in Posting, NEW e \in SUBSET Account,
             Capture(r, p, e)
      PROVE  Books'
  <2>1. /\ p \notin posted /\ posted' = posted \cup {p} /\ BalancedPerUnit(p) /\ InScope(p)
        /\ balance' = [a \in Account |-> balance[a] + p.lines[a]]
    BY <1>5 DEF Capture, Unposted, KeyTaken, WithPosting, Admissible
  <2>2. Active(r) /\ held' = WithoutHold(r) /\ Resolve(r, "captured", p)
    BY <1>5 DEF Capture
  <2> QED BY <2>1, <2>2, <1>3, EntriesAddUp, OperatorsStayBalanced
          DEF Books, Reconciles, HoldsOn, LinesOn, OfOperator
<1>6. CASE UNCHANGED <<balance, held, posted, status>>
  BY <1>6 DEF Books, Reconciles, ActiveHolds, HoldsOn, LinesOn, OfOperator
<1> QED
  BY <1>1, <1>2, <1>4, <1>5, <1>6
  DEF Next, Tick, EnsureAccount, PostAgain, ReleaseAgain, CaptureAgain, vars

(* Reconcile finds nothing: balances are their entries, held amounts their *)
(* active holds, and every operator's accounts sum to zero in every unit.  *)
THEOREM BooksAlwaysReconcile == Spec => []Reconciles
<1>1. IInv /\ Books /\ [Next]_vars => Books'
  BY BooksKept
<1>2. Books => Reconciles
  BY DEF Books
<1> QED BY <1>1, <1>2, BooksOpenEmpty, InductiveInvariant, PTL DEF Spec

-----------------------------------------------------------------------------
(***************************************************************************)
(* Credit grants.                                                          *)
(***************************************************************************)

LEMMA SumIsNat ==
  ASSUME NEW f, IsFiniteSet(DOMAIN f), \A x \in DOMAIN f : f[x] \in Nat
  PROVE  Sum(f) \in Nat
  BY SumNat DEF Sum

(* The largest remainders: n units are split exactly, and no kind gives    *)
(* more than it has.                                                       *)
THEOREM SplitIsExact ==
  ASSUME NEW w \in [Kind -> Nat], NEW n \in Nat \ {0}, n <= Sum(w)
  PROVE  /\ Proportional(n, w) \in [Kind -> Nat]
         /\ \A k \in Kind : Proportional(n, w)[k] <= w[k]
         /\ Sum(Proportional(n, w)) = n
  <1> DEFINE all == SumFunctionOnSet(w, Kind)
             floor == [k \in Kind |-> (n * w[k]) \div all]
             rem == [k \in Kind |-> (n * w[k]) % all]
             m == n - SumFunctionOnSet(floor, Kind)
             R == {k \in Kind : rem[k] > 0}
             ahead == [k \in Kind |->
               {j \in Kind : rem[j] > rem[k] \/ (rem[j] = rem[k] /\ j < k)}]
             X == {k \in Kind : Cardinality(ahead[k]) < m}
             one == [k \in Kind |-> IF k \in X THEN 1 ELSE 0]
             p == [k \in Kind |-> floor[k] + one[k]]
  <1>0. IsFiniteSet(Kind)
    BY CreditsAssumption
  <1>1. /\ all \in Nat /\ all > 0 /\ n <= all /\ all = Sum(w)
        /\ IsFiniteSet(Kind) /\ Kind \subseteq Nat
    <2>1. IsFiniteSet(Kind) /\ Kind \subseteq Nat /\ all = Sum(w)
      BY CreditsAssumption DEF Sum
    <2>2. Sum(w) \in Nat
      BY <2>1, SumIsNat
    <2> HIDE DEF all
    <2>3. QED BY <2>1, <2>2
  <1>2. Proportional(n, w) = p
    <2>1. Sum(floor) = SumFunctionOnSet(floor, Kind)
      BY DEF Sum
    <2>2. Sum(w) = all /\ all # 0
      BY <1>1
    <2> HIDE DEF all
    <2>3. QED BY <2>1, <2>2 DEF Proportional
  <1>3. \A k \in Kind :
          /\ floor[k] \in Nat /\ rem[k] \in Nat /\ rem[k] <= all - 1
          /\ n * w[k] = all * floor[k] + rem[k]
          /\ floor[k] <= w[k] /\ (rem[k] > 0 => floor[k] < w[k])
    <2> TAKE k \in Kind
    <2>1. PICK a \in Nat, q \in Nat, r \in Nat :
            a = n * w[k] /\ q = a \div all /\ r = a % all
      <3> HIDE DEF all
      <3>1. n * w[k] \in Nat
        OBVIOUS
      <3>2. (n * w[k]) \div all \in Nat /\ (n * w[k]) % all \in Nat
        BY <1>1, <3>1
      <3>3. QED BY <3>1, <3>2
    <2>2. floor[k] = q /\ rem[k] = r
      BY <2>1
    <2> HIDE DEF all, floor, rem
    <2>3. r <= all - 1 /\ a = all * q + r
      BY <1>1, <2>1
    <2>4. q <= w[k] /\ (r > 0 => q < w[k])
      <3>1. a <= all * w[k]
        BY <1>1, <2>1
      <3>2. QED BY <1>1, <2>3, <3>1
    <2>5. QED BY <2>1, <2>2, <2>3, <2>4
  <1>4. n * all = all * SumFunctionOnSet(floor, Kind) + SumFunctionOnSet(rem, Kind)
    <2> DEFINE given == [k \in Kind |-> n * w[k]]
               whole == [k \in Kind |-> all * floor[k]]
    <2>1. \A k \in Kind : given[k] = n * w[k] /\ whole[k] = all * floor[k]
      OBVIOUS
    <2> HIDE DEF given, whole, all, floor, rem, m, R, ahead, X, one, p
    <2>2. \A k \in Kind : /\ given[k] \in Int /\ whole[k] \in Int /\ rem[k] \in Int
                          /\ w[k] \in Int /\ floor[k] \in Int
                          /\ given[k] = whole[k] + rem[k]
      BY <1>1, <1>3, <2>1
    <2>3. SumFunctionOnSet(given, Kind) = n * all
      <3>1. n \in Int
        OBVIOUS
      <3>2. \A k \in Kind : w[k] \in Int /\ given[k] = n * w[k]
        BY <2>1
      <3>3. \A c \in Int : (\A k \in Kind : w[k] \in Int /\ given[k] = c * w[k])
              => SumFunctionOnSet(given, Kind) = c * SumFunctionOnSet(w, Kind)
        BY <1>0, SumTimes
      <3>4. SumFunctionOnSet(given, Kind) = n * SumFunctionOnSet(w, Kind)
        BY <3>1, <3>2, <3>3, Zenon
      <3>5. QED BY <3>4 DEF all
    <2>4. SumFunctionOnSet(whole, Kind) = all * SumFunctionOnSet(floor, Kind)
      <3>1. all \in Int /\ \A k \in Kind : floor[k] \in Int /\ whole[k] = all * floor[k]
        BY <1>1, <2>1, <2>2
      <3>2. QED BY <1>0, <3>1, SumTimes
    <2>5. SumFunctionOnSet(given, Kind)
            = SumFunctionOnSet(whole, Kind) + SumFunctionOnSet(rem, Kind)
      <3>1. \A k \in Kind : whole[k] \in Int /\ rem[k] \in Int
                            /\ given[k] = whole[k] + rem[k]
        BY <2>2
      <3>2. QED BY <1>0, <3>1, SumPlus
    <2>6. QED BY <2>3, <2>4, <2>5
  <1>5. /\ SumFunctionOnSet(rem, Kind) = all * m /\ m \in Nat
        /\ SumFunctionOnSet(floor, Kind) \in Nat
    <2> HIDE DEF all, floor, rem
    <2>1. PICK F \in Nat, Q \in Nat :
            F = SumFunctionOnSet(floor, Kind) /\ Q = SumFunctionOnSet(rem, Kind)
      BY <1>1, <1>3, SumNat
    <2>2. n * all = all * F + Q
      BY <1>4, <2>1
    <2>3. Q = all * (n - F)
      BY <1>1, <2>1, <2>2
    <2>4. n - F \in Nat
      BY <1>1, <2>1, <2>3
    <2>5. QED BY <2>1, <2>3, <2>4
  <1>6. m <= Cardinality(R) /\ Cardinality(R) <= Cardinality(Kind) /\ Cardinality(R) \in Nat
    <2>1. IsFiniteSet(R) /\ Cardinality(R) <= Cardinality(Kind) /\ Cardinality(R) \in Nat
      BY <1>1, FS_Subset, FS_CardinalityType
    <2>2. all - 1 \in Nat
      BY <1>1
    <2>3. \A k \in Kind : rem[k] \in Nat /\ rem[k] <= all - 1
      BY <1>3
    <2> HIDE DEF all, floor, rem
    <2>4. R \subseteq Kind /\ \A k \in Kind \ R : rem[k] = 0
      BY <2>3
    <2> HIDE DEF R
    <2>5. SumFunctionOnSet(rem, Kind) <= (all - 1) * Cardinality(R)
      BY <1>1, <2>2, <2>3, <2>4, SumBounded
    <2> HIDE DEF m
    <2>6. m <= Cardinality(R)
      BY <1>1, <1>5, <2>1, <2>5
    <2>7. QED BY <2>1, <2>6
  <1>7. Cardinality(X) = m
    <2>1. m \in Nat /\ m <= Cardinality(Kind)
      <3>1. Cardinality(Kind) \in Nat
        BY <1>1, FS_CardinalityType
      <3> HIDE DEF m
      <3>2. QED BY <1>5, <1>6, <3>1
    <2>2. \A k \in Kind : rem[k] \in Nat /\ k \in Nat
      BY <1>1, <1>3
    <2> HIDE DEF all, floor, rem, m
    <2>3. ahead \in [Kind -> SUBSET Kind]
      OBVIOUS
    <2>4. \A k \in Kind : k \notin ahead[k]
      BY <2>2
    <2>5. \A j, k \in Kind : j \in ahead[k] => ahead[j] \subseteq ahead[k]
      BY <2>2
    <2>6. \A j, k \in Kind : j = k \/ j \in ahead[k] \/ k \in ahead[j]
      BY <2>2
    <2> HIDE DEF ahead
    <2>7. QED BY <1>1, <2>1, <2>3, <2>4, <2>5, <2>6, RanksCount
  <1>8. X \subseteq R
    <2> SUFFICES ASSUME NEW k \in X, k \notin R PROVE FALSE
      OBVIOUS
    <2>1. k \in Kind /\ rem[k] = 0
      BY <1>3
    <2>2. R \subseteq ahead[k] /\ ahead[k] \subseteq Kind
      <3>1. \A j \in R : j \in Kind /\ rem[j] > rem[k]
        BY <2>1
      <3> HIDE DEF rem
      <3>2. QED BY <2>1, <3>1
    <2>3. Cardinality(ahead[k]) < m
      OBVIOUS
    <2> HIDE DEF ahead, R, m
    <2>4. IsFiniteSet(ahead[k]) /\ Cardinality(R) <= Cardinality(ahead[k])
          /\ Cardinality(ahead[k]) \in Nat
      BY <1>1, <2>2, FS_Subset, FS_CardinalityType
    <2>5. QED BY <1>5, <1>6, <2>3, <2>4
  <1>9. \A k \in Kind : one[k] \in {0, 1} /\ (one[k] = 1 <=> k \in X) /\ p[k] = floor[k] + one[k]
    <2> HIDE DEF X, floor
    <2>1. QED OBVIOUS
  <1>10. \A k \in Kind : k \in X => rem[k] > 0
    BY <1>8
  <1>11. X \subseteq Kind
    OBVIOUS
  <1>12. p \in [Kind -> Nat] /\ \A k \in Kind : p[k] <= w[k]
    <2> HIDE DEF all, floor, rem, X, one
    <2>1. p = [k \in Kind |-> p[k]]
      OBVIOUS
    <2> HIDE DEF p
    <2>2. \A k \in Kind : p[k] \in Nat /\ p[k] <= w[k]
      BY <1>3, <1>9, <1>10
    <2>3. QED BY <2>1, <2>2
  <1>13. SumFunctionOnSet(p, Kind) = n
    <2> HIDE DEF all, floor, rem, m, R, ahead, X, one, p
    <2>1. \A k \in Kind : /\ floor[k] \in Int /\ one[k] \in Int
                          /\ p[k] = floor[k] + one[k]
      BY <1>3, <1>9
    <2>2. SumFunctionOnSet(p, Kind)
            = SumFunctionOnSet(floor, Kind) + SumFunctionOnSet(one, Kind)
      BY <1>0, <2>1, SumPlus
    <2>3. SumFunctionOnSet(one, Kind) = Cardinality(X)
      BY <1>1, <1>9, <1>11, SumCounts
    <2>4. SumFunctionOnSet(one, Kind) = n - SumFunctionOnSet(floor, Kind)
      BY <1>7, <2>3 DEF m
    <2>5. QED BY <1>5, <2>2, <2>4
  <1>14. Sum(Proportional(n, w)) = SumFunctionOnSet(p, Kind)
    BY <1>2 DEF Sum
  <1> HIDE DEF p
  <1>15. QED BY <1>2, <1>12, <1>13, <1>14

-----------------------------------------------------------------------------
(* First expiring first.                                                   *)

LEMMA BeforeIsAnOrder ==
  /\ \A g \in Grant : ~Before(g, g)
  /\ \A f, g, h \in Grant : Before(f, g) /\ Before(g, h) => Before(f, h)
  BY CreditsAssumption DEF Before, Fefo

Earlier(g) == {h \in Grant : Before(h, g)}

LEMMA EarlierGrants ==
  ASSUME NEW g \in Grant
  PROVE  /\ Earlier(g) \subseteq Grant /\ g \notin Earlier(g)
         /\ IsFiniteSet(Earlier(g)) /\ IsFiniteSet(Earlier(g) \cup {g})
         /\ Earlier(g) \cup {g} \subseteq Grant
         /\ \A h \in Earlier(g) : Earlier(h) \cup {h} \subseteq Earlier(g)
  <1>1. /\ Earlier(g) \subseteq Grant /\ g \notin Earlier(g)
        /\ \A h \in Earlier(g) : Earlier(h) \cup {h} \subseteq Earlier(g)
    BY BeforeIsAnOrder DEF Earlier
  <1>2. Earlier(g) \cup {g} \subseteq Grant
    BY <1>1
  <1>3. IsFiniteSet(Grant)
    BY CreditsAssumption
  <1>4. IsFiniteSet(Earlier(g)) /\ IsFiniteSet(Earlier(g) \cup {g})
    BY <1>1, <1>2, <1>3, FS_Subset
  <1>5. QED BY <1>1, <1>2, <1>4

(* What a grant gives: at most what it offers, and nothing while earlier   *)
(* ones suffice.                                                           *)
LEMMA FefoTakes ==
  ASSUME NEW offer \in [Grant -> Nat], NEW n \in Int
  PROVE  /\ FefoTake(offer, n) \in [Grant -> Nat]
         /\ \A g \in Grant :
              LET missing == n - SumFunctionOnSet(offer, Earlier(g))
                  take == FefoTake(offer, n)[g]
              IN  /\ SumFunctionOnSet(offer, Earlier(g)) \in Nat
                  /\ take <= offer[g]
                  /\ take > 0 => missing > 0
                  /\ missing > 0 => take = offer[g] \/ take = missing
                  /\ take < offer[g] => missing < offer[g]
  <1>1. ASSUME NEW g \in Grant
        PROVE  SumFunctionOnSet(offer, Earlier(g)) \in Nat
    BY EarlierGrants, SumNat
  <1>2. ASSUME NEW g \in Grant
        PROVE  LET missing == n - SumFunctionOnSet(offer, Earlier(g))
               IN FefoTake(offer, n)[g]
                    = IF missing <= 0 THEN 0
                      ELSE IF missing < offer[g] THEN missing ELSE offer[g]
    BY DEF FefoTake, Earlier
  <1>3. FefoTake(offer, n) = [g \in Grant |-> FefoTake(offer, n)[g]]
    BY DEF FefoTake
  <1>4. \A g \in Grant : FefoTake(offer, n)[g] \in Nat
    BY <1>1, <1>2
  <1>5. FefoTake(offer, n) \in [Grant -> Nat]
    BY <1>3, <1>4
  <1>6. QED BY <1>1, <1>2, <1>5

(* A grant gives something only when all earlier ones gave all.            *)
LEMMA FefoInOrder ==
  ASSUME NEW offer \in [Grant -> Nat], NEW n \in Int, NEW g \in Grant, NEW h \in Grant,
         Before(h, g), FefoTake(offer, n)[g] > 0
  PROVE  FefoTake(offer, n)[h] = offer[h]
  <1> DEFINE before(x) == SumFunctionOnSet(offer, Earlier(x))
  <1>1. /\ h \in Earlier(g) /\ h \notin Earlier(h) /\ Earlier(h) \cup {h} \subseteq Earlier(g)
        /\ IsFiniteSet(Earlier(h)) /\ IsFiniteSet(Earlier(g)) /\ Earlier(g) \subseteq Grant
    BY EarlierGrants DEF Earlier
  <1>2. SumFunctionOnSet(offer, Earlier(h) \cup {h}) = offer[h] + before(h)
    <2>1. \A x \in Earlier(h) \cup {h} : offer[x] \in Int
      BY <1>1
    <2>2. QED BY <1>1, <2>1, SumAdd
  <1>3. SumFunctionOnSet(offer, Earlier(h) \cup {h}) <= before(g)
    <2>1. \A x \in Earlier(g) : offer[x] \in Nat
      BY <1>1
    <2>2. QED BY <1>1, <2>1, SumSubset
  <1>4. /\ before(h) \in Nat /\ before(g) \in Nat
        /\ n - before(g) > 0
        /\ FefoTake(offer, n)[h] <= offer[h] /\ FefoTake(offer, n)[h] \in Nat
        /\ FefoTake(offer, n)[h] < offer[h] => n - before(h) < offer[h]
    BY FefoTakes
  <1>5. offer[h] \in Nat
    OBVIOUS
  <1> HIDE DEF before
  <1>6. QED BY <1>2, <1>3, <1>4, <1>5

(* Less than asked for is given only when everything on offer is.          *)
LEMMA FefoTakesAll ==
  ASSUME NEW offer \in [Grant -> Nat], NEW n \in Int, Sum(FefoTake(offer, n)) < n
  PROVE  FefoTake(offer, n) = offer
  <1> DEFINE take == FefoTake(offer, n)
             Short == {g \in Grant : take[g] < offer[g]}
  <1>0. take \in [Grant -> Nat] /\ \A g \in Grant : take[g] <= offer[g]
    BY FefoTakes
  <1>1. Sum(take) = SumFunctionOnSet(take, Grant)
    BY <1>0 DEF Sum
  <1>2. SUFFICES ASSUME Short # {} PROVE FALSE
    <2>1. CASE Short = {}
      <3>1. \A g \in Grant : take[g] = offer[g]
        BY <1>0, <2>1
      <3> HIDE DEF take, Short
      <3>2. take = [g \in Grant |-> take[g]] /\ offer = [g \in Grant |-> offer[g]]
        BY <1>0
      <3>3. take = offer
        BY <3>1, <3>2
      <3>4. QED BY <3>3 DEF take
    <2>2. QED BY <1>2, <2>1
  <1>3. PICK g \in Short : \A h \in Short : h \notin Earlier(g)
    <2> DEFINE T == {Earlier(g) : g \in Short}
    <2>1. PICK x \in Short : TRUE
      BY <1>2
    <2>2. Earlier(x) \in T /\ IsFiniteSet(Earlier(x))
      BY <2>1, EarlierGrants
    <2>3. PICK X \in T : \A Y \in T : Y \subseteq X => Y = X
      <3> HIDE DEF T
      <3>1. QED BY <2>2, SmallestSet
    <2>4. PICK g \in Short : X = Earlier(g)
      BY <2>3
    <2>5. ASSUME NEW h \in Short, h \in Earlier(g) PROVE FALSE
      <3>1. Earlier(h) \subseteq Earlier(g) /\ h \notin Earlier(h)
        BY <2>4, <2>5, EarlierGrants
      <3>2. Earlier(h) \in T
        OBVIOUS
      <3>3. QED BY <2>3, <2>4, <2>5, <3>1, <3>2
    <2>6. QED BY <2>4, <2>5
  <1>4. g \in Grant /\ take[g] < offer[g] /\ take[g] \in Nat /\ offer[g] \in Nat
    BY <1>0
  <1>5. /\ Earlier(g) \subseteq Grant /\ g \notin Earlier(g) /\ IsFiniteSet(Earlier(g))
        /\ Earlier(g) \cup {g} \subseteq Grant
    BY <1>4, EarlierGrants
  <1>6. SumFunctionOnSet(take, Earlier(g)) = SumFunctionOnSet(offer, Earlier(g))
    <2>1. \A h \in Earlier(g) : take[h] = offer[h]
      BY <1>0, <1>3, <1>5
    <2> HIDE DEF take
    <2>2. QED BY <1>5, <2>1, SumSame
  <1>7. SumFunctionOnSet(take, Earlier(g) \cup {g})
          = take[g] + SumFunctionOnSet(take, Earlier(g))
    <2>1. \A h \in Earlier(g) \cup {g} : take[h] \in Int
      BY <1>0, <1>5
    <2> HIDE DEF take
    <2>2. QED BY <1>5, <2>1, SumAdd
  <1>8. /\ SumFunctionOnSet(take, Earlier(g) \cup {g}) <= SumFunctionOnSet(take, Grant)
        /\ SumFunctionOnSet(take, Earlier(g)) <= SumFunctionOnSet(take, Grant)
    <2>1. IsFiniteSet(Grant) /\ \A h \in Grant : take[h] \in Nat
      BY <1>0, CreditsAssumption
    <2> HIDE DEF take
    <2>2. QED BY <1>5, <2>1, SumSubset
  <1>9. /\ SumFunctionOnSet(offer, Earlier(g)) \in Nat
        /\ n - SumFunctionOnSet(offer, Earlier(g)) > 0 =>
             take[g] = n - SumFunctionOnSet(offer, Earlier(g))
    BY <1>4, FefoTakes
  <1>10. SumFunctionOnSet(take, Grant) \in Nat /\ SumFunctionOnSet(take, Grant) < n
    <2>1. IsFiniteSet(Grant) /\ \A h \in Grant : take[h] \in Nat
      BY <1>0, CreditsAssumption
    <2> HIDE DEF take
    <2>2. SumFunctionOnSet(take, Grant) \in Nat
      BY <2>1, SumNat
    <2>3. QED BY <1>1, <2>2 DEF take
  <1>11. SumFunctionOnSet(take, Earlier(g) \cup {g}) \in Int
    BY <1>4, <1>6, <1>7, <1>9
  <1> HIDE DEF take
  <1>12. QED BY <1>4, <1>6, <1>7, <1>8, <1>9, <1>10, <1>11

-----------------------------------------------------------------------------
(* The books of one grant: what is left and what was used, expired or      *)
(* cancelled, by class and kind, and the money that went with it.          *)
AllOfThem(f) == f["consumed"] + f["expired"] + f["cancelled"]
LeftOver(g, src) ==
  [k \in Kind |-> Quantity[g][k] - src["consumed"][k] - src["expired"][k]
                                 - src["cancelled"][k]]

GrantSound(g, has, bal, hld, src, rw, mn) ==
  /\ hld <= bal
  /\ bal + AllOfThem(rw) = IF has THEN Total(g) ELSE 0
  /\ \A c \in Class : SumFunctionOnSet(src[c], Kind) = rw[c]
  /\ \A k \in Kind : LeftOver(g, src)[k] >= 0
  /\ \A c \in Class : mn[c] >= 0
  /\ AllOfThem(mn) <= PaidMoney[g]
  /\ has /\ bal = 0 => AllOfThem(mn) = PaidMoney[g]

LEMMA SumOfClasses ==
  ASSUME NEW f \in [Class -> Int]
  PROVE  Sum(f) = AllOfThem(f) /\ AllOfThem(f) \in Int
  <1>1. /\ Class = {"consumed", "expired"} \cup {"cancelled"}
        /\ {"consumed", "expired"} = {"consumed"} \cup {"expired"}
        /\ {"consumed"} = {} \cup {"consumed"}
    BY DEF Class
  <1>2. /\ IsFiniteSet({}) /\ IsFiniteSet({"consumed"})
        /\ IsFiniteSet({"consumed", "expired"})
    <2>1. IsFiniteSet({})
      BY FS_EmptySet
    <2>2. IsFiniteSet({"consumed"})
      BY <1>1, <2>1, FS_AddElement
    <2>3. IsFiniteSet({"consumed", "expired"})
      BY <1>1, <2>2, FS_AddElement
    <2>4. QED BY <2>1, <2>2, <2>3
  <1>3. SumFunctionOnSet(f, {"consumed"}) = f["consumed"] + SumFunctionOnSet(f, {})
    <2>1. \A y \in {} \cup {"consumed"} : f[y] \in Int
      BY DEF Class
    <2>2. QED BY <1>1, <1>2, <2>1, SumAdd
  <1>4. SumFunctionOnSet(f, {"consumed", "expired"})
          = f["expired"] + SumFunctionOnSet(f, {"consumed"})
    <2>1. \A y \in {"consumed"} \cup {"expired"} : f[y] \in Int
      BY DEF Class
    <2>2. "expired" \notin {"consumed"}
      OBVIOUS
    <2>3. QED BY <1>1, <1>2, <2>1, <2>2, SumAdd
  <1>5. SumFunctionOnSet(f, Class)
          = f["cancelled"] + SumFunctionOnSet(f, {"consumed", "expired"})
    <2>1. \A y \in {"consumed", "expired"} \cup {"cancelled"} : f[y] \in Int
      BY DEF Class
    <2>2. "cancelled" \notin {"consumed", "expired"}
      OBVIOUS
    <2>3. QED BY <1>1, <1>2, <2>1, <2>2, SumAdd
  <1>6. SumFunctionOnSet(f, {}) = 0
    BY SumEmpty
  <1>7. f["consumed"] \in Int /\ f["expired"] \in Int /\ f["cancelled"] \in Int
    BY DEF Class
  <1>8. Sum(f) = SumFunctionOnSet(f, Class)
    BY DEF Sum
  <1>9. QED BY <1>3, <1>4, <1>5, <1>6, <1>7, <1>8 DEF AllOfThem

LEMMA GrantConstants ==
  ASSUME NEW g \in Grant
  PROVE  /\ Quantity[g] \in [Kind -> Nat] /\ PaidMoney[g] \in Nat
         /\ Total(g) \in Nat /\ Total(g) > 0 /\ Total(g) = SumFunctionOnSet(Quantity[g], Kind)
         /\ IsFiniteSet(Kind)
  <1>1. Quantity[g] \in [Kind -> Nat] /\ PaidMoney[g] \in Nat /\ Total(g) > 0
        /\ IsFiniteSet(Kind)
    BY CreditsAssumption
  <1>2. Total(g) = SumFunctionOnSet(Quantity[g], Kind)
    BY <1>1 DEF Total, Sum
  <1>3. SumFunctionOnSet(Quantity[g], Kind) \in Nat
    BY <1>1, SumNat
  <1>4. QED BY <1>1, <1>2, <1>3

(* What is left of the kinds adds up to what is left of the grant.         *)
LEMMA LeftAddsUp ==
  ASSUME NEW g \in Grant, NEW src \in [Class -> [Kind -> Nat]], NEW rw \in [Class -> Nat],
         \A c \in Class : SumFunctionOnSet(src[c], Kind) = rw[c],
         \A k \in Kind : LeftOver(g, src)[k] >= 0
  PROVE  /\ LeftOver(g, src) \in [Kind -> Nat]
         /\ Sum(LeftOver(g, src)) + AllOfThem(rw) = Total(g)
  <1> DEFINE left == LeftOver(g, src)
             most == [k \in Kind |-> left[k] + src["consumed"][k]]
             more == [k \in Kind |-> most[k] + src["expired"][k]]
  <1>1. /\ Quantity[g] \in [Kind -> Nat] /\ IsFiniteSet(Kind)
        /\ Total(g) = SumFunctionOnSet(Quantity[g], Kind)
    BY GrantConstants
  <1>2. /\ src["consumed"] \in [Kind -> Nat] /\ src["expired"] \in [Kind -> Nat]
        /\ src["cancelled"] \in [Kind -> Nat]
        /\ "consumed" \in Class /\ "expired" \in Class /\ "cancelled" \in Class
    BY DEF Class
  <1>3. left \in [Kind -> Nat] /\ Sum(left) = SumFunctionOnSet(left, Kind)
    <2>1. left = [k \in Kind |-> left[k]] /\ \A k \in Kind : left[k] \in Int
      BY <1>1, <1>2 DEF LeftOver
    <2>2. \A k \in Kind : left[k] >= 0
      OBVIOUS
    <2> HIDE DEF left
    <2>3. left \in [Kind -> Nat]
      BY <2>1, <2>2
    <2>4. QED BY <2>3 DEF Sum
  <1>4. \A k \in Kind : /\ most[k] = left[k] + src["consumed"][k]
                        /\ more[k] = most[k] + src["expired"][k]
                        /\ Quantity[g][k] = more[k] + src["cancelled"][k]
    BY <1>1, <1>2 DEF LeftOver
  <1> HIDE DEF left, most, more
  <1>5. SumFunctionOnSet(most, Kind)
          = SumFunctionOnSet(left, Kind) + SumFunctionOnSet(src["consumed"], Kind)
    <2>1. \A k \in Kind : left[k] \in Int /\ src["consumed"][k] \in Int
                          /\ most[k] = left[k] + src["consumed"][k]
      BY <1>2, <1>3, <1>4
    <2>2. QED BY <1>1, <2>1, SumPlus
  <1>6. SumFunctionOnSet(more, Kind)
          = SumFunctionOnSet(most, Kind) + SumFunctionOnSet(src["expired"], Kind)
    <2>1. \A k \in Kind : most[k] \in Int /\ src["expired"][k] \in Int
                          /\ more[k] = most[k] + src["expired"][k]
      BY <1>2, <1>3, <1>4
    <2>2. QED BY <1>1, <2>1, SumPlus
  <1>7. SumFunctionOnSet(Quantity[g], Kind)
          = SumFunctionOnSet(more, Kind) + SumFunctionOnSet(src["cancelled"], Kind)
    <2>1. \A k \in Kind : more[k] \in Int /\ src["cancelled"][k] \in Int
                          /\ Quantity[g][k] = more[k] + src["cancelled"][k]
      BY <1>2, <1>3, <1>4
    <2>2. QED BY <1>1, <2>1, SumPlus
  <1>8. SumFunctionOnSet(left, Kind) \in Nat
    BY <1>1, <1>3, SumNat
  <1>9. rw["consumed"] \in Nat /\ rw["expired"] \in Nat /\ rw["cancelled"] \in Nat
    BY <1>2
  <1>10. Sum(left) + AllOfThem(rw) = Total(g)
    BY <1>1, <1>2, <1>3, <1>5, <1>6, <1>7, <1>8, <1>9 DEF AllOfThem
  <1>11. QED BY <1>3, <1>10 DEF left

-----------------------------------------------------------------------------
(* The inductive invariant.                                                *)
Holding == [status : {"none", "active", "released", "captured"},
            amounts : [Grant -> Nat]]
Keeping == [status : {"none", "active", "released", "captured"},
            grant : Nat, amount : Nat]

Typed ==
  /\ clock \in 0..ClockBound /\ issued \in SUBSET Grant
  /\ owned \in [Grant -> Nat] /\ onHold \in [Grant -> Nat]
  /\ source \in [Grant -> [Class -> [Kind -> Nat]]]
  /\ row \in [Grant -> [Class -> Nat]] /\ money \in [Grant -> [Class -> Int]]
  /\ hold \in [Request -> Holding]
  /\ event \in [Request -> [Grant -> Event]]
  /\ reversed \in [Request -> [Grant -> Event]]
  /\ DOMAIN result = Request
  /\ case \in [Case -> Keeping]
  /\ corrected \in SUBSET Correction

BooksSound ==
  \A g \in Grant :
    GrantSound(g, g \in issued, owned[g], onHold[g], source[g], row[g], money[g])

(* What is held of a grant is what open requests and cases hold of it.     *)
ReservedOf(g) == [r \in Request |-> Reserved(r, g)]
KeptOf(g) == [c \in Case |-> Kept(c, g)]
HeldExplained ==
  /\ \A g \in Grant : onHold[g] = Sum(ReservedOf(g)) + Sum(KeptOf(g))
  /\ \A c \in Case : case[c].status = "active" => case[c].grant \in Grant

(* A correction never gives back more than the event charged, and there is *)
(* none before the settlement.                                             *)
EventsSound ==
  \A r \in Request, g \in Grant :
    /\ \A k \in Kind : reversed[r][g].units[k] <= event[r][g].units[k]
    /\ hold[r].status \in {"none", "active"} =>
         event[r][g] = NoEvent /\ reversed[r][g] = NoEvent

(* The key of an expiry to come was never used.                            *)
KeysSpent ==
  \A e \in expiries : \E g \in Grant, m \in Nat, n \in Nat :
    e = <<<<g, m>>, n>> /\ m < row[g]["expired"]

CreditsInv == Typed /\ BooksSound /\ HeldExplained /\ EventsSound /\ KeysSpent

-----------------------------------------------------------------------------
(* Attribution of n more units of a grant to a class.                      *)
Share(g, rw, mn, n) == (PaidMoney[g] * (AllOfThem(rw) + n)) \div Total(g) - AllOfThem(mn)

EventOf(g, src, rw, mn, n) ==
  IF n = 0 THEN NoEvent
  ELSE [units |-> Proportional(n, LeftOver(g, src)), paid |-> Share(g, rw, mn, n)]

BooksTyped(src, rw, mn) ==
  /\ src \in [Class -> [Kind -> Nat]]
  /\ rw \in [Class -> Nat]
  /\ mn \in [Class -> Int]

(* The books after n units and their event were added to a class.          *)
Added(class, n, e, src, rw, mn, src2, rw2, mn2) ==
  /\ src2 = [c \in Class |-> IF c = class THEN [k \in Kind |-> src[class][k] + e.units[k]]
                                          ELSE src[c]]
  /\ rw2 = [c \in Class |-> IF c = class THEN rw[c] + n ELSE rw[c]]
  /\ mn2 = [c \in Class |-> IF c = class THEN mn[c] + e.paid ELSE mn[c]]

(* The cumulative target never exceeds the price, and reaches it.          *)
LEMMA TargetIsBounded ==
  ASSUME NEW p \in Nat, NEW all \in Nat, all > 0, NEW used \in Nat, used <= all
  PROVE  /\ (p * used) \div all \in Nat /\ (p * used) \div all <= p
         /\ (p * all) \div all = p
  <1>1. /\ p * used \in Nat /\ p * used <= p * all
        /\ p * all \in Nat
    OBVIOUS
  <1>2. PICK q \in Nat, r \in Nat : /\ q = (p * used) \div all /\ r = (p * used) % all
                                    /\ p * used = all * q + r /\ r < all
    BY <1>1
  <1>3. q <= p
    BY <1>1, <1>2
  <1>4. PICK s \in Nat, t \in Nat : /\ s = (p * all) \div all /\ t = (p * all) % all
                                    /\ p * all = all * s + t /\ t < all
    BY <1>1
  <1>5. s = p
    BY <1>1, <1>4
  <1>6. QED BY <1>2, <1>3, <1>4, <1>5

LEMMA EventSound ==
  ASSUME NEW g \in Grant, NEW src, NEW rw, NEW mn, BooksTyped(src, rw, mn),
         NEW bal \in Nat, bal + AllOfThem(rw) \in {0, Total(g)},
         \A c \in Class : SumFunctionOnSet(src[c], Kind) = rw[c],
         \A k \in Kind : LeftOver(g, src)[k] >= 0,
         NEW n \in Nat, n <= bal
  PROVE  LET e == EventOf(g, src, rw, mn, n) IN
         /\ e \in Event
         /\ \A k \in Kind : e.units[k] <= LeftOver(g, src)[k]
         /\ SumFunctionOnSet(e.units, Kind) = n
         /\ n > 0 => e.paid = Share(g, rw, mn, n)
  <1>1. /\ src \in [Class -> [Kind -> Nat]] /\ rw \in [Class -> Nat] /\ mn \in [Class -> Int]
        /\ IsFiniteSet(Kind) /\ Total(g) \in Nat /\ Total(g) > 0 /\ PaidMoney[g] \in Nat
    BY GrantConstants DEF BooksTyped
  <1>2. /\ LeftOver(g, src) \in [Kind -> Nat]
        /\ Sum(LeftOver(g, src)) + AllOfThem(rw) = Total(g)
    BY <1>1, LeftAddsUp
  <1>3. AllOfThem(rw) \in Nat /\ AllOfThem(mn) \in Int
    BY <1>1 DEF AllOfThem, Class
  <1>4. CASE n = 0
    <2>1. EventOf(g, src, rw, mn, n) = NoEvent
      BY <1>4 DEF EventOf
    <2>2. NoEvent \in Event /\ \A k \in Kind : NoEvent.units[k] = 0
      BY DEF NoEvent, NoUnits, Event
    <2>3. SumFunctionOnSet(NoEvent.units, Kind) = 0
      BY <1>1, <2>2, SumZero
    <2>4. \A k \in Kind : LeftOver(g, src)[k] \in Nat
      BY <1>2
    <2>5. QED BY <1>4, <2>1, <2>2, <2>3, <2>4
  <1>5. CASE n # 0
    <2> DEFINE e == EventOf(g, src, rw, mn, n)
               u == Proportional(n, LeftOver(g, src))
    <2>1. Sum(LeftOver(g, src)) = bal /\ n \in Nat \ {0}
      <3>1. Sum(LeftOver(g, src)) \in Nat
        <4>1. DOMAIN LeftOver(g, src) = Kind
          BY <1>2
        <4>2. QED BY <1>1, <1>2, <4>1, SumIsNat
      <3>2. bal + AllOfThem(rw) = Total(g)
        BY <1>3, <1>5
      <3>3. QED BY <1>2, <1>3, <1>5, <3>1, <3>2
    <2>2. /\ u \in [Kind -> Nat] /\ \A k \in Kind : u[k] <= LeftOver(g, src)[k]
          /\ Sum(u) = n
      <3>1. n <= Sum(LeftOver(g, src))
        BY <2>1
      <3>2. QED BY <1>2, <2>1, <3>1, SplitIsExact
    <2>3. SumFunctionOnSet(u, Kind) = n
      BY <2>2 DEF Sum
    <2>4. e = [units |-> u, paid |-> Share(g, rw, mn, n)]
      BY <1>5 DEF EventOf
    <2>5. Share(g, rw, mn, n) \in Int
      <3>1. PICK x \in Nat : x = PaidMoney[g] * (AllOfThem(rw) + n)
        BY <1>1, <1>3
      <3>2. x \div Total(g) \in Int
        BY <1>1
      <3>3. QED BY <1>3, <3>1, <3>2 DEF Share
    <2> HIDE DEF u, e
    <2>6. e \in Event /\ e.units = u /\ e.paid = Share(g, rw, mn, n)
      BY <2>2, <2>4, <2>5 DEF Event
    <2>7. QED BY <2>1, <2>2, <2>3, <2>6 DEF e
  <1>6. QED BY <1>4, <1>5

LEMMA AttributionKeepsBooks ==
  ASSUME NEW g \in Grant, NEW src, NEW rw, NEW mn, BooksTyped(src, rw, mn),
         NEW has \in BOOLEAN, NEW bal \in Nat, NEW hld \in Nat,
         GrantSound(g, has, bal, hld, src, rw, mn),
         NEW n \in Nat, n <= bal, NEW hld2 \in Nat, hld2 <= bal - n,
         NEW class \in Class, NEW src2, NEW rw2, NEW mn2,
         Added(class, n, EventOf(g, src, rw, mn, n), src, rw, mn, src2, rw2, mn2),
         mn2[class] >= 0
  PROVE  /\ BooksTyped(src2, rw2, mn2)
         /\ GrantSound(g, has, bal - n, hld2, src2, rw2, mn2)
  <1> DEFINE e == EventOf(g, src, rw, mn, n)
  <1>1. /\ src \in [Class -> [Kind -> Nat]] /\ rw \in [Class -> Nat] /\ mn \in [Class -> Int]
        /\ IsFiniteSet(Kind) /\ Total(g) \in Nat /\ Total(g) > 0 /\ PaidMoney[g] \in Nat
        /\ Quantity[g] \in [Kind -> Nat]
    BY GrantConstants DEF BooksTyped
  <1>2. /\ e \in Event
        /\ \A k \in Kind : e.units[k] <= LeftOver(g, src)[k]
        /\ SumFunctionOnSet(e.units, Kind) = n
        /\ n > 0 => has /\ e.paid = Share(g, rw, mn, n)
    <2>1. /\ bal + AllOfThem(rw) \in {0, Total(g)}
          /\ \A c \in Class : SumFunctionOnSet(src[c], Kind) = rw[c]
          /\ \A k \in Kind : LeftOver(g, src)[k] >= 0
          /\ bal + AllOfThem(rw) = IF has THEN Total(g) ELSE 0
      BY DEF GrantSound
    <2>2. AllOfThem(rw) \in Nat
      BY <1>1 DEF AllOfThem, Class
    <2>3. n > 0 => has
      BY <2>1, <2>2
    <2>4. /\ e \in Event
          /\ \A k \in Kind : e.units[k] <= LeftOver(g, src)[k]
          /\ SumFunctionOnSet(e.units, Kind) = n
          /\ n > 0 => e.paid = Share(g, rw, mn, n)
      BY <2>1, EventSound
    <2>5. QED BY <2>3, <2>4
  <1>3. n = 0 => e.paid = 0
    BY DEF EventOf, NoEvent
  <1> HIDE DEF e
  <1>4. e.units \in [Kind -> Nat] /\ e.paid \in Int
    BY <1>2 DEF Event
  <1>5. /\ src2 = [c \in Class |-> IF c = class THEN [k \in Kind |-> src[class][k] + e.units[k]]
                                          ELSE src[c]]
        /\ rw2 = [c \in Class |-> IF c = class THEN rw[c] + n ELSE rw[c]]
        /\ mn2 = [c \in Class |-> IF c = class THEN mn[c] + e.paid ELSE mn[c]]
    BY DEF Added, e
  <1>6. BooksTyped(src2, rw2, mn2)
    <2>1. src2 \in [Class -> [Kind -> Nat]]
      BY <1>1, <1>4, <1>5
    <2>2. rw2 \in [Class -> Nat] /\ mn2 \in [Class -> Int]
      BY <1>1, <1>4, <1>5
    <2>3. QED BY <2>1, <2>2 DEF BooksTyped
  <1>7. /\ AllOfThem(rw) \in Nat /\ AllOfThem(mn) \in Int
        /\ AllOfThem(rw2) = AllOfThem(rw) + n
        /\ AllOfThem(mn2) = AllOfThem(mn) + e.paid
    <2>1. /\ "consumed" \in Class /\ "expired" \in Class /\ "cancelled" \in Class
          /\ class = "consumed" \/ class = "expired" \/ class = "cancelled"
      BY DEF Class
    <2>2. QED BY <1>1, <1>4, <1>5, <2>1 DEF AllOfThem
  <1>8. /\ bal + AllOfThem(rw) = IF has THEN Total(g) ELSE 0
        /\ AllOfThem(mn) <= PaidMoney[g]
        /\ has /\ bal = 0 => AllOfThem(mn) = PaidMoney[g]
        /\ \A c \in Class : mn[c] >= 0 /\ SumFunctionOnSet(src[c], Kind) = rw[c]
        /\ \A k \in Kind : LeftOver(g, src)[k] >= 0
    BY DEF GrantSound
  <1>9. \A c \in Class : SumFunctionOnSet(src2[c], Kind) = rw2[c]
    <2> TAKE c \in Class
    <2>1. CASE c # class
      BY <1>5, <1>8, <2>1
    <2>2. CASE c = class
      <3>1. \A k \in Kind : /\ src[c][k] \in Int /\ e.units[k] \in Int
                            /\ src2[c][k] = src[c][k] + e.units[k]
        BY <1>1, <1>4, <1>5, <2>2
      <3>2. SumFunctionOnSet(src2[c], Kind)
              = SumFunctionOnSet(src[c], Kind) + SumFunctionOnSet(e.units, Kind)
        BY <1>1, <3>1, SumPlus
      <3>3. rw2[c] = rw[c] + n
        BY <1>5, <2>2
      <3>4. QED BY <1>2, <1>8, <3>2, <3>3
    <2>3. QED BY <2>1, <2>2
  <1>10. \A k \in Kind : LeftOver(g, src2)[k] >= 0
    <2> TAKE k \in Kind
    <2>1. /\ "consumed" \in Class /\ "expired" \in Class /\ "cancelled" \in Class
          /\ class = "consumed" \/ class = "expired" \/ class = "cancelled"
      BY DEF Class
    <2>2. /\ src2["consumed"][k] =
               src["consumed"][k] + (IF class = "consumed" THEN e.units[k] ELSE 0)
          /\ src2["expired"][k] =
               src["expired"][k] + (IF class = "expired" THEN e.units[k] ELSE 0)
          /\ src2["cancelled"][k] =
               src["cancelled"][k] + (IF class = "cancelled" THEN e.units[k] ELSE 0)
      BY <1>1, <1>4, <1>5, <2>1
    <2>3. /\ src["consumed"][k] \in Nat /\ src["expired"][k] \in Nat
          /\ src["cancelled"][k] \in Nat /\ e.units[k] \in Nat /\ Quantity[g][k] \in Nat
      BY <1>1, <1>4, <2>1
    <2>4. LeftOver(g, src2)[k] = LeftOver(g, src)[k] - e.units[k]
      BY <2>1, <2>2, <2>3 DEF LeftOver
    <2>5. LeftOver(g, src)[k] \in Int /\ e.units[k] <= LeftOver(g, src)[k]
      BY <1>2, <2>3 DEF LeftOver
    <2>6. QED BY <2>3, <2>4, <2>5
  <1>11. \A c \in Class : mn2[c] >= 0
    BY <1>5, <1>8
  <1>12. /\ AllOfThem(mn2) <= PaidMoney[g]
         /\ has /\ bal - n = 0 => AllOfThem(mn2) = PaidMoney[g]
    <2>1. CASE n = 0
      BY <1>3, <1>7, <1>8, <2>1
    <2>2. CASE n > 0
      <3>1. AllOfThem(rw) + n <= Total(g) /\ (bal - n = 0 <=> AllOfThem(rw) + n = Total(g))
        <4>1. has
          BY <1>2, <2>2
        <4>2. bal + AllOfThem(rw) = Total(g)
          BY <1>8, <4>1
        <4>3. Total(g) \in Nat /\ AllOfThem(rw) \in Nat
          BY <1>1, <1>7
        <4>4. QED BY <4>2, <4>3
      <3>2. PICK used \in Nat, p \in Nat, all \in Nat :
              used = AllOfThem(rw) + n /\ p = PaidMoney[g] /\ all = Total(g)
        BY <1>1, <1>7
      <3>3. AllOfThem(mn2) = (p * used) \div all
        <4>1. PICK q \in Int : q = (p * used) \div all
          <5>1. p * used \in Nat /\ all > 0
            BY <1>1, <3>2
          <5>2. QED BY <5>1
        <4>2. e.paid = q - AllOfThem(mn)
          BY <1>2, <2>2, <3>2, <4>1 DEF Share
        <4>3. QED BY <1>4, <1>7, <4>1, <4>2
      <3>4. (p * used) \div all <= p /\ (p * all) \div all = p
        BY <1>1, <3>1, <3>2, TargetIsBounded
      <3>5. QED BY <3>1, <3>2, <3>3, <3>4
    <2>3. QED BY <2>1, <2>2
  <1>13. bal - n + AllOfThem(rw2) = IF has THEN Total(g) ELSE 0
    BY <1>1, <1>7, <1>8
  <1>14. QED BY <1>6, <1>9, <1>10, <1>11, <1>12, <1>13 DEF GrantSound

LEMMA EventForIs ==
  ASSUME Typed, NEW g \in Grant, NEW n \in Nat
  PROVE  EventFor(g, n) = EventOf(g, source[g], row[g], money[g], n)
  <1>1. row[g] \in [Class -> Int] /\ money[g] \in [Class -> Int]
    BY DEF Typed
  <1>2. Sum(row[g]) = AllOfThem(row[g]) /\ Sum(money[g]) = AllOfThem(money[g])
    BY <1>1, SumOfClasses
  <1>3. Left(g) = LeftOver(g, source[g])
    BY DEF Left, LeftOver
  <1>4. PaidShare(g, n) = Share(g, row[g], money[g], n)
    BY <1>2 DEF PaidShare, CumulativeShare, Share
  <1>5. QED BY <1>3, <1>4 DEF EventFor, EventOf

LEMMA GrantTyped ==
  ASSUME Typed, BooksSound, NEW g \in Grant
  PROVE  /\ BooksTyped(source[g], row[g], money[g])
         /\ (g \in issued) \in BOOLEAN
         /\ owned[g] \in Nat /\ onHold[g] \in Nat
         /\ GrantSound(g, g \in issued, owned[g], onHold[g], source[g], row[g], money[g])
  BY DEF Typed, BooksSound, BooksTyped

LEMMA EventForIsSound ==
  ASSUME Typed, BooksSound, NEW g \in Grant, NEW n \in Nat, n <= owned[g]
  PROVE  /\ EventFor(g, n) \in Event
         /\ SumFunctionOnSet(EventFor(g, n).units, Kind) = n
  <1>1. /\ BooksTyped(source[g], row[g], money[g])
        /\ (g \in issued) \in BOOLEAN
        /\ owned[g] \in Nat /\ onHold[g] \in Nat
        /\ GrantSound(g, g \in issued, owned[g], onHold[g], source[g], row[g], money[g])
    BY GrantTyped
  <1> DEFINE e == EventOf(g, source[g], row[g], money[g], n)
  <1>2. e \in Event /\ SumFunctionOnSet(e.units, Kind) = n
    <2>1. /\ owned[g] + AllOfThem(row[g]) \in {0, Total(g)}
          /\ \A c \in Class : SumFunctionOnSet(source[g][c], Kind) = row[g][c]
          /\ \A k \in Kind : LeftOver(g, source[g])[k] >= 0
      BY <1>1 DEF GrantSound
    <2>2. QED BY <1>1, <2>1, EventSound
  <1> HIDE DEF e
  <1>3. EventFor(g, n) = e
    BY EventForIs DEF e
  <1>4. QED BY <1>2, <1>3

(* Attribution of n[g] units of every grant keeps the books.               *)
LEMMA AttributeKeepsBooks ==
  ASSUME Typed, BooksSound, NEW class \in Class, NEW n \in [Grant -> Nat],
         Attribute(class, n), issued' = issued, \A g \in Grant : n[g] <= owned[g],
         \A g \in Grant : owned'[g] = owned[g] - n[g],
         onHold' \in [Grant -> Nat], \A g \in Grant : onHold'[g] <= owned[g] - n[g]
  PROVE  /\ BooksSound'
         /\ source' \in [Grant -> [Class -> [Kind -> Nat]]]
         /\ row' \in [Grant -> [Class -> Nat]] /\ money' \in [Grant -> [Class -> Int]]
         /\ \A g \in Grant : row'[g]["expired"] =
              row[g]["expired"] + (IF class = "expired" THEN n[g] ELSE 0)
  <1>0. /\ source \in [Grant -> [Class -> [Kind -> Nat]]]
        /\ row \in [Grant -> [Class -> Nat]] /\ money \in [Grant -> [Class -> Int]]
    BY DEF Typed
  <1>1. ASSUME NEW g \in Grant
        PROVE  /\ BooksTyped(source'[g], row'[g], money'[g])
               /\ GrantSound(g, g \in issued, owned[g] - n[g], onHold'[g],
                             source'[g], row'[g], money'[g])
    <2>1. /\ BooksTyped(source[g], row[g], money[g])
          /\ (g \in issued) \in BOOLEAN
          /\ owned[g] \in Nat /\ onHold[g] \in Nat
          /\ GrantSound(g, g \in issued, owned[g], onHold[g], source[g], row[g], money[g])
      BY GrantTyped
    <2> DEFINE e == EventFor(g, n[g])
    <2>2. e = EventOf(g, source[g], row[g], money[g], n[g])
      BY EventForIs
    <2> HIDE DEF e
    <2>3. /\ source'[g] = [c \in Class |->
               IF c = class THEN [k \in Kind |-> source[g][class][k] + e.units[k]]
               ELSE source[g][c]]
          /\ row'[g] = [c \in Class |-> IF c = class THEN row[g][c] + n[g] ELSE row[g][c]]
          /\ money'[g] = [c \in Class |->
               IF c = class THEN money[g][c] + e.paid ELSE money[g][c]]
      <3>1. source[g] \in [Class -> [Kind -> Nat]] /\ row[g] \in [Class -> Nat]
            /\ money[g] \in [Class -> Int]
        BY <1>0
      <3>2. source'[g] = [source[g] EXCEPT ![class] = [k \in Kind |-> @[k] + e.units[k]]]
        BY DEF Attribute, e
      <3>3. row'[g] = [row[g] EXCEPT ![class] = @ + n[g]]
        BY DEF Attribute
      <3>4. money'[g] = [money[g] EXCEPT ![class] = @ + e.paid]
        BY DEF Attribute, e
      <3>5. source'[g] = [c \in Class |->
               IF c = class THEN [k \in Kind |-> source[g][class][k] + e.units[k]]
               ELSE source[g][c]]
        BY <3>1, <3>2
      <3>6. row'[g] = [c \in Class |-> IF c = class THEN row[g][c] + n[g] ELSE row[g][c]]
        BY <3>1, <3>3
      <3>7. money'[g] = [c \in Class |->
               IF c = class THEN money[g][c] + e.paid ELSE money[g][c]]
        BY <3>1, <3>4
      <3>8. QED BY <3>5, <3>6, <3>7
    <2>4. Added(class, n[g], e, source[g], row[g], money[g], source'[g], row'[g], money'[g])
      BY <2>3 DEF Added
    <2>5. Added(class, n[g], EventOf(g, source[g], row[g], money[g], n[g]),
                source[g], row[g], money[g], source'[g], row'[g], money'[g])
      BY <2>2, <2>4
    <2>6. money'[g][class] >= 0
      BY DEF Attribute
    <2>7. n[g] \in Nat /\ n[g] <= owned[g] /\ onHold'[g] \in Nat
          /\ onHold'[g] <= owned[g] - n[g]
      OBVIOUS
    <2>8. QED BY <2>1, <2>5, <2>6, <2>7, AttributionKeepsBooks, ZenonT(60)
  <1>2. BooksSound'
    BY <1>1 DEF BooksSound
  <1>3. /\ source' = [g \in Grant |-> source'[g]]
        /\ row' = [g \in Grant |-> row'[g]]
        /\ money' = [g \in Grant |-> money'[g]]
    BY DEF Attribute
  <1>4. \A g \in Grant : /\ source'[g] \in [Class -> [Kind -> Nat]]
                         /\ row'[g] \in [Class -> Nat] /\ money'[g] \in [Class -> Int]
    BY <1>1 DEF BooksTyped
  <1>5. source' \in [Grant -> [Class -> [Kind -> Nat]]]
    BY <1>3, <1>4
  <1>6. row' \in [Grant -> [Class -> Nat]] /\ money' \in [Grant -> [Class -> Int]]
    BY <1>3, <1>4
  <1>7. \A g \in Grant : row'[g]["expired"] =
              row[g]["expired"] + (IF class = "expired" THEN n[g] ELSE 0)
    BY <1>0 DEF Attribute, Class
  <1>8. QED BY <1>2, <1>5, <1>6, <1>7

-----------------------------------------------------------------------------
(* What is held.                                                           *)
LEMMA HeldParts ==
  ASSUME Typed, NEW g \in Grant
  PROVE  /\ \A r \in Request : Reserved(r, g) \in Nat
         /\ \A c \in Case : Kept(c, g) \in Nat
         /\ IsFiniteSet(Request) /\ IsFiniteSet(Case)
         /\ Sum(ReservedOf(g)) = SumFunctionOnSet(ReservedOf(g), Request)
         /\ Sum(KeptOf(g)) = SumFunctionOnSet(KeptOf(g), Case)
         /\ Sum(ReservedOf(g)) \in Nat /\ Sum(KeptOf(g)) \in Nat
  <1>1. \A r \in Request : hold[r].amounts[g] \in Nat
    BY DEF Typed, Holding
  <1>2. \A c \in Case : case[c].amount \in Nat
    BY DEF Typed, Keeping
  <1>3. \A r \in Request : Reserved(r, g) \in Nat
    BY <1>1 DEF Reserved
  <1>4. \A c \in Case : Kept(c, g) \in Nat
    BY <1>2 DEF Kept
  <1>5. IsFiniteSet(Request) /\ IsFiniteSet(Case)
    BY CreditsAssumption
  <1>6. /\ Sum(ReservedOf(g)) = SumFunctionOnSet(ReservedOf(g), Request)
        /\ Sum(KeptOf(g)) = SumFunctionOnSet(KeptOf(g), Case)
    BY DEF Sum, ReservedOf, KeptOf
  <1>7. /\ \A r \in Request : ReservedOf(g)[r] \in Nat
        /\ \A c \in Case : KeptOf(g)[c] \in Nat
    BY <1>3, <1>4 DEF ReservedOf, KeptOf
  <1>8. SumFunctionOnSet(ReservedOf(g), Request) \in Nat
    BY <1>5, <1>7, SumNat
  <1>9. SumFunctionOnSet(KeptOf(g), Case) \in Nat
    BY <1>5, <1>7, SumNat
  <1>10. QED BY <1>3, <1>4, <1>5, <1>6, <1>8, <1>9

LEMMA ReservedWithinHold ==
  ASSUME Typed, HeldExplained, NEW g \in Grant
  PROVE  /\ \A r \in Request : Reserved(r, g) <= onHold[g]
         /\ \A c \in Case : Kept(c, g) <= onHold[g]
  <1>1. /\ Sum(ReservedOf(g)) \in Nat /\ Sum(KeptOf(g)) \in Nat
        /\ onHold[g] = Sum(ReservedOf(g)) + Sum(KeptOf(g))
        /\ Sum(ReservedOf(g)) = SumFunctionOnSet(ReservedOf(g), Request)
        /\ Sum(KeptOf(g)) = SumFunctionOnSet(KeptOf(g), Case)
        /\ IsFiniteSet(Request) /\ IsFiniteSet(Case)
    BY HeldParts DEF HeldExplained
  <1>2. \A r \in Request : ReservedOf(g)[r] \in Nat /\ ReservedOf(g)[r] = Reserved(r, g)
    BY HeldParts DEF ReservedOf
  <1>3. \A c \in Case : KeptOf(g)[c] \in Nat /\ KeptOf(g)[c] = Kept(c, g)
    BY HeldParts DEF KeptOf
  <1>4. ASSUME NEW r \in Request
        PROVE  ReservedOf(g)[r] <= SumFunctionOnSet(ReservedOf(g), Request)
    BY <1>1, <1>2, SumAtLeast
  <1>5. ASSUME NEW c \in Case
        PROVE  KeptOf(g)[c] <= SumFunctionOnSet(KeptOf(g), Case)
    BY <1>1, <1>3, SumAtLeast
  <1>6. QED BY <1>1, <1>2, <1>3, <1>4, <1>5

(* One request, or one case, changes what it holds.                        *)
LEMMA ReservedMoves ==
  ASSUME Typed, Typed', NEW r \in Request,
         \A s \in Request \ {r} : hold'[s] = hold[s], NEW g \in Grant
  PROVE  Sum(ReservedOf(g))' = Sum(ReservedOf(g)) + Reserved(r, g)' - Reserved(r, g)
  <1>1. /\ IsFiniteSet(Request)
        /\ Sum(ReservedOf(g)) = SumFunctionOnSet(ReservedOf(g), Request)
        /\ \A s \in Request : Reserved(s, g) \in Nat
    BY HeldParts
  <1>2. /\ Sum(ReservedOf(g))' = SumFunctionOnSet(ReservedOf(g)', Request)
        /\ \A s \in Request : Reserved(s, g)' \in Nat
    <2>1. Sum(ReservedOf(g))' = SumFunctionOnSet(ReservedOf(g)', Request)
      BY DEF Sum, ReservedOf
    <2>2. \A s \in Request : hold'[s].amounts[g] \in Nat
      BY DEF Typed, Holding
    <2>3. QED BY <2>1, <2>2 DEF Reserved
  <1>3. \A s \in Request : /\ ReservedOf(g)[s] = Reserved(s, g)
                           /\ ReservedOf(g)'[s] = Reserved(s, g)'
    BY DEF ReservedOf
  <1>4. \A s \in Request \ {r} : Reserved(s, g)' = Reserved(s, g)
    BY DEF Reserved
  <1> DEFINE f == ReservedOf(g)
             h == ReservedOf(g)'
  <1>5. /\ \A s \in Request : f[s] \in Int /\ h[s] \in Int
        /\ \A s \in Request \ {r} : f[s] = h[s]
        /\ f[r] = Reserved(r, g) /\ h[r] = Reserved(r, g)'
    BY <1>1, <1>2, <1>3, <1>4
  <1> HIDE DEF f, h
  <1>6. SumFunctionOnSet(h, Request) = SumFunctionOnSet(f, Request) + h[r] - f[r]
    BY <1>1, <1>5, SumChange
  <1>7. QED BY <1>1, <1>2, <1>5, <1>6 DEF f, h

LEMMA KeptMoves ==
  ASSUME Typed, Typed', NEW c \in Case,
         \A d \in Case \ {c} : case'[d] = case[d], NEW g \in Grant
  PROVE  Sum(KeptOf(g))' = Sum(KeptOf(g)) + Kept(c, g)' - Kept(c, g)
  <1>1. /\ IsFiniteSet(Case)
        /\ Sum(KeptOf(g)) = SumFunctionOnSet(KeptOf(g), Case)
        /\ \A d \in Case : Kept(d, g) \in Nat
    BY HeldParts
  <1>2. /\ Sum(KeptOf(g))' = SumFunctionOnSet(KeptOf(g)', Case)
        /\ \A d \in Case : Kept(d, g)' \in Nat
    <2>1. Sum(KeptOf(g))' = SumFunctionOnSet(KeptOf(g)', Case)
      BY DEF Sum, KeptOf
    <2>2. \A d \in Case : case'[d].amount \in Nat
      BY DEF Typed, Keeping
    <2>3. QED BY <2>1, <2>2 DEF Kept
  <1>3. \A d \in Case : /\ KeptOf(g)[d] = Kept(d, g)
                        /\ KeptOf(g)'[d] = Kept(d, g)'
    BY DEF KeptOf
  <1>4. \A d \in Case \ {c} : Kept(d, g)' = Kept(d, g)
    BY DEF Kept
  <1> DEFINE f == KeptOf(g)
             h == KeptOf(g)'
  <1>5. /\ \A d \in Case : f[d] \in Int /\ h[d] \in Int
        /\ \A d \in Case \ {c} : f[d] = h[d]
        /\ f[c] = Kept(c, g) /\ h[c] = Kept(c, g)'
    BY <1>1, <1>2, <1>3, <1>4
  <1> HIDE DEF f, h
  <1>6. SumFunctionOnSet(h, Case) = SumFunctionOnSet(f, Case) + h[c] - f[c]
    BY <1>1, <1>5, SumChange
  <1>7. QED BY <1>1, <1>2, <1>5, <1>6 DEF f, h

(* What is free of a grant, and what a request may spend.                  *)
LEMMA FreeIsNat ==
  ASSUME Typed, BooksSound
  PROVE  /\ \A g \in Grant : FreeOf(g) \in Nat
         /\ Spendable \in [Grant -> Nat]
         /\ \A g \in Grant : Spendable[g] <= FreeOf(g)
  <1>1. \A g \in Grant : owned[g] \in Nat /\ onHold[g] \in Nat /\ onHold[g] <= owned[g]
    BY DEF Typed, BooksSound, GrantSound
  <1>2. \A g \in Grant : FreeOf(g) \in Nat
    BY <1>1 DEF FreeOf
  <1>3. \A g \in Grant : Spendable[g] = IF Usable(g) THEN FreeOf(g) ELSE 0
    BY DEF Spendable
  <1>4. \A g \in Grant : Spendable[g] \in Nat /\ Spendable[g] <= FreeOf(g)
    BY <1>2, <1>3
  <1>5. Spendable = [g \in Grant |-> Spendable[g]]
    BY DEF Spendable
  <1>6. Spendable \in [Grant -> Nat]
    BY <1>4, <1>5
  <1>7. QED BY <1>2, <1>4, <1>6

-----------------------------------------------------------------------------
(* What a step leaves alone stays sound.                                   *)
LEMMA BooksFrame ==
  ASSUME BooksSound, UNCHANGED <<issued, owned, onHold, source, row, money>>
  PROVE  BooksSound'
  BY DEF BooksSound

LEMMA HeldFrame ==
  ASSUME HeldExplained, UNCHANGED <<onHold, hold, case>>
  PROVE  HeldExplained'
  BY DEF HeldExplained, ReservedOf, KeptOf, Reserved, Kept

LEMMA EventsFrame ==
  ASSUME EventsSound, UNCHANGED <<event, reversed, hold>>
  PROVE  EventsSound'
  BY DEF EventsSound

LEMMA KeysFrame ==
  ASSUME KeysSpent, UNCHANGED <<row, expiries>>
  PROVE  KeysSpent'
  BY DEF KeysSpent

LEMMA KeysAge ==
  ASSUME KeysSpent, Typed, UNCHANGED expiries, row' \in [Grant -> [Class -> Nat]],
         \A g \in Grant : row'[g]["expired"] >= row[g]["expired"]
  PROVE  KeysSpent'
  <1>1. \A g \in Grant : row[g]["expired"] \in Nat /\ row'[g]["expired"] \in Nat
    BY DEF Typed, Class
  <1>2. SUFFICES ASSUME NEW e \in expiries
                 PROVE  \E g \in Grant, m \in Nat, n \in Nat :
                          e = <<<<g, m>>, n>> /\ m < row'[g]["expired"]
    BY DEF KeysSpent
  <1>3. PICK g \in Grant, m \in Nat, n \in Nat :
          e = <<<<g, m>>, n>> /\ m < row[g]["expired"]
    BY DEF KeysSpent
  <1>4. m < row'[g]["expired"]
    BY <1>1, <1>3
  <1>5. QED BY <1>3, <1>4

(* An expiry to come meets no used key: its journal is new.                *)
LEMMA KeyIsNew ==
  ASSUME Typed, KeysSpent, NEW g \in Grant, NEW n
  PROVE  ~KeyConflict(g, n) /\ ExpiryDebit(g, n) = n
  <1>1. \A e \in expiries : e[1] # ExpiryKey(g)
    <2> SUFFICES ASSUME NEW e \in expiries, e[1] = ExpiryKey(g) PROVE FALSE
      OBVIOUS
    <2>1. PICK h \in Grant, m \in Nat, i \in Nat :
            e = <<<<h, m>>, i>> /\ m < row[h]["expired"]
      BY DEF KeysSpent
    <2>2. e[1] = <<h, m>>
      BY <2>1
    <2>3. h = g /\ m = row[g]["expired"]
      BY <2>2 DEF ExpiryKey
    <2>4. row[g]["expired"] \in Nat
      BY DEF Typed, Class
    <2>5. QED BY <2>1, <2>3, <2>4
  <1>2. <<ExpiryKey(g), n>> \notin expiries
    <2>1. <<ExpiryKey(g), n>>[1] = ExpiryKey(g)
      OBVIOUS
    <2>2. QED BY <1>1, <2>1
  <1>3. QED BY <1>1, <1>2 DEF KeyConflict, ExpiryDebit

-----------------------------------------------------------------------------
(* Every operation keeps the invariant.                                    *)

LEMMA TickKeeps ==
  ASSUME CreditsInv, TimePasses PROVE CreditsInv'
  <1>1. Typed'
    BY CreditsAssumption DEF CreditsInv, Typed, TimePasses
  <1>2. QED BY <1>1, BooksFrame, HeldFrame, EventsFrame, KeysFrame DEF CreditsInv, TimePasses

LEMMA IssueKeeps ==
  ASSUME CreditsInv, NEW g \in Grant, IssueGrant(g) PROVE CreditsInv'
  <1>1. Total(g) \in Nat /\ Total(g) > 0 /\ PaidMoney[g] \in Nat
    BY GrantConstants
  <1>2. Typed'
    BY <1>1 DEF CreditsInv, Typed, IssueGrant
  <1>3. BooksSound'
    <2> SUFFICES ASSUME NEW h \in Grant
                 PROVE  GrantSound(h, h \in issued', owned'[h], onHold'[h], source'[h],
                                   row'[h], money'[h])
      BY DEF BooksSound
    <2>1. GrantSound(h, h \in issued, owned[h], onHold[h], source[h], row[h], money[h])
      BY DEF CreditsInv, BooksSound
    <2>2. /\ owned \in [Grant -> Nat] /\ onHold[h] \in Nat
          /\ row[h]["consumed"] \in Nat /\ row[h]["expired"] \in Nat
          /\ row[h]["cancelled"] \in Nat
      BY DEF CreditsInv, Typed, Class
    <2>3. /\ onHold' = onHold /\ source' = source /\ row' = row /\ money' = money
          /\ issued' = issued \cup {g} /\ g \notin issued
          /\ owned' = [owned EXCEPT ![g] = Total(g)]
      BY DEF IssueGrant
    <2>4. CASE h # g
      <3>1. (h \in issued') = (h \in issued) /\ owned'[h] = owned[h]
        BY <2>2, <2>3, <2>4
      <3>2. QED BY <2>1, <2>3, <3>1
    <2>5. CASE h = g
      <3>1. h \in issued' /\ owned'[h] = Total(h) /\ h \notin issued /\ owned[h] \in Nat
        BY <2>2, <2>3, <2>5
      <3>2. onHold[h] = 0 /\ owned[h] = 0 /\ AllOfThem(row[h]) = 0
        BY <2>1, <2>2, <3>1 DEF GrantSound, AllOfThem
      <3>3. QED BY <1>1, <2>1, <2>3, <2>5, <3>1, <3>2 DEF GrantSound
    <2>6. QED BY <2>4, <2>5
  <1>4. QED BY <1>2, <1>3, HeldFrame, EventsFrame, KeysFrame DEF CreditsInv, IssueGrant

LEMMA ReserveKeeps ==
  ASSUME CreditsInv, NEW r \in Request, NEW n \in Int, ReserveCredits(r, n)
  PROVE  CreditsInv'
  <1> DEFINE take == FefoTake(Spendable, n)
  <1>0. /\ Typed /\ BooksSound /\ HeldExplained /\ EventsSound /\ KeysSpent
    BY DEF CreditsInv
  <1>1. /\ hold[r].status = "none"
        /\ onHold' = [g \in Grant |-> onHold[g] + take[g]]
        /\ hold' = [hold EXCEPT ![r] = [status |-> "active", amounts |-> take]]
        /\ UNCHANGED <<clock, issued, owned, source, row, money, event, reversed, result,
                       case, expiries, corrected>>
    BY DEF ReserveCredits
  <1>2. /\ take \in [Grant -> Nat]
        /\ \A g \in Grant : FreeOf(g) \in Nat /\ take[g] <= FreeOf(g)
    <2>1. /\ Spendable \in [Grant -> Nat]
          /\ \A g \in Grant : FreeOf(g) \in Nat /\ Spendable[g] <= FreeOf(g)
      BY <1>0, FreeIsNat
    <2>2. take \in [Grant -> Nat] /\ \A g \in Grant : take[g] <= Spendable[g]
      BY <2>1, FefoTakes
    <2> HIDE DEF take
    <2>3. QED BY <2>1, <2>2
  <1> HIDE DEF take
  <1>3. \A g \in Grant : owned[g] \in Nat /\ onHold[g] \in Nat
    BY <1>0 DEF Typed
  <1>4. [status |-> "active", amounts |-> take] \in Holding
    BY <1>2 DEF Holding
  <1>5. Typed'
    <2>1. onHold' \in [Grant -> Nat]
      BY <1>1, <1>2, <1>3
    <2>2. hold' \in [Request -> Holding]
      BY <1>0, <1>1, <1>4 DEF Typed
    <2>3. QED BY <1>0, <1>1, <2>1, <2>2 DEF Typed
  <1>6. BooksSound'
    <2>1. \A g \in Grant : onHold'[g] <= owned[g]
      BY <1>1, <1>2, <1>3 DEF FreeOf
    <2>2. QED BY <1>0, <1>1, <2>1 DEF BooksSound, GrantSound
  <1>7. HeldExplained'
    <2>1. ASSUME NEW g \in Grant
          PROVE  onHold'[g] = Sum(ReservedOf(g))' + Sum(KeptOf(g))'
      <3>1. onHold[g] = Sum(ReservedOf(g)) + Sum(KeptOf(g))
        BY <1>0 DEF HeldExplained
      <3>2. Sum(ReservedOf(g)) \in Nat /\ Sum(KeptOf(g)) \in Nat
        BY <1>0, HeldParts
      <3>3. Sum(KeptOf(g))' = Sum(KeptOf(g))
        BY <1>1 DEF KeptOf, Kept
      <3>4. Sum(ReservedOf(g))' = Sum(ReservedOf(g)) + Reserved(r, g)' - Reserved(r, g)
        <4>1. \A s \in Request \ {r} : hold'[s] = hold[s]
          BY <1>0, <1>1 DEF Typed
        <4>2. QED BY <1>0, <1>5, <4>1, ReservedMoves
      <3>5. hold'[r] = [status |-> "active", amounts |-> take]
        BY <1>0, <1>1 DEF Typed
      <3>6. Reserved(r, g)' = take[g] /\ Reserved(r, g) = 0
        BY <1>1, <3>5 DEF Reserved
      <3>7. onHold'[g] = onHold[g] + take[g] /\ take[g] \in Nat
        BY <1>1, <1>2
      <3>8. QED BY <3>1, <3>2, <3>3, <3>4, <3>6, <3>7
    <2>2. QED BY <1>0, <1>1, <2>1 DEF HeldExplained
  <1>8. EventsSound'
    <2>1. \A s \in Request : hold'[s].status \in {"none", "active"} =>
                             hold[s].status \in {"none", "active"}
      BY <1>0, <1>1 DEF Typed
    <2>2. QED BY <1>0, <1>1, <2>1 DEF EventsSound
  <1>9. KeysSpent'
    BY <1>0, <1>1, KeysFrame
  <1>10. QED BY <1>5, <1>6, <1>7, <1>8, <1>9 DEF CreditsInv

LEMMA ReleaseKeeps ==
  ASSUME CreditsInv, NEW r \in Request, ReleaseCredits(r)
  PROVE  CreditsInv'
  <1>0. /\ Typed /\ BooksSound /\ HeldExplained /\ EventsSound /\ KeysSpent
    BY DEF CreditsInv
  <1>1. /\ hold[r].status = "active"
        /\ onHold' = [g \in Grant |-> onHold[g] - hold[r].amounts[g]]
        /\ hold' = [hold EXCEPT ![r].status = "released"]
        /\ UNCHANGED <<clock, issued, owned, source, row, money, event, reversed, result,
                       case, expiries, corrected>>
    BY DEF ReleaseCredits
  <1>2. \A g \in Grant : /\ owned[g] \in Nat /\ onHold[g] \in Nat
                         /\ hold[r].amounts[g] \in Nat /\ hold[r].amounts[g] <= onHold[g]
                         /\ onHold[g] <= owned[g]
    <2>1. \A g \in Grant : Reserved(r, g) <= onHold[g] /\ Reserved(r, g) = hold[r].amounts[g]
      BY <1>0, <1>1, ReservedWithinHold DEF Reserved
    <2>2. \A g \in Grant : onHold[g] <= owned[g]
      BY <1>0 DEF BooksSound, GrantSound
    <2>3. \A g \in Grant : owned[g] \in Nat /\ onHold[g] \in Nat /\ hold[r].amounts[g] \in Nat
      BY <1>0 DEF Typed, Holding
    <2>4. QED BY <2>1, <2>2, <2>3
  <1>3. hold'[r].status = "released" /\ \A s \in Request \ {r} : hold'[s] = hold[s]
    BY <1>0, <1>1 DEF Typed, Holding
  <1>4. Typed'
    <2>1. onHold' \in [Grant -> Nat]
      BY <1>1, <1>2
    <2>2. hold' \in [Request -> Holding]
      BY <1>0, <1>1 DEF Typed, Holding
    <2>3. QED BY <1>0, <1>1, <2>1, <2>2 DEF Typed
  <1>5. BooksSound'
    <2>1. \A g \in Grant : onHold'[g] <= owned[g]
      BY <1>1, <1>2
    <2>2. QED BY <1>0, <1>1, <2>1 DEF BooksSound, GrantSound
  <1>6. HeldExplained'
    <2>1. ASSUME NEW g \in Grant
          PROVE  onHold'[g] = Sum(ReservedOf(g))' + Sum(KeptOf(g))'
      <3>1. onHold[g] = Sum(ReservedOf(g)) + Sum(KeptOf(g))
        BY <1>0 DEF HeldExplained
      <3>2. Sum(ReservedOf(g)) \in Nat /\ Sum(KeptOf(g)) \in Nat
        BY <1>0, HeldParts
      <3>3. Sum(KeptOf(g))' = Sum(KeptOf(g))
        BY <1>1 DEF KeptOf, Kept
      <3>4. Sum(ReservedOf(g))' = Sum(ReservedOf(g)) + Reserved(r, g)' - Reserved(r, g)
        BY <1>0, <1>3, <1>4, ReservedMoves
      <3>5. Reserved(r, g)' = 0 /\ Reserved(r, g) = hold[r].amounts[g]
        BY <1>1, <1>3 DEF Reserved
      <3>6. onHold'[g] = onHold[g] - hold[r].amounts[g] /\ hold[r].amounts[g] \in Nat
        BY <1>1, <1>2
      <3>7. QED BY <3>1, <3>2, <3>3, <3>4, <3>5, <3>6
    <2>2. QED BY <1>0, <1>1, <2>1 DEF HeldExplained
  <1>7. EventsSound'
    <2>1. \A s \in Request : hold'[s].status \in {"none", "active"} =>
                             hold[s].status \in {"none", "active"}
      BY <1>3
    <2>2. QED BY <1>0, <1>1, <2>1 DEF EventsSound
  <1>8. KeysSpent'
    BY <1>0, <1>1, KeysFrame
  <1>9. QED BY <1>4, <1>5, <1>6, <1>7, <1>8 DEF CreditsInv

(* A settlement takes of a grant at most what the request holds of it and  *)
(* what is free.                                                           *)
LEMMA DebitsBounded ==
  ASSUME Typed, BooksSound, HeldExplained, NEW r \in Request, hold[r].status = "active",
         NEW actual \in Int
  PROVE  /\ Debits(r, actual) \in [Grant -> Nat]
         /\ \A g \in Grant :
              /\ owned[g] \in Nat /\ onHold[g] \in Nat /\ onHold[g] <= owned[g]
              /\ hold[r].amounts[g] \in Nat /\ hold[r].amounts[g] <= onHold[g]
              /\ Debits(r, actual)[g] <= owned[g] - onHold[g] + hold[r].amounts[g]
  <1> DEFINE own == FefoTake(hold[r].amounts, actual)
             more == FefoTake(Spendable, actual - Sum(own))
  <1>1. hold[r].amounts \in [Grant -> Nat]
    BY DEF Typed, Holding
  <1>2. own \in [Grant -> Nat] /\ \A g \in Grant : own[g] <= hold[r].amounts[g]
    BY <1>1, FefoTakes
  <1>3. Sum(own) \in Nat
    <2>1. DOMAIN own = Grant /\ IsFiniteSet(Grant) /\ \A g \in Grant : own[g] \in Nat
      BY <1>2, CreditsAssumption
    <2> HIDE DEF own
    <2>2. QED BY <2>1, SumIsNat
  <1>4. more \in [Grant -> Nat] /\ \A g \in Grant : more[g] <= FreeOf(g) /\ FreeOf(g) \in Nat
    <2>1. /\ Spendable \in [Grant -> Nat]
          /\ \A g \in Grant : FreeOf(g) \in Nat /\ Spendable[g] <= FreeOf(g)
      BY FreeIsNat
    <2>2. actual - Sum(own) \in Int
      BY <1>3
    <2>3. more \in [Grant -> Nat] /\ \A g \in Grant : more[g] <= Spendable[g]
      BY <2>1, <2>2, FefoTakes
    <2> HIDE DEF more
    <2>4. QED BY <2>1, <2>3
  <1>5. Debits(r, actual) = [g \in Grant |-> own[g] + more[g]]
    BY DEF Debits, HeldThenFree
  <1> HIDE DEF own, more
  <1>6. Debits(r, actual) \in [Grant -> Nat]
    BY <1>2, <1>4, <1>5
  <1>7. ASSUME NEW g \in Grant
        PROVE  /\ owned[g] \in Nat /\ onHold[g] \in Nat /\ onHold[g] <= owned[g]
               /\ hold[r].amounts[g] \in Nat /\ hold[r].amounts[g] <= onHold[g]
               /\ Debits(r, actual)[g] <= owned[g] - onHold[g] + hold[r].amounts[g]
    <2>1. owned[g] \in Nat /\ onHold[g] \in Nat /\ onHold[g] <= owned[g]
      BY DEF Typed, BooksSound, GrantSound
    <2>2. hold[r].amounts[g] \in Nat
      BY <1>1
    <2>3. hold[r].amounts[g] <= onHold[g]
      <3>1. Reserved(r, g) = hold[r].amounts[g]
        BY DEF Reserved
      <3>2. Reserved(r, g) <= onHold[g]
        BY ReservedWithinHold
      <3>3. QED BY <3>1, <3>2
    <2>4. own[g] + more[g] <= owned[g] - onHold[g] + hold[r].amounts[g]
      <3>1. own[g] \in Nat /\ more[g] \in Nat /\ own[g] <= hold[r].amounts[g]
            /\ more[g] <= owned[g] - onHold[g]
        BY <1>2, <1>4 DEF FreeOf
      <3>2. QED BY <2>1, <2>2, <3>1
    <2>5. QED BY <1>5, <2>1, <2>2, <2>3, <2>4
  <1>8. QED BY <1>6, <1>7

LEMMA SettleKeeps ==
  ASSUME CreditsInv, NEW r \in Request, NEW actual \in Int, SettleCredits(r, actual)
  PROVE  CreditsInv'
  <1> DEFINE take == Debits(r, actual)
  <1>0. /\ Typed /\ BooksSound /\ HeldExplained /\ EventsSound /\ KeysSpent
    BY DEF CreditsInv
  <1>1. /\ hold[r].status = "active"
        /\ owned' = [g \in Grant |-> owned[g] - take[g]]
        /\ onHold' = [g \in Grant |-> onHold[g] - hold[r].amounts[g]]
        /\ \E s \in {"released", "captured"} : hold' = [hold EXCEPT ![r].status = s]
        /\ Attribute("consumed", take)
        /\ event' = [event EXCEPT ![r] = [g \in Grant |-> EventFor(g, take[g])]]
        /\ DOMAIN result' = DOMAIN result
        /\ UNCHANGED <<clock, issued, reversed, case, expiries, corrected>>
    BY DEF SettleCredits
  <1>2. /\ take \in [Grant -> Nat]
        /\ \A g \in Grant :
              /\ owned[g] \in Nat /\ onHold[g] \in Nat /\ onHold[g] <= owned[g]
              /\ hold[r].amounts[g] \in Nat /\ hold[r].amounts[g] <= onHold[g]
              /\ take[g] <= owned[g] - onHold[g] + hold[r].amounts[g]
    BY <1>0, <1>1, DebitsBounded
  <1> HIDE DEF take
  <1>3. /\ \A g \in Grant : take[g] \in Nat /\ take[g] <= owned[g]
        /\ owned' \in [Grant -> Nat] /\ onHold' \in [Grant -> Nat]
        /\ \A g \in Grant : /\ owned'[g] = owned[g] - take[g]
                            /\ onHold'[g] <= owned[g] - take[g]
    BY <1>1, <1>2
  <1>4. /\ BooksSound'
        /\ source' \in [Grant -> [Class -> [Kind -> Nat]]]
        /\ row' \in [Grant -> [Class -> Nat]] /\ money' \in [Grant -> [Class -> Int]]
        /\ \A g \in Grant : row'[g]["expired"] =
              row[g]["expired"] + (IF "consumed" = "expired" THEN take[g] ELSE 0)
    <2>1. "consumed" \in Class
      BY DEF Class
    <2>2. QED BY <1>0, <1>1, <1>2, <1>3, <2>1, AttributeKeepsBooks
  <1>5. \A g \in Grant : EventFor(g, take[g]) \in Event
    BY <1>0, <1>3, EventForIsSound
  <1>6. /\ hold'[r].status \in {"released", "captured"}
        /\ \A s \in Request \ {r} : hold'[s] = hold[s]
        /\ hold' \in [Request -> Holding]
    <2>1. PICK s \in {"released", "captured"} : hold' = [hold EXCEPT ![r].status = s]
      BY <1>1
    <2>2. hold \in [Request -> Holding] /\ hold[r] \in Holding
      BY <1>0 DEF Typed
    <2>3. [hold[r] EXCEPT !.status = s] \in Holding
      BY <2>1, <2>2 DEF Holding
    <2>4. hold' = [hold EXCEPT ![r] = [hold[r] EXCEPT !.status = s]]
      BY <2>1
    <2>5. hold'[r].status = s /\ \A q \in Request \ {r} : hold'[q] = hold[q]
      BY <2>2, <2>4 DEF Holding
    <2>6. QED BY <2>1, <2>2, <2>3, <2>4, <2>5
  <1>7. Typed'
    <2>1. event' \in [Request -> [Grant -> Event]]
      <3>1. [g \in Grant |-> EventFor(g, take[g])] \in [Grant -> Event]
        BY <1>5
      <3>2. QED BY <1>0, <1>1, <3>1 DEF Typed
    <2>2. QED BY <1>0, <1>1, <1>3, <1>4, <1>6, <2>1 DEF Typed
  <1>8. HeldExplained'
    <2>1. ASSUME NEW g \in Grant
          PROVE  onHold'[g] = Sum(ReservedOf(g))' + Sum(KeptOf(g))'
      <3>1. onHold[g] = Sum(ReservedOf(g)) + Sum(KeptOf(g))
        BY <1>0 DEF HeldExplained
      <3>2. Sum(ReservedOf(g)) \in Nat /\ Sum(KeptOf(g)) \in Nat
        BY <1>0, HeldParts
      <3>3. Sum(KeptOf(g))' = Sum(KeptOf(g))
        BY <1>1 DEF KeptOf, Kept
      <3>4. Sum(ReservedOf(g))' = Sum(ReservedOf(g)) + Reserved(r, g)' - Reserved(r, g)
        BY <1>0, <1>6, <1>7, ReservedMoves
      <3>5. Reserved(r, g)' = 0 /\ Reserved(r, g) = hold[r].amounts[g]
        BY <1>1, <1>6 DEF Reserved
      <3>6. onHold'[g] = onHold[g] - hold[r].amounts[g] /\ hold[r].amounts[g] \in Nat
        BY <1>1, <1>2
      <3>7. QED BY <3>1, <3>2, <3>3, <3>4, <3>5, <3>6
    <2>2. QED BY <1>0, <1>1, <2>1 DEF HeldExplained
  <1>9. EventsSound'
    <2> SUFFICES ASSUME NEW s \in Request, NEW g \in Grant
                 PROVE  /\ \A k \in Kind : reversed[s][g].units[k] <= event'[s][g].units[k]
                        /\ hold'[s].status \in {"none", "active"} =>
                             event'[s][g] = NoEvent /\ reversed[s][g] = NoEvent
      BY <1>1 DEF EventsSound
    <2>1. CASE s # r
      <3>1. hold'[s] = hold[s] /\ event'[s] = event[s]
        BY <1>0, <1>1, <1>6, <2>1 DEF Typed
      <3>2. QED BY <1>0, <3>1 DEF EventsSound
    <2>2. CASE s = r
      <3>1. reversed[r][g] = NoEvent /\ \A k \in Kind : NoEvent.units[k] = 0
        BY <1>0, <1>1 DEF EventsSound, NoEvent, NoUnits
      <3>2. event'[r][g] \in Event
        BY <1>7 DEF Typed
      <3>3. \A k \in Kind : event'[r][g].units[k] >= 0
        BY <3>2 DEF Event
      <3>4. QED BY <1>6, <2>2, <3>1, <3>3
    <2>3. QED BY <2>1, <2>2
  <1>10. KeysSpent'
    <2>1. \A g \in Grant : row[g]["expired"] \in Nat
      BY <1>0 DEF Typed, Class
    <2>2. \A g \in Grant : row'[g]["expired"] >= row[g]["expired"]
      BY <1>4, <2>1
    <2>3. QED BY <1>0, <1>1, <1>4, <2>2, KeysAge
  <1>11. QED BY <1>4, <1>7, <1>8, <1>9, <1>10 DEF CreditsInv

LEMMA ExpirableIs ==
  ASSUME Typed, BooksSound, NEW extra \in [Grant -> Nat]
  PROVE  LET units == [g \in Grant |-> owned[g] + extra[g]] IN
         /\ Expirable(units) \in [Grant -> Nat]
         /\ \A g \in Grant : Expirable(units)[g] <= owned[g] + extra[g] - onHold[g]
  <1> DEFINE units == [g \in Grant |-> owned[g] + extra[g]]
  <1>1. \A g \in Grant : owned[g] \in Nat /\ onHold[g] \in Nat /\ onHold[g] <= owned[g]
    BY DEF Typed, BooksSound, GrantSound
  <1>2. \A g \in Grant : units[g] = owned[g] + extra[g]
    OBVIOUS
  <1> HIDE DEF units
  <1>3. \A g \in Grant : Expirable(units)[g] = IF Expired(g) THEN units[g] - onHold[g] ELSE 0
    BY DEF Expirable
  <1>4. \A g \in Grant : /\ Expirable(units)[g] \in Nat
                         /\ Expirable(units)[g] <= owned[g] + extra[g] - onHold[g]
    BY <1>1, <1>2, <1>3
  <1>5. Expirable(units) = [g \in Grant |-> Expirable(units)[g]]
    BY DEF Expirable
  <1>6. Expirable(units) \in [Grant -> Nat]
    BY <1>4, <1>5
  <1>7. QED BY <1>4, <1>6 DEF units

LEMMA ExpireKeeps ==
  ASSUME CreditsInv, ExpireCredits PROVE CreditsInv'
  <1> DEFINE n == Expirable(owned)
             hit == {g \in Grant : n[g] > 0}
  <1>0. /\ Typed /\ BooksSound /\ HeldExplained /\ EventsSound /\ KeysSpent
    BY DEF CreditsInv
  <1>1. /\ owned' = [g \in Grant |-> owned[g] - ExpiryDebit(g, n[g])]
        /\ Attribute("expired", n)
        /\ expiries' = expiries \cup {<<ExpiryKey(g), n[g]>> : g \in hit}
        /\ UNCHANGED <<clock, issued, onHold, hold, event, reversed, result, case, corrected>>
    BY DEF ExpireCredits
  <1>2. /\ n \in [Grant -> Nat]
        /\ \A g \in Grant : owned[g] \in Nat /\ onHold[g] \in Nat /\ n[g] <= owned[g] - onHold[g]
    <2>1. \A g \in Grant : owned[g] \in Nat /\ onHold[g] \in Nat
      BY <1>0 DEF Typed
    <2>2. NoAmounts \in [Grant -> Nat] /\ \A g \in Grant : NoAmounts[g] = 0
      BY DEF NoAmounts
    <2>3. [g \in Grant |-> owned[g] + NoAmounts[g]] = owned
      <3>1. owned = [g \in Grant |-> owned[g]]
        BY <1>0 DEF Typed
      <3>2. \A g \in Grant : owned[g] + NoAmounts[g] = owned[g]
        BY <2>1, <2>2
      <3>3. QED BY <3>1, <3>2
    <2>4. /\ Expirable([g \in Grant |-> owned[g] + NoAmounts[g]]) \in [Grant -> Nat]
          /\ \A g \in Grant : Expirable([h \in Grant |-> owned[h] + NoAmounts[h]])[g]
                                <= owned[g] + NoAmounts[g] - onHold[g]
      BY <1>0, <2>2, ExpirableIs
    <2>5. n \in [Grant -> Nat] /\ \A g \in Grant : n[g] <= owned[g] + NoAmounts[g] - onHold[g]
      BY <2>3, <2>4
    <2> HIDE DEF n
    <2>6. QED BY <2>1, <2>2, <2>5
  <1> HIDE DEF n
  <1>3. \A g \in Grant : ExpiryDebit(g, n[g]) = n[g]
    BY <1>0, KeyIsNew
  <1>4. /\ owned' \in [Grant -> Nat] /\ onHold' \in [Grant -> Nat]
        /\ \A g \in Grant : /\ owned'[g] = owned[g] - n[g] /\ n[g] <= owned[g]
                            /\ onHold'[g] <= owned[g] - n[g]
    <2>1. onHold \in [Grant -> Nat] /\ onHold' = onHold
      BY <1>0, <1>1 DEF Typed
    <2>2. QED BY <1>1, <1>2, <1>3, <2>1
  <1>5. /\ BooksSound'
        /\ source' \in [Grant -> [Class -> [Kind -> Nat]]]
        /\ row' \in [Grant -> [Class -> Nat]] /\ money' \in [Grant -> [Class -> Int]]
        /\ \A g \in Grant : row'[g]["expired"] =
              row[g]["expired"] + (IF "expired" = "expired" THEN n[g] ELSE 0)
    <2>1. "expired" \in Class
      BY DEF Class
    <2>2. QED BY <1>0, <1>1, <1>2, <1>4, <2>1, AttributeKeepsBooks
  <1>6. Typed'
    BY <1>0, <1>1, <1>4, <1>5 DEF Typed
  <1>7. KeysSpent'
    <2>1. \A g \in Grant : /\ row[g]["expired"] \in Nat /\ n[g] \in Nat
                           /\ row'[g]["expired"] = row[g]["expired"] + n[g]
      BY <1>0, <1>2, <1>5 DEF Typed, Class
    <2> SUFFICES ASSUME NEW e \in expiries'
                 PROVE  \E g \in Grant, m \in Nat, i \in Nat :
                          e = <<<<g, m>>, i>> /\ m < row'[g]["expired"]
      BY DEF KeysSpent
    <2>2. CASE e \in expiries
      <3>1. PICK g \in Grant, m \in Nat, i \in Nat :
              e = <<<<g, m>>, i>> /\ m < row[g]["expired"]
        BY <1>0, <2>2 DEF KeysSpent
      <3>2. m < row'[g]["expired"]
        BY <2>1, <3>1
      <3>3. QED BY <3>1, <3>2
    <2>3. CASE e \notin expiries
      <3>1. PICK g \in Grant : e = <<ExpiryKey(g), n[g]>> /\ n[g] > 0
        BY <1>1, <2>3
      <3>2. e = <<<<g, row[g]["expired"]>>, n[g]>> /\ row[g]["expired"] < row'[g]["expired"]
        BY <2>1, <3>1 DEF ExpiryKey
      <3>3. QED BY <2>1, <3>2
    <2>4. QED BY <2>2, <2>3
  <1>8. HeldExplained' /\ EventsSound'
    BY <1>0, <1>1, HeldFrame, EventsFrame
  <1>9. QED BY <1>5, <1>6, <1>7, <1>8 DEF CreditsInv

LEMMA HoldRightsKeeps ==
  ASSUME CreditsInv, NEW c \in Case, NEW g \in Grant, NEW n \in Int, HoldRights(c, g, n)
  PROVE  CreditsInv'
  <1>0. /\ Typed /\ BooksSound /\ HeldExplained /\ EventsSound /\ KeysSpent
    BY DEF CreditsInv
  <1>1. /\ case[c].status = "none" /\ n > 0 /\ n <= FreeOf(g)
        /\ onHold' = [onHold EXCEPT ![g] = @ + n]
        /\ case' = [case EXCEPT ![c] = [status |-> "active", grant |-> g, amount |-> n]]
        /\ UNCHANGED <<clock, issued, owned, source, row, money, hold, event, reversed,
                       result, expiries, corrected>>
    BY DEF HoldRights
  <1>2. /\ onHold \in [Grant -> Nat]
        /\ \A h \in Grant : owned[h] \in Nat /\ onHold[h] \in Nat /\ onHold[h] <= owned[h]
    BY <1>0 DEF Typed, BooksSound, GrantSound
  <1>3. /\ onHold' \in [Grant -> Nat]
        /\ \A h \in Grant : onHold'[h] = onHold[h] + (IF h = g THEN n ELSE 0)
        /\ \A h \in Grant : onHold'[h] <= owned[h]
    BY <1>1, <1>2 DEF FreeOf
  <1>4. /\ case'[c] = [status |-> "active", grant |-> g, amount |-> n]
        /\ \A d \in Case \ {c} : case'[d] = case[d]
        /\ case' \in [Case -> Keeping]
    <2>1. [status |-> "active", grant |-> g, amount |-> n] \in Keeping
      BY <1>1, CreditsAssumption DEF Keeping
    <2>2. QED BY <1>0, <1>1, <2>1 DEF Typed
  <1>5. Typed'
    BY <1>0, <1>1, <1>3, <1>4 DEF Typed
  <1>6. BooksSound'
    BY <1>0, <1>1, <1>3 DEF BooksSound, GrantSound
  <1>7. HeldExplained'
    <2>1. ASSUME NEW h \in Grant
          PROVE  onHold'[h] = Sum(ReservedOf(h))' + Sum(KeptOf(h))'
      <3>1. onHold[h] = Sum(ReservedOf(h)) + Sum(KeptOf(h))
        BY <1>0 DEF HeldExplained
      <3>2. Sum(ReservedOf(h)) \in Nat /\ Sum(KeptOf(h)) \in Nat
        BY <1>0, HeldParts
      <3>3. Sum(ReservedOf(h))' = Sum(ReservedOf(h))
        BY <1>1 DEF ReservedOf, Reserved
      <3>4. Sum(KeptOf(h))' = Sum(KeptOf(h)) + Kept(c, h)' - Kept(c, h)
        BY <1>0, <1>4, <1>5, KeptMoves
      <3>5. Kept(c, h)' = (IF h = g THEN n ELSE 0) /\ Kept(c, h) = 0
        BY <1>1, <1>4 DEF Kept
      <3>6. QED BY <1>3, <3>1, <3>2, <3>3, <3>4, <3>5
    <2>2. \A d \in Case : case'[d].status = "active" => case'[d].grant \in Grant
      BY <1>0, <1>4 DEF HeldExplained
    <2>3. QED BY <2>1, <2>2 DEF HeldExplained
  <1>8. EventsSound' /\ KeysSpent'
    BY <1>0, <1>1, EventsFrame, KeysFrame
  <1>9. QED BY <1>5, <1>6, <1>7, <1>8 DEF CreditsInv

(* A case that ends, and no longer keeps its units.                        *)
LEMMA CaseEnds ==
  ASSUME Typed, BooksSound, HeldExplained, NEW c \in Case, case[c].status = "active",
         NEW s \in {"released", "captured"},
         onHold' = [onHold EXCEPT ![case[c].grant] = @ - case[c].amount],
         case' = [case EXCEPT ![c].status = s],
         hold' = hold
  PROVE  /\ case[c].grant \in Grant /\ case[c].amount \in Nat
         /\ case[c].amount <= onHold[case[c].grant]
         /\ case' \in [Case -> Keeping] /\ onHold' \in [Grant -> Nat]
         /\ \A h \in Grant : onHold'[h] =
              onHold[h] - (IF h = case[c].grant THEN case[c].amount ELSE 0)
         /\ Typed' => HeldExplained'
  <1>1. /\ case[c].grant \in Grant /\ case[c] \in Keeping
        /\ case \in [Case -> Keeping] /\ onHold \in [Grant -> Nat]
    BY DEF HeldExplained, Typed
  <1>2. PICK g \in Grant, n \in Nat : g = case[c].grant /\ n = case[c].amount
    BY <1>1 DEF Keeping
  <1>3. n <= onHold[g]
    <2>1. Kept(c, g) = n
      BY <1>2 DEF Kept
    <2>2. Kept(c, g) <= onHold[g]
      BY ReservedWithinHold
    <2>3. QED BY <2>1, <2>2
  <1>4. onHold' = [onHold EXCEPT ![g] = @ - n]
    BY <1>2
  <1>5. /\ onHold' \in [Grant -> Nat]
        /\ \A h \in Grant : onHold'[h] = onHold[h] - (IF h = g THEN n ELSE 0)
    BY <1>1, <1>3, <1>4
  <1>6. /\ case' \in [Case -> Keeping]
        /\ case'[c].status = s /\ case'[c].grant = case[c].grant
        /\ \A d \in Case \ {c} : case'[d] = case[d]
    <2>1. [case[c] EXCEPT !.status = s] \in Keeping
      BY <1>1 DEF Keeping
    <2>2. case' = [case EXCEPT ![c] = [case[c] EXCEPT !.status = s]]
      OBVIOUS
    <2>3. case'[c] = [case[c] EXCEPT !.status = s]
      BY <1>1, <2>2
    <2>4. case'[c].status = s /\ case'[c].grant = case[c].grant
      BY <1>1, <2>3 DEF Keeping
    <2>5. QED BY <1>1, <2>1, <2>2, <2>4
  <1>7. ASSUME Typed' PROVE HeldExplained'
    <2>1. ASSUME NEW h \in Grant
          PROVE  onHold'[h] = Sum(ReservedOf(h))' + Sum(KeptOf(h))'
      <3>1. onHold[h] = Sum(ReservedOf(h)) + Sum(KeptOf(h))
        BY DEF HeldExplained
      <3>2. Sum(ReservedOf(h)) \in Nat /\ Sum(KeptOf(h)) \in Nat
        BY HeldParts
      <3>3. Sum(ReservedOf(h))' = Sum(ReservedOf(h))
        BY DEF ReservedOf, Reserved
      <3>4. Sum(KeptOf(h))' = Sum(KeptOf(h)) + Kept(c, h)' - Kept(c, h)
        BY <1>6, <1>7, KeptMoves
      <3>5. Kept(c, h)' = 0 /\ Kept(c, h) = (IF h = g THEN n ELSE 0)
        BY <1>2, <1>6 DEF Kept
      <3>6. QED BY <1>5, <3>1, <3>2, <3>3, <3>4, <3>5
    <2>2. \A d \in Case : case'[d].status = "active" => case'[d].grant \in Grant
      BY <1>6 DEF HeldExplained
    <2>3. QED BY <2>1, <2>2 DEF HeldExplained
  <1>8. QED BY <1>2, <1>3, <1>5, <1>6, <1>7

LEMMA ReleaseRightsKeeps ==
  ASSUME CreditsInv, NEW c \in Case, ReleaseRights(c)
  PROVE  CreditsInv'
  <1>0. /\ Typed /\ BooksSound /\ HeldExplained /\ EventsSound /\ KeysSpent
    BY DEF CreditsInv
  <1>1. /\ case[c].status = "active"
        /\ onHold' = [onHold EXCEPT ![case[c].grant] = @ - case[c].amount]
        /\ case' = [case EXCEPT ![c].status = "released"]
        /\ UNCHANGED <<clock, issued, owned, source, row, money, hold, event, reversed,
                       result, expiries, corrected>>
    BY DEF ReleaseRights
  <1>2. /\ case[c].amount \in Nat
        /\ case' \in [Case -> Keeping] /\ onHold' \in [Grant -> Nat]
        /\ \A h \in Grant : onHold'[h] =
              onHold[h] - (IF h = case[c].grant THEN case[c].amount ELSE 0)
        /\ Typed' => HeldExplained'
    BY <1>0, <1>1, CaseEnds
  <1>3. Typed'
    BY <1>0, <1>1, <1>2 DEF Typed
  <1>4. BooksSound'
    <2>1. \A h \in Grant : owned[h] \in Nat /\ onHold[h] \in Nat /\ onHold[h] <= owned[h]
      BY <1>0 DEF Typed, BooksSound, GrantSound
    <2>2. \A h \in Grant : onHold'[h] <= owned[h]
      BY <1>2, <2>1
    <2>3. QED BY <1>0, <1>1, <2>2 DEF BooksSound, GrantSound
  <1>5. EventsSound' /\ KeysSpent'
    BY <1>0, <1>1, EventsFrame, KeysFrame
  <1>6. QED BY <1>2, <1>3, <1>4, <1>5 DEF CreditsInv

LEMMA CancelKeeps ==
  ASSUME CreditsInv, NEW c \in Case, CancelReservedGrant(c)
  PROVE  CreditsInv'
  <1>0. /\ Typed /\ BooksSound /\ HeldExplained /\ EventsSound /\ KeysSpent
    BY DEF CreditsInv
  <1> DEFINE n == [NoAmounts EXCEPT ![case[c].grant] = case[c].amount]
  <1>1. /\ case[c].status = "active"
        /\ owned' = [owned EXCEPT ![case[c].grant] = @ - case[c].amount]
        /\ onHold' = [onHold EXCEPT ![case[c].grant] = @ - case[c].amount]
        /\ Attribute("cancelled", n)
        /\ case' = [case EXCEPT ![c].status = "captured"]
        /\ UNCHANGED <<clock, issued, hold, event, reversed, result, expiries, corrected>>
    BY DEF CancelReservedGrant
  <1>2. /\ case[c].grant \in Grant /\ case[c].amount \in Nat
        /\ case[c].amount <= onHold[case[c].grant]
        /\ case' \in [Case -> Keeping] /\ onHold' \in [Grant -> Nat]
        /\ \A h \in Grant : onHold'[h] =
              onHold[h] - (IF h = case[c].grant THEN case[c].amount ELSE 0)
        /\ Typed' => HeldExplained'
    BY <1>0, <1>1, CaseEnds
  <1>3. /\ n \in [Grant -> Nat]
        /\ \A h \in Grant : n[h] = IF h = case[c].grant THEN case[c].amount ELSE 0
    BY <1>2 DEF NoAmounts
  <1> HIDE DEF n
  <1>4. /\ owned \in [Grant -> Nat]
        /\ \A h \in Grant : owned[h] \in Nat /\ onHold[h] \in Nat /\ onHold[h] <= owned[h]
    BY <1>0 DEF Typed, BooksSound, GrantSound
  <1>5. \A h \in Grant : /\ owned'[h] = owned[h] - n[h] /\ n[h] <= owned[h]
                         /\ onHold'[h] <= owned[h] - n[h]
    BY <1>1, <1>2, <1>3, <1>4
  <1>6. owned' \in [Grant -> Nat]
    <2>1. owned' = [h \in Grant |-> owned'[h]]
      BY <1>1, <1>4
    <2>2. \A h \in Grant : owned'[h] \in Nat
      BY <1>3, <1>4, <1>5
    <2>3. QED BY <2>1, <2>2
  <1>7. /\ BooksSound'
        /\ source' \in [Grant -> [Class -> [Kind -> Nat]]]
        /\ row' \in [Grant -> [Class -> Nat]] /\ money' \in [Grant -> [Class -> Int]]
        /\ \A g \in Grant : row'[g]["expired"] =
              row[g]["expired"] + (IF "cancelled" = "expired" THEN n[g] ELSE 0)
    <2>1. "cancelled" \in Class
      BY DEF Class
    <2>2. QED BY <1>0, <1>1, <1>2, <1>3, <1>5, <2>1, AttributeKeepsBooks
  <1>8. Typed'
    BY <1>0, <1>1, <1>2, <1>6, <1>7 DEF Typed
  <1>9. KeysSpent'
    <2>1. \A g \in Grant : row[g]["expired"] \in Nat
      BY <1>0 DEF Typed, Class
    <2>2. \A g \in Grant : row'[g]["expired"] >= row[g]["expired"]
      BY <1>7, <2>1
    <2>3. QED BY <1>0, <1>1, <1>7, <2>2, KeysAge
  <1>10. EventsSound'
    BY <1>0, <1>1, EventsFrame
  <1>11. QED BY <1>2, <1>7, <1>8, <1>9, <1>10 DEF CreditsInv

LEMMA WaiveKeeps ==
  ASSUME CreditsInv, WaiveCustomerCredits
  PROVE  CreditsInv'
  <1>0. /\ Typed /\ BooksSound /\ HeldExplained /\ EventsSound /\ KeysSpent
    BY DEF CreditsInv
  <1>1. /\ \A g \in issued : onHold[g] = 0
        /\ owned' = NoAmounts
        /\ Attribute("cancelled", owned)
        /\ UNCHANGED <<clock, issued, onHold, hold, event, reversed, result, case, expiries,
                       corrected>>
    BY DEF WaiveCustomerCredits
  <1>2. /\ owned \in [Grant -> Nat] /\ onHold \in [Grant -> Nat]
        /\ \A g \in Grant : owned[g] \in Nat /\ onHold[g] \in Nat
    BY <1>0 DEF Typed
  <1>3. \A g \in Grant : onHold[g] = 0
    <2>1. \A g \in Grant : /\ onHold[g] <= owned[g] /\ AllOfThem(row[g]) \in Nat
                           /\ g \notin issued => owned[g] + AllOfThem(row[g]) = 0
      BY <1>0 DEF BooksSound, GrantSound, Typed, AllOfThem, Class
    <2>2. QED BY <1>1, <1>2, <2>1
  <1>4. \A g \in Grant : /\ owned'[g] = owned[g] - owned[g] /\ owned[g] <= owned[g]
                         /\ onHold'[g] <= owned[g] - owned[g]
    BY <1>1, <1>2, <1>3 DEF NoAmounts
  <1>5. owned' \in [Grant -> Nat] /\ onHold' \in [Grant -> Nat]
    BY <1>1, <1>2 DEF NoAmounts
  <1>6. /\ BooksSound'
        /\ source' \in [Grant -> [Class -> [Kind -> Nat]]]
        /\ row' \in [Grant -> [Class -> Nat]] /\ money' \in [Grant -> [Class -> Int]]
        /\ \A g \in Grant : row'[g]["expired"] =
              row[g]["expired"] + (IF "cancelled" = "expired" THEN owned[g] ELSE 0)
    <2>1. "cancelled" \in Class
      BY DEF Class
    <2>2. QED BY <1>0, <1>1, <1>2, <1>4, <1>5, <2>1, AttributeKeepsBooks
  <1>7. Typed'
    BY <1>0, <1>1, <1>5, <1>6 DEF Typed
  <1>8. KeysSpent'
    <2>1. \A g \in Grant : row[g]["expired"] \in Nat
      BY <1>0 DEF Typed, Class
    <2>2. \A g \in Grant : row'[g]["expired"] >= row[g]["expired"]
      BY <1>6, <2>1
    <2>3. QED BY <1>0, <1>1, <1>6, <2>2, KeysAge
  <1>9. HeldExplained' /\ EventsSound'
    BY <1>0, <1>1, HeldFrame, EventsFrame
  <1>10. QED BY <1>6, <1>7, <1>8, <1>9 DEF CreditsInv

-----------------------------------------------------------------------------
(* A correction.  It gives n units of the event of request r on grant g    *)
(* back, and then expires what it must: the books in between.              *)
GivenSource(r, g, n, h) ==
  [c \in Class |-> IF h = g /\ c = "consumed" THEN Restored(r, g, n).units
                   ELSE source[h][c]]
GivenRow(r, g, n, h) ==
  [c \in Class |-> IF h = g /\ c = "consumed" THEN Restored(r, g, n).consumed
                   ELSE row[h][c]]
GivenMoney(r, g, n, h) ==
  [c \in Class |-> IF h = g /\ c = "consumed" THEN Restored(r, g, n).paid
                   ELSE money[h][c]]
Given(g, n, h) == IF h = g THEN n ELSE 0

LEMMA PartsExact ==
  ASSUME Typed, EventsSound, NEW r \in Request, NEW g \in Grant, NEW n \in Nat \ {0},
         Reversible(r, g, n)
  PROVE  /\ Restored(r, g, n).parts \in [Kind -> Nat]
         /\ \A k \in Kind : /\ event[r][g].units[k] \in Nat /\ reversed[r][g].units[k] \in Nat
                            /\ reversed[r][g].units[k] + Restored(r, g, n).parts[k]
                                 <= event[r][g].units[k]
         /\ SumFunctionOnSet(Restored(r, g, n).parts, Kind) = n
         /\ PaidBack(r, g, n) \in Int
  <1> DEFINE w == StillCharged(r, g)
             ev == event[r][g].units
             rv == reversed[r][g].units
  <1>1. /\ event[r][g] \in Event /\ reversed[r][g] \in Event
        /\ ev \in [Kind -> Nat] /\ rv \in [Kind -> Nat]
        /\ event[r][g].paid \in Int /\ reversed[r][g].paid \in Int
    BY DEF Typed, Event
  <1>2. \A k \in Kind : rv[k] <= ev[k]
    BY DEF EventsSound
  <1>3. /\ Amount(event[r][g]) = SumFunctionOnSet(ev, Kind)
        /\ Amount(reversed[r][g]) = SumFunctionOnSet(rv, Kind)
    BY <1>1 DEF Amount, Sum
  <1>4. w = [k \in Kind |-> ev[k] - rv[k]]
    BY DEF StillCharged
  <1>5. Restored(r, g, n).parts = Proportional(n, w)
    BY DEF Restored
  <1> HIDE DEF w, ev, rv
  <1>6. \A k \in Kind : w[k] \in Nat /\ w[k] \in Int /\ rv[k] \in Int /\ ev[k] = w[k] + rv[k]
    BY <1>1, <1>2, <1>4
  <1>7. w \in [Kind -> Nat] /\ IsFiniteSet(Kind) /\ Sum(w) = SumFunctionOnSet(w, Kind)
    BY <1>4, <1>6, CreditsAssumption DEF Sum
  <1>8. SumFunctionOnSet(ev, Kind) = SumFunctionOnSet(w, Kind) + SumFunctionOnSet(rv, Kind)
    BY <1>6, <1>7, SumPlus
  <1>9. /\ SumFunctionOnSet(w, Kind) \in Nat /\ SumFunctionOnSet(rv, Kind) \in Nat
    <2>1. SumFunctionOnSet(w, Kind) \in Nat
      BY <1>6, <1>7, SumNat
    <2>2. \A k \in Kind : rv[k] \in Nat
      BY <1>1
    <2>3. SumFunctionOnSet(rv, Kind) \in Nat
      BY <1>7, <2>2, SumNat
    <2>4. QED BY <2>1, <2>3
  <1>10. n <= Sum(w)
    BY <1>3, <1>7, <1>8, <1>9 DEF Reversible
  <1>11. /\ Proportional(n, w) \in [Kind -> Nat]
         /\ \A k \in Kind : Proportional(n, w)[k] <= w[k]
         /\ Sum(Proportional(n, w)) = n
    BY <1>7, <1>10, SplitIsExact
  <1>12. SumFunctionOnSet(Proportional(n, w), Kind) = n
    BY <1>11 DEF Sum
  <1>13. PaidBack(r, g, n) \in Int
    <2>1. PICK a \in Nat, b \in Nat, p \in Int, q \in Int :
            /\ a = Amount(event[r][g]) /\ b = Amount(reversed[r][g])
            /\ p = event[r][g].paid /\ q = reversed[r][g].paid
      BY <1>1, <1>3, <1>8, <1>9
    <2>2. a > 0
      BY <2>1 DEF Reversible
    <2>3. PICK x \in Int : x = p * (b + n)
      BY <2>1
    <2>4. x \div a \in Int
      BY <2>1, <2>2, <2>3
    <2>5. PaidBack(r, g, n) = x \div a - q
      BY <2>1, <2>3 DEF PaidBack
    <2>6. QED BY <2>1, <2>4, <2>5
  <1>14. \A k \in Kind : rv[k] + Proportional(n, w)[k] <= ev[k]
    <2>1. \A k \in Kind : Proportional(n, w)[k] \in Nat /\ Proportional(n, w)[k] <= w[k]
      BY <1>11
    <2>2. QED BY <1>6, <2>1
  <1>15. \A k \in Kind : rv[k] \in Nat /\ ev[k] \in Nat
    BY <1>1
  <1>16. QED BY <1>5, <1>11, <1>12, <1>13, <1>14, <1>15 DEF ev, rv

(* The books in between are sound.                                         *)
LEMMA GivenBackSound ==
  ASSUME Typed, BooksSound, EventsSound,
         NEW r \in Request, NEW g \in Grant, NEW n \in Nat \ {0},
         Reversible(r, g, n),
         \A k \in Kind : Restored(r, g, n).units[k] >= 0,
         Restored(r, g, n).consumed >= 0, Restored(r, g, n).paid >= 0,
         PaidBack(r, g, n) >= 0,
         NEW h \in Grant
  PROVE  /\ BooksTyped(GivenSource(r, g, n, h), GivenRow(r, g, n, h), GivenMoney(r, g, n, h))
         /\ GrantSound(h, h \in issued, owned[h] + Given(g, n, h), onHold[h],
                       GivenSource(r, g, n, h), GivenRow(r, g, n, h), GivenMoney(r, g, n, h))
         /\ AllOfThem(GivenRow(r, g, n, h)) = Sum(row[h]) - Given(g, n, h)
         /\ AllOfThem(GivenMoney(r, g, n, h))
              = Sum(money[h]) - (IF h = g THEN PaidBack(r, g, n) ELSE 0)
  <1>1. /\ source[h] \in [Class -> [Kind -> Nat]] /\ row[h] \in [Class -> Nat]
        /\ money[h] \in [Class -> Int] /\ owned[h] \in Nat /\ onHold[h] \in Nat
        /\ GrantSound(h, h \in issued, owned[h], onHold[h], source[h], row[h], money[h])
    BY DEF Typed, BooksSound
  <1>2. row[h] \in [Class -> Int]
    BY <1>1
  <1>3. /\ Sum(row[h]) = AllOfThem(row[h]) /\ Sum(money[h]) = AllOfThem(money[h])
        /\ AllOfThem(row[h]) \in Int /\ AllOfThem(money[h]) \in Int
    BY <1>1, <1>2, SumOfClasses
  <1> DEFINE src == GivenSource(r, g, n, h)
             rw == GivenRow(r, g, n, h)
             mn == GivenMoney(r, g, n, h)
             parts == Restored(r, g, n).parts
             back == PaidBack(r, g, n)
  <1>4. CASE h # g
    <2>1. src = source[h] /\ rw = row[h] /\ mn = money[h] /\ Given(g, n, h) = 0
      BY <1>1, <1>4 DEF GivenSource, GivenRow, GivenMoney, Given
    <2>2. owned[h] + Given(g, n, h) = owned[h]
      BY <1>1, <2>1
    <2> HIDE DEF src, rw, mn
    <2>3. QED BY <1>1, <1>3, <1>4, <2>1, <2>2 DEF BooksTyped, src, rw, mn
  <1>5. CASE h = g
    <2>1. /\ parts \in [Kind -> Nat] /\ SumFunctionOnSet(parts, Kind) = n /\ back \in Int
      BY PartsExact
    <2>2. /\ Restored(r, g, n).units = [k \in Kind |-> source[h]["consumed"][k] - parts[k]]
          /\ Restored(r, g, n).consumed = row[h]["consumed"] - n
          /\ Restored(r, g, n).paid = money[h]["consumed"] - back
      BY <1>5 DEF Restored
    <2>3. "consumed" \in Class /\ "expired" \in Class /\ "cancelled" \in Class
      BY DEF Class
    <2>4. /\ src["consumed"] = [k \in Kind |-> source[h]["consumed"][k] - parts[k]]
          /\ src["expired"] = source[h]["expired"] /\ src["cancelled"] = source[h]["cancelled"]
          /\ rw["consumed"] = row[h]["consumed"] - n
          /\ rw["expired"] = row[h]["expired"] /\ rw["cancelled"] = row[h]["cancelled"]
          /\ mn["consumed"] = money[h]["consumed"] - back
          /\ mn["expired"] = money[h]["expired"] /\ mn["cancelled"] = money[h]["cancelled"]
          /\ Given(g, n, h) = n
      BY <1>5, <2>2, <2>3 DEF GivenSource, GivenRow, GivenMoney, Given
    <2>5. /\ \A k \in Kind : src["consumed"][k] >= 0
          /\ rw["consumed"] >= 0 /\ mn["consumed"] >= 0 /\ back >= 0
      BY <2>2, <2>4
    <2>6. /\ src = [c \in Class |-> src[c]] /\ rw = [c \in Class |-> rw[c]]
          /\ mn = [c \in Class |-> mn[c]]
      BY DEF GivenSource, GivenRow, GivenMoney
    <2> HIDE DEF src, rw, mn, parts, back
    <2>7. \A c \in Class : c = "consumed" \/ c = "expired" \/ c = "cancelled"
      BY DEF Class
    <2>8. src["consumed"] \in [Kind -> Nat]
      <3>1. \A k \in Kind : src["consumed"][k] \in Nat
        <4> TAKE k \in Kind
        <4>1. source[h]["consumed"][k] \in Nat /\ parts[k] \in Nat
          BY <1>1, <2>1, <2>3
        <4>2. src["consumed"][k] = source[h]["consumed"][k] - parts[k]
          BY <2>4
        <4>3. QED BY <2>5, <4>1, <4>2
      <3>2. src["consumed"] = [k \in Kind |-> src["consumed"][k]]
        BY <2>4
      <3>3. QED BY <3>1, <3>2
    <2>9. \A c \in Class : src[c] \in [Kind -> Nat]
      BY <1>1, <2>3, <2>4, <2>7, <2>8
    <2>10. \A c \in Class : rw[c] \in Nat /\ mn[c] \in Int
      BY <1>1, <2>1, <2>3, <2>4, <2>5, <2>7
    <2>11. BooksTyped(src, rw, mn)
      <3>1. src \in [Class -> [Kind -> Nat]]
        BY <2>6, <2>9
      <3>2. rw \in [Class -> Nat] /\ mn \in [Class -> Int]
        BY <2>6, <2>10
      <3>3. QED BY <3>1, <3>2 DEF BooksTyped
    <2>12. /\ AllOfThem(rw) = AllOfThem(row[h]) - n
           /\ AllOfThem(mn) = AllOfThem(money[h]) - back
      BY <1>1, <2>1, <2>3, <2>4 DEF AllOfThem
    <2>13. /\ onHold[h] <= owned[h]
           /\ owned[h] + AllOfThem(row[h]) = IF h \in issued THEN Total(h) ELSE 0
           /\ \A c \in Class : SumFunctionOnSet(source[h][c], Kind) = row[h][c]
           /\ \A k \in Kind : LeftOver(h, source[h])[k] >= 0
           /\ \A c \in Class : money[h][c] >= 0
           /\ AllOfThem(money[h]) <= PaidMoney[h]
      BY <1>1 DEF GrantSound
    <2>14. AllOfThem(row[h]) >= n
      <3>1. AllOfThem(rw) >= 0
        BY <2>3, <2>10 DEF AllOfThem
      <3>2. QED BY <1>3, <2>12, <3>1
    <2>15. \A c \in Class : SumFunctionOnSet(src[c], Kind) = rw[c]
      <3>1. SumFunctionOnSet(src["consumed"], Kind) = rw["consumed"]
        <4>1. /\ IsFiniteSet(Kind)
              /\ \A k \in Kind : /\ src["consumed"][k] \in Int /\ parts[k] \in Int
                                 /\ source[h]["consumed"][k] = src["consumed"][k] + parts[k]
          <5>1. \A k \in Kind : /\ source[h]["consumed"][k] \in Nat /\ parts[k] \in Nat
                                /\ src["consumed"][k] = source[h]["consumed"][k] - parts[k]
            BY <1>1, <2>1, <2>3, <2>4
          <5>2. IsFiniteSet(Kind)
            BY GrantConstants
          <5>3. QED BY <5>1, <5>2
        <4>2. SumFunctionOnSet(source[h]["consumed"], Kind)
                = SumFunctionOnSet(src["consumed"], Kind) + SumFunctionOnSet(parts, Kind)
          BY <4>1, SumPlus
        <4>3. SumFunctionOnSet(src["consumed"], Kind) \in Int
          BY <4>1, SumInt
        <4>4. QED BY <2>1, <2>3, <2>4, <2>13, <4>2, <4>3
      <3>2. QED BY <2>3, <2>4, <2>7, <2>13, <3>1
    <2>16. \A k \in Kind : LeftOver(h, src)[k] >= 0
      <3> TAKE k \in Kind
      <3>1. /\ Quantity[h][k] \in Nat /\ parts[k] \in Nat
            /\ source[h]["consumed"][k] \in Nat /\ source[h]["expired"][k] \in Nat
            /\ source[h]["cancelled"][k] \in Nat
        BY <1>1, <2>1, <2>3, GrantConstants
      <3>2. LeftOver(h, src)[k] = LeftOver(h, source[h])[k] + parts[k]
            /\ LeftOver(h, source[h])[k] \in Int
        BY <2>4, <3>1 DEF LeftOver
      <3>3. QED BY <2>13, <3>1, <3>2
    <2>17. \A c \in Class : mn[c] >= 0
      BY <2>3, <2>4, <2>5, <2>7, <2>13
    <2>18. /\ owned[h] + n + AllOfThem(rw) = IF h \in issued THEN Total(h) ELSE 0
           /\ onHold[h] <= owned[h] + n /\ owned[h] + n # 0
           /\ AllOfThem(mn) <= PaidMoney[h]
      <3>1. PaidMoney[h] \in Nat
        BY GrantConstants
      <3>2. QED BY <1>1, <1>3, <2>1, <2>5, <2>12, <2>13, <3>1
    <2>19. GrantSound(h, h \in issued, owned[h] + Given(g, n, h), onHold[h], src, rw, mn)
      <3>1. owned[h] + Given(g, n, h) = owned[h] + n
        BY <2>4
      <3>2. QED BY <2>15, <2>16, <2>17, <2>18, <3>1 DEF GrantSound
    <2>20. /\ AllOfThem(rw) = Sum(row[h]) - Given(g, n, h)
           /\ AllOfThem(mn) = Sum(money[h]) - (IF h = g THEN PaidBack(r, g, n) ELSE 0)
      BY <1>3, <1>5, <2>4, <2>12 DEF back
    <2>21. QED BY <2>11, <2>19, <2>20 DEF src, rw, mn
  <1>6. QED BY <1>4, <1>5

(* What is expired again.                                                  *)
LEMMA ReExpiredBounded ==
  ASSUME Typed, BooksSound, NEW r \in Request, NEW g \in Grant, NEW n \in Nat
  PROVE  /\ ReExpired(r, g, n) \in [Grant -> Nat]
         /\ \A h \in Grant : /\ owned[h] \in Nat /\ onHold[h] \in Nat /\ onHold[h] <= owned[h]
                             /\ Given(g, n, h) \in Nat
                             /\ ReExpired(r, g, n)[h] <= owned[h] + Given(g, n, h) - onHold[h]
  <1> DEFINE extra == [h \in Grant |-> Given(g, n, h)]
             units == [owned EXCEPT ![g] = @ + n]
  <1>1. \A h \in Grant : /\ owned[h] \in Nat /\ onHold[h] \in Nat /\ onHold[h] <= owned[h]
                         /\ Given(g, n, h) \in Nat
    BY DEF Typed, BooksSound, GrantSound, Given
  <1>2. extra \in [Grant -> Nat] /\ \A h \in Grant : extra[h] = Given(g, n, h)
    BY <1>1
  <1>3. units = [h \in Grant |-> owned[h] + extra[h]]
    <2>1. owned \in [Grant -> Nat]
      BY DEF Typed
    <2>2. \A h \in Grant : units[h] = owned[h] + extra[h]
      BY <1>1, <2>1 DEF Given
    <2>3. units = [h \in Grant |-> units[h]]
      BY <2>1
    <2> HIDE DEF units, extra
    <2>4. QED BY <2>2, <2>3
  <1>4. CASE ~MustReclassify(g, n)
    <2>1. ReExpired(r, g, n) = NoAmounts
      BY <1>4 DEF ReExpired
    <2>2. QED BY <1>1, <2>1 DEF NoAmounts
  <1>5. CASE MustReclassify(g, n)
    <2>1. ReExpired(r, g, n) = Expirable(units)
      BY <1>5 DEF ReExpired
    <2> HIDE DEF units, extra
    <2>2. /\ Expirable([h \in Grant |-> owned[h] + extra[h]]) \in [Grant -> Nat]
          /\ \A h \in Grant : Expirable([i \in Grant |-> owned[i] + extra[i]])[h]
                                <= owned[h] + extra[h] - onHold[h]
      BY <1>2, ExpirableIs
    <2>3. QED BY <1>1, <1>2, <1>3, <2>1, <2>2
  <1>6. QED BY <1>4, <1>5

LEMMA ReExpiredEvent ==
  ASSUME Typed, BooksSound, NEW r \in Request, NEW g \in Grant, NEW n \in Nat,
         NEW h \in Grant, Restored(r, g, n).parts \in [Kind -> Nat],
         AllOfThem(GivenRow(r, g, n, h)) = Sum(row[h]) - Given(g, n, h),
         AllOfThem(GivenMoney(r, g, n, h))
           = Sum(money[h]) - (IF h = g THEN PaidBack(r, g, n) ELSE 0)
  PROVE  LET e == EventOf(h, GivenSource(r, g, n, h), GivenRow(r, g, n, h),
                          GivenMoney(r, g, n, h), ReExpired(r, g, n)[h])
         IN  /\ e.units = ReExpiredUnits(r, g, n, h)
             /\ e.paid = ReExpiredShare(r, g, n, h)
  <1> DEFINE x == ReExpired(r, g, n)[h]
             parts == Restored(r, g, n).parts
             src == GivenSource(r, g, n, h)
             left == IF h = g THEN [k \in Kind |-> Left(g)[k] + parts[k]] ELSE Left(h)
             e == EventOf(h, src, GivenRow(r, g, n, h), GivenMoney(r, g, n, h), x)
  <1>1. left = LeftOver(h, src)
    <2>1. CASE h # g
      <3>1. \A c \in Class : src[c] = source[h][c]
        BY <2>1 DEF GivenSource
      <3>2. src["consumed"] = source[h]["consumed"] /\ src["expired"] = source[h]["expired"]
            /\ src["cancelled"] = source[h]["cancelled"]
        BY <3>1 DEF Class
      <3> HIDE DEF src
      <3>3. QED BY <2>1, <3>2 DEF Left, LeftOver
    <2>2. CASE h = g
      <3>1. /\ src["consumed"] = [k \in Kind |-> source[h]["consumed"][k] - parts[k]]
            /\ src["expired"] = source[h]["expired"]
            /\ src["cancelled"] = source[h]["cancelled"]
        BY <2>2 DEF GivenSource, Restored, Class
      <3>2. \A k \in Kind : /\ source[h]["consumed"][k] \in Nat /\ source[h]["expired"][k] \in Nat
                            /\ source[h]["cancelled"][k] \in Nat /\ parts[k] \in Nat
                            /\ Quantity[h][k] \in Nat
        BY GrantConstants DEF Typed, Class
      <3> HIDE DEF src, parts
      <3>3. \A k \in Kind : Left(g)[k] + parts[k] = LeftOver(h, src)[k]
        BY <2>2, <3>1, <3>2 DEF Left, LeftOver
      <3>4. LeftOver(h, src) = [k \in Kind |-> LeftOver(h, src)[k]]
        BY DEF LeftOver
      <3>5. left = [k \in Kind |-> Left(g)[k] + parts[k]]
        BY <2>2
      <3> HIDE DEF left
      <3>6. QED BY <3>3, <3>4, <3>5
    <2>3. QED BY <2>1, <2>2
  <1>2. ReExpiredUnits(r, g, n, h) = IF x = 0 THEN NoUnits ELSE Proportional(x, left)
    BY DEF ReExpiredUnits
  <1>3. ReExpiredShare(r, g, n, h) =
          IF x = 0 THEN 0
          ELSE Share(h, GivenRow(r, g, n, h), GivenMoney(r, g, n, h), x)
    <2>1. ReExpiredShare(r, g, n, h) =
            IF x = 0 THEN 0
            ELSE (PaidMoney[h] * (Sum(row[h]) - Given(g, n, h) + x)) \div Total(h)
                 - (Sum(money[h]) - (IF h = g THEN PaidBack(r, g, n) ELSE 0))
      BY DEF ReExpiredShare, Given
    <2> HIDE DEF x
    <2>2. QED BY <2>1 DEF Share
  <1>4. e = IF x = 0 THEN NoEvent
            ELSE [units |-> Proportional(x, LeftOver(h, src)),
                  paid |-> Share(h, GivenRow(r, g, n, h), GivenMoney(r, g, n, h), x)]
    BY DEF EventOf
  <1> HIDE DEF x, left, src, e
  <1>5. /\ e.units = (IF x = 0 THEN NoUnits ELSE Proportional(x, LeftOver(h, src)))
        /\ e.paid = (IF x = 0 THEN 0
                     ELSE Share(h, GivenRow(r, g, n, h), GivenMoney(r, g, n, h), x))
    BY <1>4 DEF NoEvent
  <1>6. e.units = ReExpiredUnits(r, g, n, h) /\ e.paid = ReExpiredShare(r, g, n, h)
    BY <1>1, <1>2, <1>3, <1>5
  <1>7. QED BY <1>6 DEF e, src, x

(* What a correction does to the columns of a grant.                       *)
GivenAndExpired(r, g, n, h) ==
  /\ owned'[h] = owned[h] + Given(g, n, h) - ReExpired(r, g, n)[h]
  /\ source'[h] = [source[h] EXCEPT
       !["consumed"] = IF h = g THEN Restored(r, g, n).units ELSE @,
       !["expired"] = [k \in Kind |-> @[k] + ReExpiredUnits(r, g, n, h)[k]]]
  /\ row'[h] = [row[h] EXCEPT
       !["consumed"] = IF h = g THEN Restored(r, g, n).consumed ELSE @,
       !["expired"] = @ + ReExpired(r, g, n)[h]]
  /\ money'[h] = [money[h] EXCEPT
       !["consumed"] = IF h = g THEN Restored(r, g, n).paid ELSE @,
       !["expired"] = @ + ReExpiredShare(r, g, n, h)]
  /\ money'[h]["expired"] >= 0
GivenEvent(r, g, n) ==
  [units |-> [k \in Kind |-> reversed[r][g].units[k] + Restored(r, g, n).parts[k]],
   paid |-> reversed[r][g].paid + PaidBack(r, g, n)]

LEMMA ReverseSteps ==
  ASSUME CreditsInv, NEW c \in Correction, NEW r \in Request, NEW g \in Grant,
         NEW n \in Int, ReverseUsage(c, r, g, n)
  PROVE  /\ n \in Nat \ {0} /\ Reversible(r, g, n)
         /\ \A k \in Kind : Restored(r, g, n).units[k] >= 0
         /\ Restored(r, g, n).consumed >= 0 /\ Restored(r, g, n).paid >= 0
         /\ PaidBack(r, g, n) >= 0
         /\ \A h \in Grant : GivenAndExpired(r, g, n, h)
         /\ owned' = [h \in Grant |-> owned'[h]]
         /\ source' = [h \in Grant |-> source'[h]]
         /\ row' = [h \in Grant |-> row'[h]]
         /\ money' = [h \in Grant |-> money'[h]]
         /\ reversed' = [reversed EXCEPT ![r][g] = GivenEvent(r, g, n)]
         /\ expiries' = expiries \cup {<<ExpiryKey(h), ReExpired(r, g, n)[h]>> :
                                         h \in {i \in Grant : ReExpired(r, g, n)[i] > 0}}
         /\ corrected' = corrected \cup {c}
         /\ event[r][g] # NoEvent
         /\ UNCHANGED <<clock, issued, onHold, hold, event, result, case>>
  <1> DEFINE again == ReExpired(r, g, n)
  <1>1. \A h \in Grant : ExpiryDebit(h, again[h]) = again[h]
    BY KeyIsNew DEF CreditsInv
  <1>2. owned' = [h \in Grant |-> owned[h] + (IF h = g THEN n ELSE 0)
                                      - ExpiryDebit(h, again[h])]
    BY DEF ReverseUsage
  <1>3. \A h \in Grant : owned'[h] = owned[h] + Given(g, n, h) - again[h]
    BY <1>1, <1>2 DEF Given
  <1>4. n \in Nat \ {0} /\ Reversible(r, g, n)
    BY DEF ReverseUsage
  <1>5. /\ source' = [h \in Grant |->
              [source[h] EXCEPT
                 !["consumed"] = IF h = g THEN Restored(r, g, n).units ELSE @,
                 !["expired"] = [k \in Kind |-> @[k] + ReExpiredUnits(r, g, n, h)[k]]]]
        /\ row' = [h \in Grant |->
              [row[h] EXCEPT !["consumed"] = IF h = g THEN Restored(r, g, n).consumed ELSE @,
                             !["expired"] = @ + again[h]]]
        /\ money' = [h \in Grant |->
              [money[h] EXCEPT !["consumed"] = IF h = g THEN Restored(r, g, n).paid ELSE @,
                               !["expired"] = @ + ReExpiredShare(r, g, n, h)]]
        /\ \A h \in Grant : money'[h]["expired"] >= 0
    BY DEF ReverseUsage
  <1>6. /\ \A k \in Kind : Restored(r, g, n).units[k] >= 0
        /\ Restored(r, g, n).consumed >= 0 /\ Restored(r, g, n).paid >= 0
        /\ PaidBack(r, g, n) >= 0
        /\ expiries' = expiries \cup {<<ExpiryKey(h), again[h]>> :
                                         h \in {i \in Grant : again[i] > 0}}
        /\ corrected' = corrected \cup {c}
        /\ event[r][g] # NoEvent
        /\ UNCHANGED <<clock, issued, onHold, hold, event, result, case>>
    BY DEF ReverseUsage
  <1>10. reversed' = [reversed EXCEPT ![r][g] = GivenEvent(r, g, n)]
    <2>1. reversed' = [reversed EXCEPT ![r][g] =
              [units |-> [k \in Kind |-> @.units[k] + Restored(r, g, n).parts[k]],
               paid |-> @.paid + PaidBack(r, g, n)]]
      BY DEF ReverseUsage
    <2>2. QED BY <2>1 DEF GivenEvent
  <1> HIDE DEF again
  <1>7. \A h \in Grant :
          /\ source'[h] = [source[h] EXCEPT
                 !["consumed"] = IF h = g THEN Restored(r, g, n).units ELSE @,
                 !["expired"] = [k \in Kind |-> @[k] + ReExpiredUnits(r, g, n, h)[k]]]
          /\ row'[h] = [row[h] EXCEPT
                 !["consumed"] = IF h = g THEN Restored(r, g, n).consumed ELSE @,
                 !["expired"] = @ + again[h]]
          /\ money'[h] = [money[h] EXCEPT
                 !["consumed"] = IF h = g THEN Restored(r, g, n).paid ELSE @,
                 !["expired"] = @ + ReExpiredShare(r, g, n, h)]
          /\ money'[h]["expired"] >= 0
    BY <1>5
  <1>8. /\ owned' = [h \in Grant |-> owned'[h]]
        /\ source' = [h \in Grant |-> source'[h]]
        /\ row' = [h \in Grant |-> row'[h]]
        /\ money' = [h \in Grant |-> money'[h]]
    <2>1. owned' = [h \in Grant |-> owned'[h]]
      BY <1>2
    <2>2. /\ source' = [h \in Grant |-> source'[h]]
          /\ row' = [h \in Grant |-> row'[h]]
          /\ money' = [h \in Grant |-> money'[h]]
      BY <1>5
    <2>3. QED BY <2>1, <2>2
  <1>9. \A h \in Grant : GivenAndExpired(r, g, n, h)
    BY <1>3, <1>7 DEF GivenAndExpired, again
  <1>11. QED BY <1>4, <1>6, <1>8, <1>9, <1>10 DEF again

LEMMA ReverseKeepsBooks ==
  ASSUME CreditsInv, NEW c \in Correction, NEW r \in Request, NEW g \in Grant,
         NEW n \in Int, ReverseUsage(c, r, g, n)
  PROVE  \A h \in Grant :
           /\ owned'[h] \in Nat
           /\ BooksTyped(source'[h], row'[h], money'[h])
           /\ GrantSound(h, h \in issued, owned'[h], onHold[h], source'[h], row'[h], money'[h])
           /\ row'[h]["expired"] = row[h]["expired"] + ReExpired(r, g, n)[h]
           /\ ReExpired(r, g, n)[h] \in Nat
  <1>0. Typed /\ BooksSound /\ EventsSound
    BY DEF CreditsInv
  <1>1. /\ n \in Nat \ {0} /\ Reversible(r, g, n)
        /\ \A k \in Kind : Restored(r, g, n).units[k] >= 0
        /\ Restored(r, g, n).consumed >= 0 /\ Restored(r, g, n).paid >= 0
        /\ PaidBack(r, g, n) >= 0
    BY ReverseSteps
  <1> TAKE h \in Grant
  <1> DEFINE x == ReExpired(r, g, n)[h]
             src == GivenSource(r, g, n, h)
             rw == GivenRow(r, g, n, h)
             mn == GivenMoney(r, g, n, h)
             bal == owned[h] + Given(g, n, h)
             e == EventOf(h, src, rw, mn, x)
             has == h \in issued
  <1>2. /\ BooksTyped(src, rw, mn)
        /\ GrantSound(h, h \in issued, bal, onHold[h], src, rw, mn)
        /\ AllOfThem(rw) = Sum(row[h]) - Given(g, n, h)
        /\ AllOfThem(mn) = Sum(money[h]) - (IF h = g THEN PaidBack(r, g, n) ELSE 0)
    BY <1>0, <1>1, GivenBackSound
  <1>3. /\ x \in Nat /\ x <= bal - onHold[h] /\ bal \in Nat
        /\ onHold[h] \in Nat /\ bal - x \in Nat
        /\ x <= bal /\ onHold[h] <= bal - x
    <2>1. /\ ReExpired(r, g, n) \in [Grant -> Nat]
          /\ \A i \in Grant : /\ owned[i] \in Nat /\ onHold[i] \in Nat /\ onHold[i] <= owned[i]
                              /\ Given(g, n, i) \in Nat
                              /\ ReExpired(r, g, n)[i] <= owned[i] + Given(g, n, i) - onHold[i]
      <3>1. n \in Nat
        BY <1>1
      <3>2. QED BY <1>0, <3>1, ReExpiredBounded
    <2>2. x \in Nat
      BY <2>1
    <2> HIDE DEF x
    <2>3. QED BY <2>1, <2>2 DEF x
  <1>4. e.units = ReExpiredUnits(r, g, n, h) /\ e.paid = ReExpiredShare(r, g, n, h)
    <2>1. Restored(r, g, n).parts \in [Kind -> Nat]
      BY <1>0, <1>1, PartsExact
    <2>2. n \in Nat
      BY <1>1
    <2>3. QED BY <1>0, <1>2, <2>1, <2>2, ReExpiredEvent
  <1>5. /\ source'[h] = [source[h] EXCEPT
                 !["consumed"] = IF h = g THEN Restored(r, g, n).units ELSE @,
                 !["expired"] = [k \in Kind |-> @[k] + ReExpiredUnits(r, g, n, h)[k]]]
        /\ row'[h] = [row[h] EXCEPT
                 !["consumed"] = IF h = g THEN Restored(r, g, n).consumed ELSE @,
                 !["expired"] = @ + ReExpired(r, g, n)[h]]
        /\ money'[h] = [money[h] EXCEPT
                 !["consumed"] = IF h = g THEN Restored(r, g, n).paid ELSE @,
                 !["expired"] = @ + ReExpiredShare(r, g, n, h)]
        /\ money'[h]["expired"] >= 0
        /\ owned'[h] = bal - x
    <2>1. GivenAndExpired(r, g, n, h)
      BY ReverseSteps
    <2>2. /\ owned'[h] = owned[h] + Given(g, n, h) - ReExpired(r, g, n)[h]
          /\ money'[h]["expired"] >= 0
      BY <2>1, Zenon DEF GivenAndExpired
    <2>3. source'[h] = [source[h] EXCEPT
                 !["consumed"] = IF h = g THEN Restored(r, g, n).units ELSE @,
                 !["expired"] = [k \in Kind |-> @[k] + ReExpiredUnits(r, g, n, h)[k]]]
      BY <2>1 DEF GivenAndExpired
    <2>4. row'[h] = [row[h] EXCEPT
                 !["consumed"] = IF h = g THEN Restored(r, g, n).consumed ELSE @,
                 !["expired"] = @ + ReExpired(r, g, n)[h]]
      BY <2>1 DEF GivenAndExpired
    <2>5. money'[h] = [money[h] EXCEPT
                 !["consumed"] = IF h = g THEN Restored(r, g, n).paid ELSE @,
                 !["expired"] = @ + ReExpiredShare(r, g, n, h)]
      BY <2>1 DEF GivenAndExpired
    <2>6. owned'[h] = bal - x
      <3>1. x \in Nat /\ owned[h] \in Nat /\ Given(g, n, h) \in Nat
        BY <1>0, <1>1, <1>3 DEF Typed, Given
      <3> HIDE DEF x
      <3>2. owned'[h] = owned[h] + Given(g, n, h) - x
        BY <2>2 DEF x
      <3>3. QED BY <3>1, <3>2
    <2> HIDE DEF bal, x
    <2>7. QED BY <2>2, <2>3, <2>4, <2>5, <2>6, Zenon
  <1>6. /\ source[h] \in [Class -> [Kind -> Nat]] /\ row[h] \in [Class -> Nat]
        /\ money[h] \in [Class -> Int]
        /\ "consumed" \in Class /\ "expired" \in Class /\ "cancelled" \in Class
    BY <1>0 DEF Typed, Class
  <1>7. /\ src["expired"] = source[h]["expired"] /\ rw["expired"] = row[h]["expired"]
        /\ mn["expired"] = money[h]["expired"]
    BY <1>6 DEF GivenSource, GivenRow, GivenMoney
  <1>8. source'[h] = [d \in Class |->
          IF d = "expired" THEN [k \in Kind |-> src["expired"][k] + e.units[k]] ELSE src[d]]
    <2>1. \A d \in Class : d # "expired" =>
            src[d] = IF h = g /\ d = "consumed" THEN Restored(r, g, n).units ELSE source[h][d]
      BY DEF GivenSource
    <2> HIDE DEF src, e
    <2>2. source'[h] = [d \in Class |->
            IF d = "expired"
            THEN [k \in Kind |-> source[h]["expired"][k] + ReExpiredUnits(r, g, n, h)[k]]
            ELSE IF h = g /\ d = "consumed" THEN Restored(r, g, n).units ELSE source[h][d]]
      BY <1>5, <1>6
    <2>3. QED BY <1>4, <1>7, <2>1, <2>2
  <1>9. row'[h] = [d \in Class |-> IF d = "expired" THEN rw[d] + x ELSE rw[d]]
    <2>1. row'[h] = [d \in Class |->
            IF d = "expired" THEN row[h]["expired"] + x
            ELSE IF h = g /\ d = "consumed" THEN Restored(r, g, n).consumed ELSE row[h][d]]
      BY <1>5, <1>6
    <2>2. \A d \in Class : d # "expired" =>
            rw[d] = IF h = g /\ d = "consumed" THEN Restored(r, g, n).consumed ELSE row[h][d]
      BY DEF GivenRow
    <2> HIDE DEF rw, x
    <2>3. QED BY <1>7, <2>1, <2>2
  <1>10. money'[h] = [d \in Class |-> IF d = "expired" THEN mn[d] + e.paid ELSE mn[d]]
    <2>1. money'[h] = [d \in Class |->
            IF d = "expired" THEN money[h]["expired"] + ReExpiredShare(r, g, n, h)
            ELSE IF h = g /\ d = "consumed" THEN Restored(r, g, n).paid ELSE money[h][d]]
      BY <1>5, <1>6
    <2>2. \A d \in Class : d # "expired" =>
            mn[d] = IF h = g /\ d = "consumed" THEN Restored(r, g, n).paid ELSE money[h][d]
      BY DEF GivenMoney
    <2> HIDE DEF mn, e
    <2>3. QED BY <1>4, <1>7, <2>1, <2>2
  <1>11. Added("expired", x, EventOf(h, src, rw, mn, x), src, rw, mn,
               source'[h], row'[h], money'[h])
    <2> HIDE DEF src, rw, mn, x
    <2>1. QED BY <1>8, <1>9, <1>10 DEF Added
  <1>12. (h \in issued) \in BOOLEAN
    OBVIOUS
  <1>13. /\ BooksTyped(source'[h], row'[h], money'[h])
         /\ GrantSound(h, h \in issued, bal - x, onHold[h], source'[h], row'[h], money'[h])
    <2>1. money'[h]["expired"] >= 0 /\ "expired" \in Class
      BY <1>5, <1>6
    <2>2. /\ BooksTyped(src, rw, mn)
          /\ GrantSound(h, h \in issued, bal, onHold[h], src, rw, mn)
      BY <1>2
    <2> HIDE DEF src, rw, mn, x, e, bal, has
    <2>3. QED BY <1>3, <1>11, <1>12, <2>1, <2>2, AttributionKeepsBooks
  <1>14. row'[h]["expired"] = row[h]["expired"] + x
    BY <1>6, <1>7, <1>9
  <1> HIDE DEF src, rw, mn, e, bal, has
  <1>15. QED BY <1>3, <1>5, <1>13, <1>14

LEMMA ReverseKeeps ==
  ASSUME CreditsInv, NEW c \in Correction, NEW r \in Request, NEW g \in Grant,
         NEW n \in Int, ReverseUsage(c, r, g, n)
  PROVE  CreditsInv'
  <1> DEFINE again == ReExpired(r, g, n)
             parts == Restored(r, g, n).parts
             new == GivenEvent(r, g, n)
  <1>0. /\ Typed /\ BooksSound /\ HeldExplained /\ EventsSound /\ KeysSpent
    BY DEF CreditsInv
  <1>1. /\ n \in Nat \ {0} /\ Reversible(r, g, n)
        /\ reversed' = [reversed EXCEPT ![r][g] = new]
        /\ owned' = [h \in Grant |-> owned'[h]]
        /\ source' = [h \in Grant |-> source'[h]]
        /\ row' = [h \in Grant |-> row'[h]]
        /\ money' = [h \in Grant |-> money'[h]]
        /\ expiries' = expiries \cup {<<ExpiryKey(h), again[h]>> :
                                         h \in {i \in Grant : again[i] > 0}}
        /\ corrected' = corrected \cup {c}
        /\ event[r][g] # NoEvent
        /\ UNCHANGED <<clock, issued, onHold, hold, event, result, case>>
    BY ReverseSteps
  <1>2. \A h \in Grant :
           /\ owned'[h] \in Nat
           /\ BooksTyped(source'[h], row'[h], money'[h])
           /\ GrantSound(h, h \in issued, owned'[h], onHold[h], source'[h], row'[h], money'[h])
           /\ row'[h]["expired"] = row[h]["expired"] + again[h]
           /\ again[h] \in Nat
    BY ReverseKeepsBooks
  <1>3. /\ parts \in [Kind -> Nat]
        /\ \A k \in Kind : /\ event[r][g].units[k] \in Nat /\ reversed[r][g].units[k] \in Nat
                           /\ reversed[r][g].units[k] + parts[k] <= event[r][g].units[k]
        /\ PaidBack(r, g, n) \in Int
    BY <1>0, <1>1, PartsExact
  <1> HIDE DEF again, parts
  <1>4. new \in Event /\ \A k \in Kind : new.units[k] <= event[r][g].units[k]
    <2>1. reversed[r][g].paid \in Int
      BY <1>0 DEF Typed, Event
    <2>2. QED BY <1>3, <2>1 DEF Event, GivenEvent, parts
  <1> HIDE DEF new
  <1>5. /\ reversed' \in [Request -> [Grant -> Event]]
        /\ reversed'[r][g] = new
        /\ \A s \in Request, h \in Grant : s # r \/ h # g => reversed'[s][h] = reversed[s][h]
    BY <1>0, <1>1, <1>4 DEF Typed
  <1>6. Typed'
    <2>1. owned' \in [Grant -> Nat]
      BY <1>1, <1>2
    <2>2. \A h \in Grant : /\ source'[h] \in [Class -> [Kind -> Nat]]
                           /\ row'[h] \in [Class -> Nat] /\ money'[h] \in [Class -> Int]
      BY <1>2 DEF BooksTyped
    <2>3. source' \in [Grant -> [Class -> [Kind -> Nat]]]
      BY <1>1, <2>2
    <2>4. row' \in [Grant -> [Class -> Nat]] /\ money' \in [Grant -> [Class -> Int]]
      BY <1>1, <2>2
    <2>5. corrected' \in SUBSET Correction
      BY <1>0, <1>1 DEF Typed
    <2>6. QED BY <1>0, <1>1, <1>5, <2>1, <2>3, <2>4, <2>5 DEF Typed
  <1>7. BooksSound'
    BY <1>1, <1>2 DEF BooksSound
  <1>8. HeldExplained'
    BY <1>0, <1>1, HeldFrame
  <1>9. EventsSound'
    <2> SUFFICES ASSUME NEW s \in Request, NEW h \in Grant
                 PROVE  /\ \A k \in Kind : reversed'[s][h].units[k] <= event[s][h].units[k]
                        /\ hold[s].status \in {"none", "active"} =>
                             event[s][h] = NoEvent /\ reversed'[s][h] = NoEvent
      BY <1>1 DEF EventsSound
    <2>1. CASE s # r \/ h # g
      BY <1>0, <1>5, <2>1 DEF EventsSound
    <2>2. CASE s = r /\ h = g
      <3>1. hold[s].status \notin {"none", "active"}
        BY <1>0, <1>1, <2>2 DEF EventsSound
      <3>2. QED BY <1>4, <1>5, <2>2, <3>1
    <2>3. QED BY <2>1, <2>2
  <1>10. KeysSpent'
    <2>1. \A h \in Grant : row[h]["expired"] \in Nat
      BY <1>0 DEF Typed, Class
    <2> SUFFICES ASSUME NEW e \in expiries'
                 PROVE  \E h \in Grant, m \in Nat, i \in Nat :
                          e = <<<<h, m>>, i>> /\ m < row'[h]["expired"]
      BY DEF KeysSpent
    <2>2. CASE e \in expiries
      <3>1. PICK h \in Grant, m \in Nat, i \in Nat :
              e = <<<<h, m>>, i>> /\ m < row[h]["expired"]
        BY <1>0, <2>2 DEF KeysSpent
      <3>2. m < row'[h]["expired"]
        BY <1>2, <2>1, <3>1
      <3>3. QED BY <3>1, <3>2
    <2>3. CASE e \notin expiries
      <3>1. PICK h \in Grant : e = <<ExpiryKey(h), again[h]>> /\ again[h] > 0
        BY <1>1, <2>3
      <3>2. e = <<<<h, row[h]["expired"]>>, again[h]>> /\ row[h]["expired"] < row'[h]["expired"]
        BY <1>2, <2>1, <3>1 DEF ExpiryKey
      <3>3. QED BY <1>2, <2>1, <3>1, <3>2
    <2>4. QED BY <2>2, <2>3
  <1>11. QED BY <1>6, <1>7, <1>8, <1>9, <1>10 DEF CreditsInv

-----------------------------------------------------------------------------
(* The invariant of the specification.                                     *)

LEMMA CreditsInitially == CreditsInit => CreditsInv
  <1> SUFFICES ASSUME CreditsInit PROVE CreditsInv
    OBVIOUS
  <1>1. /\ clock = 0 /\ issued = {} /\ owned = NoAmounts /\ onHold = NoAmounts
        /\ source = [g \in Grant |-> [c \in Class |-> NoUnits]]
        /\ row = [g \in Grant |-> [c \in Class |-> 0]]
        /\ money = [g \in Grant |-> [c \in Class |-> 0]]
        /\ hold = [r \in Request |-> [status |-> "none", amounts |-> NoAmounts]]
        /\ event = [r \in Request |-> [g \in Grant |-> NoEvent]]
        /\ reversed = [r \in Request |-> [g \in Grant |-> NoEvent]]
        /\ result = [r \in Request |-> NoResult]
        /\ case = [c \in Case |-> NoCase]
        /\ expiries = {} /\ corrected = {}
    BY DEF CreditsInit
  <1>2. NoUnits \in [Kind -> Nat] /\ NoAmounts \in [Grant -> Nat] /\ NoEvent \in Event
    BY DEF NoUnits, NoAmounts, NoEvent, Event
  <1>3. Typed
    <2>1. [status |-> "none", amounts |-> NoAmounts] \in Holding
      BY <1>2 DEF Holding
    <2>2. NoCase \in Keeping
      BY DEF NoCase, Keeping
    <2>3. /\ source \in [Grant -> [Class -> [Kind -> Nat]]]
          /\ row \in [Grant -> [Class -> Nat]] /\ money \in [Grant -> [Class -> Int]]
      BY <1>1, <1>2
    <2>4. /\ hold \in [Request -> Holding] /\ case \in [Case -> Keeping]
          /\ event \in [Request -> [Grant -> Event]]
          /\ reversed \in [Request -> [Grant -> Event]]
          /\ DOMAIN result = Request
      BY <1>1, <1>2, <2>1, <2>2
    <2>5. clock \in 0..ClockBound
      BY <1>1, CreditsAssumption
    <2>6. QED BY <1>1, <1>2, <2>3, <2>4, <2>5 DEF Typed
  <1>4. BooksSound
    <2> SUFFICES ASSUME NEW g \in Grant
                 PROVE  GrantSound(g, g \in issued, owned[g], onHold[g], source[g], row[g],
                                   money[g])
      BY DEF BooksSound
    <2>1. /\ Quantity[g] \in [Kind -> Nat] /\ PaidMoney[g] \in Nat /\ IsFiniteSet(Kind)
      BY GrantConstants
    <2>2. /\ owned[g] = 0 /\ onHold[g] = 0 /\ g \notin issued
          /\ source[g] = [c \in Class |-> NoUnits]
          /\ row[g] = [c \in Class |-> 0] /\ money[g] = [c \in Class |-> 0]
      BY <1>1 DEF NoAmounts
    <2>3. AllOfThem(row[g]) = 0 /\ AllOfThem(money[g]) = 0
      BY <2>2 DEF AllOfThem, Class
    <2>4. \A c \in Class : SumFunctionOnSet(source[g][c], Kind) = row[g][c]
      <3> TAKE c \in Class
      <3>1. source[g][c] = NoUnits /\ row[g][c] = 0 /\ \A k \in Kind : NoUnits[k] = 0
        BY <2>2 DEF NoUnits
      <3>2. SumFunctionOnSet(NoUnits, Kind) = 0
        BY <2>1, <3>1, SumZero
      <3>3. QED BY <3>1, <3>2
    <2>5. \A k \in Kind : LeftOver(g, source[g])[k] >= 0
      BY <2>1, <2>2 DEF LeftOver, NoUnits, Class
    <2>6. QED BY <2>1, <2>2, <2>3, <2>4, <2>5 DEF GrantSound
  <1>5. HeldExplained
    <2>1. ASSUME NEW g \in Grant
          PROVE  onHold[g] = Sum(ReservedOf(g)) + Sum(KeptOf(g))
      <3>1. /\ IsFiniteSet(Request) /\ IsFiniteSet(Case)
            /\ Sum(ReservedOf(g)) = SumFunctionOnSet(ReservedOf(g), Request)
            /\ Sum(KeptOf(g)) = SumFunctionOnSet(KeptOf(g), Case)
        BY <1>3, HeldParts
      <3>2. \A r \in Request : ReservedOf(g)[r] = 0
        BY <1>1 DEF ReservedOf, Reserved
      <3>3. \A c \in Case : KeptOf(g)[c] = 0
        BY <1>1 DEF KeptOf, Kept, NoCase
      <3>4. SumFunctionOnSet(ReservedOf(g), Request) = 0
        BY <3>1, <3>2, SumZero
      <3>5. SumFunctionOnSet(KeptOf(g), Case) = 0
        BY <3>1, <3>3, SumZero
      <3>6. onHold[g] = 0
        BY <1>1 DEF NoAmounts
      <3>7. QED BY <3>1, <3>4, <3>5, <3>6
    <2>2. QED BY <1>1, <2>1 DEF HeldExplained, NoCase
  <1>6. EventsSound
    BY <1>1 DEF EventsSound, NoEvent, NoUnits
  <1>7. KeysSpent
    BY <1>1 DEF KeysSpent
  <1>8. QED BY <1>3, <1>4, <1>5, <1>6, <1>7 DEF CreditsInv

LEMMA CreditsStep == CreditsInv /\ [CreditsNext]_creditsVars => CreditsInv'
  <1> SUFFICES ASSUME CreditsInv, [CreditsNext]_creditsVars PROVE CreditsInv'
    OBVIOUS
  <1>0. \A n : n \in 0..MaxUse \/ n \in 1..MaxUse => n \in Int
    BY CreditsAssumption
  <1>1. CASE TimePasses
    BY <1>1, TickKeeps
  <1>2. ASSUME NEW g \in Grant, IssueGrant(g) PROVE CreditsInv'
    BY <1>2, IssueKeeps
  <1>3. ASSUME NEW r \in Request, NEW n \in 0..MaxUse, ReserveCredits(r, n)
        PROVE  CreditsInv'
    BY <1>0, <1>3, ReserveKeeps
  <1>4. ASSUME NEW r \in Request, NEW n \in 0..MaxUse, SettleCredits(r, n)
        PROVE  CreditsInv'
    BY <1>0, <1>4, SettleKeeps
  <1>5. ASSUME NEW r \in Request, ReleaseCredits(r) PROVE CreditsInv'
    BY <1>5, ReleaseKeeps
  <1>6. CASE ExpireCredits
    BY <1>6, ExpireKeeps
  <1>7. ASSUME NEW c \in Correction, NEW r \in Request, NEW g \in Grant,
               NEW n \in 1..MaxUse, ReverseUsage(c, r, g, n)
        PROVE  CreditsInv'
    BY <1>0, <1>7, ReverseKeeps
  <1>8. ASSUME NEW c \in Case, NEW g \in Grant, NEW n \in 1..MaxUse, HoldRights(c, g, n)
        PROVE  CreditsInv'
    BY <1>0, <1>8, HoldRightsKeeps
  <1>9. ASSUME NEW c \in Case, ReleaseRights(c) PROVE CreditsInv'
    BY <1>9, ReleaseRightsKeeps
  <1>10. ASSUME NEW c \in Case, CancelReservedGrant(c) PROVE CreditsInv'
    BY <1>10, CancelKeeps
  <1>11. CASE WaiveCustomerCredits
    BY <1>11, WaiveKeeps
  <1>12. CASE CancelClosureGifts
    BY <1>12, WaiveKeeps DEF CancelClosureGifts
  <1>13. CASE UNCHANGED creditsVars
    <2>1. Typed'
      BY <1>13 DEF creditsVars, CreditsInv, Typed
    <2>2. QED BY <1>13, <2>1, BooksFrame, HeldFrame, EventsFrame, KeysFrame
              DEF creditsVars, CreditsInv
  <1>14. QED BY <1>1, <1>2, <1>3, <1>4, <1>5, <1>6, <1>7, <1>8, <1>9, <1>10, <1>11, <1>12,
                <1>13 DEF CreditsNext

LEMMA CreditsAlwaysSound == CreditsSpec => []CreditsInv
  BY CreditsInitially, CreditsStep, PTL DEF CreditsSpec

(* Types, and the CHECKs of the database.                                  *)
THEOREM CreditsTyped == CreditsSpec => []CreditsTypeOK
  <1>1. CreditsInv => CreditsTypeOK
    <2> SUFFICES ASSUME CreditsInv PROVE CreditsTypeOK
      OBVIOUS
    <2>1. Typed /\ BooksSound
      BY DEF CreditsInv
    <2>2. ASSUME NEW g \in Grant
          PROVE /\ onHold[g] <= owned[g]
                /\ \A c \in Class : money[g][c] >= 0
                /\ Sum(money[g]) <= PaidMoney[g] /\ Sum(row[g]) <= Total(g)
                /\ \A k \in Kind : source[g]["consumed"][k] + source[g]["expired"][k]
                                   + source[g]["cancelled"][k] <= Quantity[g][k]
      <3>1. GrantSound(g, g \in issued, owned[g], onHold[g], source[g], row[g], money[g])
        BY <2>1 DEF BooksSound
      <3>2. /\ owned[g] \in Nat /\ row[g] \in [Class -> Int] /\ money[g] \in [Class -> Int]
            /\ \A k \in Kind : /\ source[g]["consumed"][k] \in Nat
                               /\ source[g]["expired"][k] \in Nat
                               /\ source[g]["cancelled"][k] \in Nat
                               /\ Quantity[g][k] \in Nat
            /\ Total(g) \in Nat
        BY <2>1, GrantConstants DEF Typed, Class
      <3>3. /\ Sum(row[g]) = AllOfThem(row[g]) /\ AllOfThem(row[g]) \in Int
            /\ Sum(money[g]) = AllOfThem(money[g])
        BY <3>2, SumOfClasses
      <3>4. \A k \in Kind : source[g]["consumed"][k] + source[g]["expired"][k]
                                   + source[g]["cancelled"][k] <= Quantity[g][k]
        BY <3>1, <3>2 DEF GrantSound, LeftOver
      <3>5. Sum(row[g]) <= Total(g)
        BY <3>1, <3>2, <3>3 DEF GrantSound
      <3>6. QED BY <3>1, <3>3, <3>4, <3>5 DEF GrantSound
    <2>3. QED BY <2>1, <2>2 DEF CreditsTypeOK, Typed, Holding
  <1>2. QED BY <1>1, CreditsAlwaysSound, PTL

(* Every unit a grant issued is in exactly one place.                      *)
THEOREM UnitsAlwaysConserved == CreditsSpec => []UnitsConserved
  <1>1. CreditsInv => UnitsConserved
    <2> SUFFICES ASSUME CreditsInv, NEW g \in issued
                 PROVE  /\ owned[g] + Sum(row[g]) = Total(g)
                        /\ \A c \in Class : Sum(source[g][c]) = row[g][c]
                        /\ onHold[g] = Sum([r \in Request |-> Reserved(r, g)])
                                     + Sum([c \in Case |-> Kept(c, g)])
      BY DEF UnitsConserved
    <2>1. g \in Grant /\ Typed /\ BooksSound /\ HeldExplained
      BY DEF CreditsInv, Typed
    <2>2. GrantSound(g, g \in issued, owned[g], onHold[g], source[g], row[g], money[g])
      BY <2>1 DEF BooksSound
    <2>3. Sum(row[g]) = AllOfThem(row[g])
      <3>1. row[g] \in [Class -> Int]
        BY <2>1 DEF Typed
      <3>2. QED BY <3>1, SumOfClasses
    <2>4. \A c \in Class : Sum(source[g][c]) = SumFunctionOnSet(source[g][c], Kind)
      BY <2>1 DEF Typed, Sum
    <2>5. onHold[g] = Sum([r \in Request |-> Reserved(r, g)]) + Sum([c \in Case |-> Kept(c, g)])
      BY <2>1 DEF HeldExplained, ReservedOf, KeptOf
    <2>6. QED BY <2>2, <2>3, <2>4, <2>5 DEF GrantSound
  <1>2. QED BY <1>1, CreditsAlwaysSound, PTL

(* When nothing is left of a grant its whole price was attributed.         *)
THEOREM MoneyAlwaysAttributed == CreditsSpec => []MoneyFullyAttributed
  <1>1. CreditsInv => MoneyFullyAttributed
    <2> SUFFICES ASSUME CreditsInv, NEW g \in issued, owned[g] = 0
                 PROVE  Sum(money[g]) = PaidMoney[g]
      BY DEF MoneyFullyAttributed
    <2>1. g \in Grant /\ Typed /\ BooksSound
      BY DEF CreditsInv, Typed
    <2>2. AllOfThem(money[g]) = PaidMoney[g]
      BY <2>1 DEF BooksSound, GrantSound
    <2>3. money[g] \in [Class -> Int]
      BY <2>1 DEF Typed
    <2>4. QED BY <2>2, <2>3, SumOfClasses
  <1>2. QED BY <1>1, CreditsAlwaysSound, PTL

-----------------------------------------------------------------------------
(* What one step may never do.                                             *)

(* Which operation moves what.                                             *)
LEMMA WhoChangesWhat ==
  ASSUME [CreditsNext]_creditsVars
  PROVE  /\ corrected' # corrected =>
              \E c \in Correction, r \in Request, g \in Grant, n \in 1..MaxUse :
                ReverseUsage(c, r, g, n)
         /\ result' # result \/ event' # event =>
              \E r \in Request, n \in 0..MaxUse : SettleCredits(r, n)
         /\ \A r \in Request : hold[r].status = "none" /\ hold'[r].status = "active" =>
              \E q \in Request, n \in 0..MaxUse : ReserveCredits(q, n) \/ SettleCredits(q, n)
                                                  \/ ReleaseCredits(q)
  <1> DEFINE Reverses == \E c \in Correction, r \in Request, g \in Grant, n \in 1..MaxUse :
                           ReverseUsage(c, r, g, n)
             Settles == \E r \in Request, n \in 0..MaxUse : SettleCredits(r, n)
             Reserves == \E r \in Request, n \in 0..MaxUse : ReserveCredits(r, n)
             Releases == \E r \in Request : ReleaseCredits(r)
             Goal == /\ corrected' # corrected => Reverses
                     /\ result' # result \/ event' # event => Settles
                     /\ hold' # hold => Reserves \/ Settles \/ Releases
  <1>1. ASSUME TimePasses PROVE Goal
    BY <1>1 DEF TimePasses
  <1>2. ASSUME NEW g \in Grant, IssueGrant(g) PROVE Goal
    BY <1>2 DEF IssueGrant
  <1>3. ASSUME NEW r \in Request, NEW n \in 0..MaxUse, ReserveCredits(r, n) PROVE Goal
    <2>1. corrected' = corrected /\ result' = result /\ event' = event
      BY <1>3 DEF ReserveCredits
    <2>2. Reserves
      BY <1>3
    <2> HIDE DEF Reverses, Settles, Reserves, Releases
    <2>3. QED BY <2>1, <2>2
  <1>4. ASSUME NEW r \in Request, NEW n \in 0..MaxUse, SettleCredits(r, n) PROVE Goal
    <2>1. corrected' = corrected
      BY <1>4 DEF SettleCredits
    <2>2. Settles
      BY <1>4
    <2> HIDE DEF Reverses, Settles, Reserves, Releases
    <2>3. QED BY <2>1, <2>2
  <1>5. ASSUME NEW r \in Request, ReleaseCredits(r) PROVE Goal
    <2>1. corrected' = corrected /\ result' = result /\ event' = event
      BY <1>5 DEF ReleaseCredits
    <2>2. Releases
      BY <1>5
    <2> HIDE DEF Reverses, Settles, Reserves, Releases
    <2>3. QED BY <2>1, <2>2
  <1>6. ASSUME ExpireCredits PROVE Goal
    BY <1>6 DEF ExpireCredits
  <1>7. ASSUME NEW c \in Correction, NEW r \in Request, NEW g \in Grant,
               NEW n \in 1..MaxUse, ReverseUsage(c, r, g, n)
        PROVE  Goal
    <2>1. result' = result /\ event' = event /\ hold' = hold
      BY <1>7 DEF ReverseUsage
    <2>2. Reverses
      BY <1>7
    <2> HIDE DEF Reverses, Settles, Reserves, Releases
    <2>3. QED BY <2>1, <2>2
  <1>8. ASSUME NEW c \in Case, NEW g \in Grant, NEW n \in 1..MaxUse, HoldRights(c, g, n)
        PROVE  Goal
    BY <1>8 DEF HoldRights
  <1>9. ASSUME NEW c \in Case, ReleaseRights(c) PROVE Goal
    BY <1>9 DEF ReleaseRights
  <1>10. ASSUME NEW c \in Case, CancelReservedGrant(c) PROVE Goal
    BY <1>10 DEF CancelReservedGrant
  <1>11. ASSUME WaiveCustomerCredits PROVE Goal
    BY <1>11 DEF WaiveCustomerCredits
  <1>12. ASSUME CancelClosureGifts PROVE Goal
    BY <1>12 DEF CancelClosureGifts, WaiveCustomerCredits
  <1>13. ASSUME UNCHANGED creditsVars PROVE Goal
    BY <1>13 DEF creditsVars
  <1>14. Goal
    <2> HIDE DEF Goal
    <2>1. TimePasses \/ ExpireCredits \/ WaiveCustomerCredits \/ CancelClosureGifts => Goal
      BY <1>1, <1>6, <1>11, <1>12
    <2>2. UNCHANGED creditsVars => Goal
      BY <1>13
    <2>3. QED BY <1>2, <1>3, <1>4, <1>5, <1>7, <1>8, <1>9, <1>10, <2>1, <2>2 DEF CreditsNext
  <1> HIDE DEF Reverses, Settles, Reserves, Releases
  <1>15. \A r \in Request : hold[r].status = "none" /\ hold'[r].status = "active" =>
           Reserves \/ Settles \/ Releases
    BY <1>14
  <1>16. Reserves \/ Settles \/ Releases =>
           \E q \in Request, n \in 0..MaxUse : ReserveCredits(q, n) \/ SettleCredits(q, n)
                                               \/ ReleaseCredits(q)
    <2>1. 0 \in 0..MaxUse
      BY CreditsAssumption
    <2>2. QED BY <2>1 DEF Reserves, Settles, Releases
  <1>17. QED BY <1>14, <1>15, <1>16 DEF Reverses, Settles

(* Only a reservation activates a hold.                                    *)
LEMMA OnlyReservesActivate ==
  ASSUME CreditsInv, [CreditsNext]_creditsVars, NEW r \in Request,
         hold[r].status = "none", hold'[r].status = "active"
  PROVE  \E n \in 0..MaxUse : ReserveCredits(r, n)
  <1>1. PICK q \in Request, n \in 0..MaxUse :
          ReserveCredits(q, n) \/ SettleCredits(q, n) \/ ReleaseCredits(q)
    BY WhoChangesWhat
  <1>2. hold \in [Request -> Holding] /\ \A s \in Request : hold[s] \in Holding
    BY DEF CreditsInv, Typed
  <1>3. CASE ReserveCredits(q, n)
    <2>1. hold' = [hold EXCEPT ![q] =
            [status |-> "active", amounts |-> FefoTake(Spendable, n)]]
      BY <1>3 DEF ReserveCredits
    <2>2. q = r
      <3>1. q # r => hold'[r] = hold[r]
        BY <1>2, <2>1
      <3>2. hold'[r] # hold[r]
        OBVIOUS
      <3>3. QED BY <3>1, <3>2
    <2>3. QED BY <1>3, <2>2
  <1>4. CASE SettleCredits(q, n)
    <2>1. PICK s \in {"released", "captured"} : hold' = [hold EXCEPT ![q].status = s]
      BY <1>4 DEF SettleCredits
    <2>2. hold'[r].status = IF q = r THEN s ELSE hold[r].status
      BY <1>2, <2>1 DEF Holding
    <2>3. QED BY <2>1, <2>2
  <1>5. CASE ReleaseCredits(q)
    <2>1. hold' = [hold EXCEPT ![q].status = "released"]
      BY <1>5 DEF ReleaseCredits
    <2>2. hold'[r].status = IF q = r THEN "released" ELSE hold[r].status
      BY <1>2, <2>1 DEF Holding
    <2>3. QED BY <2>2
  <1>6. QED BY <1>1, <1>3, <1>4, <1>5

(* A correction never revives an expired right.                            *)
THEOREM CorrectionNeverRevives == CreditsSpec => CorrectionRevivesNothing
  <1> DEFINE Step == corrected' # corrected =>
                       \A g \in issued : Expires[g] <= clock => owned'[g] = onHold'[g]
  <1>1. CreditsInv /\ [CreditsNext]_creditsVars => Step
    <2> SUFFICES ASSUME CreditsInv, [CreditsNext]_creditsVars, corrected' # corrected,
                        NEW h \in issued, Expires[h] <= clock
                 PROVE  owned'[h] = onHold'[h]
      OBVIOUS
    <2>0. Typed /\ BooksSound /\ h \in Grant /\ Expired(h)
      BY DEF CreditsInv, Typed, Expired
    <2>1. PICK c \in Correction, r \in Request, g \in Grant, n \in 1..MaxUse :
            ReverseUsage(c, r, g, n)
      BY WhoChangesWhat
    <2>2. n \in Int
      BY CreditsAssumption
    <2>3. /\ n \in Nat \ {0} /\ GivenAndExpired(r, g, n, h) /\ onHold' = onHold
      BY <2>0, <2>1, <2>2, ReverseSteps
    <2> DEFINE x == ReExpired(r, g, n)[h]
               free == [owned EXCEPT ![g] = @ + n]
    <2>4. owned'[h] = owned[h] + Given(g, n, h) - x
      BY <2>3, Zenon DEF GivenAndExpired
    <2>5. /\ owned[h] \in Nat /\ onHold[h] \in Nat /\ onHold[h] <= owned[h]
          /\ Given(g, n, h) \in Nat /\ x \in Nat
      <3>1. n \in Nat
        BY <2>3
      <3>2. /\ ReExpired(r, g, n) \in [Grant -> Nat]
            /\ \A i \in Grant : /\ owned[i] \in Nat /\ onHold[i] \in Nat /\ onHold[i] <= owned[i]
                                /\ Given(g, n, i) \in Nat
        BY <2>0, <3>1, ReExpiredBounded
      <3>3. QED BY <2>0, <3>2
    <2>6. free[h] = owned[h] + Given(g, n, h)
      <3>1. owned \in [Grant -> Nat]
        BY <2>0 DEF Typed
      <3>2. QED BY <2>0, <2>5, <3>1 DEF Given
    <2> HIDE DEF free
    <2>7. Expirable(free)[h] = free[h] - onHold[h]
      BY <2>0 DEF Expirable
    <2>8. x = free[h] - onHold[h]
      <3>1. CASE MustReclassify(g, n)
        <4>1. ReExpired(r, g, n) = Expirable(free)
          BY <3>1 DEF ReExpired, free
        <4>2. QED BY <2>7, <4>1
      <3>2. CASE ~MustReclassify(g, n)
        <4>1. ~(Expirable(free)[h] > 0)
          BY <2>0, <3>2 DEF MustReclassify, ReclassifyAll, free
        <4>2. x = 0
          BY <2>0, <3>2 DEF ReExpired, NoAmounts
        <4> HIDE DEF x
        <4>3. QED BY <2>5, <2>6, <2>7, <4>1, <4>2
      <3>3. QED BY <3>1, <3>2
    <2> HIDE DEF x
    <2>9. owned'[h] = onHold[h]
      BY <2>4, <2>5, <2>6, <2>8
    <2>10. QED BY <2>3, <2>9
  <1>2. QED BY <1>1, CreditsAlwaysSound, PTL DEF CreditsSpec, CorrectionRevivesNothing

(* A shortfall means that nothing more could be spent.                     *)
THEOREM ShortfallAlwaysReal == CreditsSpec => ShortfallIsReal
  <1> DEFINE Step == \A r \in Request :
               result[r] # result'[r] /\ result'[r].shortfall > 0 =>
                 \A g \in issued : Effective[g] <= clock /\ Expires[g] > clock =>
                   owned'[g] = onHold'[g]
  <1>1. CreditsInv /\ [CreditsNext]_creditsVars => Step
    <2> SUFFICES ASSUME CreditsInv, [CreditsNext]_creditsVars, NEW r \in Request,
                        result[r] # result'[r], result'[r].shortfall > 0,
                        NEW g \in issued, Effective[g] <= clock, Expires[g] > clock
                 PROVE  owned'[g] = onHold'[g]
      OBVIOUS
    <2>0. Typed /\ BooksSound /\ HeldExplained /\ g \in Grant /\ Usable(g)
      BY DEF CreditsInv, Typed, Usable
    <2>1. PICK q \in Request, n \in 0..MaxUse : SettleCredits(q, n)
      BY WhoChangesWhat
    <2>2. n \in Int
      BY CreditsAssumption
    <2> DEFINE own == FefoTake(hold[r].amounts, n)
               more == FefoTake(Spendable, n - Sum(own))
               take == Debits(r, n)
    <2>3. q = r
      <3>1. \E x : result' = [result EXCEPT ![q] = x]
        BY <2>1 DEF SettleCredits
      <3>2. DOMAIN result = Request
        BY <2>0 DEF Typed
      <3>3. QED BY <3>1, <3>2
    <2>4. /\ hold[r].status = "active"
          /\ owned' = [h \in Grant |-> owned[h] - take[h]]
          /\ onHold' = [h \in Grant |-> onHold[h] - hold[r].amounts[h]]
      BY <2>1, <2>3 DEF SettleCredits
    <2>5. result'[r].shortfall = n - Sum(take)
      <3>1. \E y, z : result' = [result EXCEPT ![r] =
              [requested |-> n, debited |-> y, shortfall |-> n - Sum(take), paid |-> z]]
        BY <2>1, <2>3 DEF SettleCredits
      <3>2. DOMAIN result = Request
        BY <2>0 DEF Typed
      <3> HIDE DEF take
      <3>3. QED BY <3>1, <3>2
    <2>6. hold[r].amounts \in [Grant -> Nat]
      BY <2>0 DEF Typed, Holding
    <2>7. own \in [Grant -> Nat]
      BY <2>2, <2>6, FefoTakes
    <2>8. IsFiniteSet(Grant)
      BY CreditsAssumption
    <2>9. Sum(own) = SumFunctionOnSet(own, Grant) /\ Sum(own) \in Nat
      <3>1. DOMAIN own = Grant /\ \A h \in Grant : own[h] \in Nat
        BY <2>7
      <3> HIDE DEF own
      <3>2. QED BY <2>8, <3>1, SumIsNat DEF Sum
    <2>10. /\ Spendable \in [Grant -> Nat]
           /\ \A h \in Grant : FreeOf(h) \in Nat
      BY <2>0, FreeIsNat
    <2>11. n - Sum(own) \in Int
      BY <2>2, <2>9
    <2>12. more \in [Grant -> Nat]
      BY <2>10, <2>11, FefoTakes
    <2>13. Sum(more) = SumFunctionOnSet(more, Grant) /\ Sum(more) \in Nat
      <3>1. DOMAIN more = Grant /\ \A h \in Grant : more[h] \in Nat
        BY <2>12
      <3> HIDE DEF more
      <3>2. QED BY <2>8, <3>1, SumIsNat DEF Sum
    <2>14. take = [h \in Grant |-> own[h] + more[h]]
      BY DEF Debits, HeldThenFree
    <2>15. Sum(take) = Sum(own) + Sum(more)
      <3> HIDE DEF own, more, take
      <3>1. Sum(take) = SumFunctionOnSet(take, Grant)
        BY <2>14 DEF Sum
      <3>2. \A h \in Grant : /\ own[h] \in Int /\ more[h] \in Int
                             /\ take[h] = own[h] + more[h]
        BY <2>7, <2>12, <2>14
      <3>3. SumFunctionOnSet(take, Grant)
              = SumFunctionOnSet(own, Grant) + SumFunctionOnSet(more, Grant)
        BY <2>8, <3>2, SumPlus
      <3>4. QED BY <2>9, <2>13, <3>1, <3>3
    <2>16. Sum(own) < n /\ Sum(more) < n - Sum(own)
      <3> HIDE DEF own, more, take
      <3>1. n - Sum(take) > 0
        BY <2>5
      <3>2. QED BY <2>2, <2>9, <2>13, <2>15, <3>1
    <2>17. own = hold[r].amounts
      BY <2>2, <2>6, <2>16, FefoTakesAll
    <2>18. more = Spendable
      BY <2>10, <2>11, <2>16, FefoTakesAll
    <2>19. Spendable[g] = owned[g] - onHold[g]
      BY <2>0 DEF Spendable, FreeOf
    <2>20. take[g] = hold[r].amounts[g] + (owned[g] - onHold[g])
      <3> HIDE DEF own, more, take
      <3>1. QED BY <2>0, <2>14, <2>17, <2>18, <2>19
    <2>21. owned[g] \in Nat /\ onHold[g] \in Nat /\ hold[r].amounts[g] \in Nat
      BY <2>0, <2>6 DEF Typed
    <2> HIDE DEF own, more, take
    <2>22. owned'[g] = owned[g] - take[g] /\ onHold'[g] = onHold[g] - hold[r].amounts[g]
      BY <2>0, <2>4
    <2>23. QED BY <2>20, <2>21, <2>22
  <1>2. QED BY <1>1, CreditsAlwaysSound, PTL DEF CreditsSpec, ShortfallIsReal

(* First expiring first.                                                   *)
THEOREM AlwaysUsedInOrder == CreditsSpec => UsedInOrder
  <1> DEFINE Reserves(r, g) == \A h \in issued :
               /\ hold[r].status = "none" /\ hold'[r].status = "active"
               /\ hold'[r].amounts[g] > 0 /\ Expires[h] < Expires[g]
               /\ Effective[h] <= clock /\ Expires[h] > clock
               => owned'[h] = onHold'[h]
             Charges(r, g) == event[r][g] # event'[r][g] /\ Expires[g] <= clock =>
               Amount(event'[r][g]) <= hold[r].amounts[g]
             Step == \A r \in Request, g \in issued : Reserves(r, g) /\ Charges(r, g)
  <1>1. ASSUME CreditsInv, [CreditsNext]_creditsVars, NEW r \in Request, NEW g \in issued
        PROVE  Reserves(r, g)
    <2> SUFFICES ASSUME NEW h \in issued,
                        hold[r].status = "none", hold'[r].status = "active",
                        hold'[r].amounts[g] > 0, Expires[h] < Expires[g],
                        Effective[h] <= clock, Expires[h] > clock
                 PROVE  owned'[h] = onHold'[h]
      OBVIOUS
    <2>0. Typed /\ BooksSound /\ g \in Grant /\ h \in Grant /\ Usable(h)
      BY <1>1 DEF CreditsInv, Typed, Usable
    <2>1. PICK n \in 0..MaxUse : ReserveCredits(r, n)
      BY <1>1, OnlyReservesActivate
    <2>2. n \in Int
      BY CreditsAssumption
    <2> DEFINE take == FefoTake(Spendable, n)
    <2>3. /\ onHold' = [i \in Grant |-> onHold[i] + take[i]]
          /\ hold' = [hold EXCEPT ![r] = [status |-> "active", amounts |-> take]]
          /\ owned' = owned
      BY <2>1 DEF ReserveCredits
    <2>4. hold'[r].amounts = take
      <3>1. hold \in [Request -> Holding]
        BY <2>0 DEF Typed
      <3> HIDE DEF take
      <3>2. QED BY <2>3, <3>1
    <2>5. Before(h, g)
      BY DEF Before, Fefo
    <2>6. Spendable \in [Grant -> Nat]
      BY <2>0, FreeIsNat
    <2>7. take[h] = Spendable[h]
      <3>1. take[g] > 0
        BY <2>4
      <3>2. QED BY <2>0, <2>2, <2>5, <2>6, <3>1, FefoInOrder
    <2>8. Spendable[h] = owned[h] - onHold[h]
      BY <2>0 DEF Spendable, FreeOf
    <2>9. owned[h] \in Nat /\ onHold[h] \in Nat
      BY <2>0 DEF Typed
    <2> HIDE DEF take
    <2>10. onHold'[h] = onHold[h] + take[h]
      BY <2>0, <2>3
    <2>11. QED BY <2>3, <2>7, <2>8, <2>9, <2>10
  <1>2. ASSUME CreditsInv, [CreditsNext]_creditsVars, NEW r \in Request, NEW g \in issued
        PROVE  Charges(r, g)
    <2> SUFFICES ASSUME event[r][g] # event'[r][g], Expires[g] <= clock
                 PROVE  Amount(event'[r][g]) <= hold[r].amounts[g]
      OBVIOUS
    <2>0. /\ Typed /\ BooksSound /\ HeldExplained /\ g \in Grant
          /\ ~Usable(g)
      <3>1. clock \in Int /\ Expires[g] \in Int /\ g \in Grant
        BY <1>2, CreditsAssumption DEF CreditsInv, Typed
      <3>2. QED BY <1>2, <3>1 DEF CreditsInv, Usable
    <2>1. PICK q \in Request, n \in 0..MaxUse : SettleCredits(q, n)
      BY <1>2, WhoChangesWhat
    <2>2. n \in Int
      BY CreditsAssumption
    <2> DEFINE take == Debits(q, n)
               own == FefoTake(hold[q].amounts, n)
               more == FefoTake(Spendable, n - Sum(own))
    <2>3. /\ hold[q].status = "active"
          /\ event' = [event EXCEPT ![q] = [h \in Grant |-> EventFor(h, take[h])]]
      BY <2>1 DEF SettleCredits
    <2>4. q = r /\ event'[r][g] = EventFor(g, take[g])
      <3>1. event \in [Request -> [Grant -> Event]]
        BY <2>0 DEF Typed
      <3> HIDE DEF take
      <3>2. q = r
        BY <2>3, <3>1
      <3>3. QED BY <2>0, <2>3, <3>1, <3>2
    <2>5. /\ take \in [Grant -> Nat]
          /\ take[g] <= owned[g]
      <3>1. /\ take \in [Grant -> Nat]
            /\ \A h \in Grant :
                 /\ owned[h] \in Nat /\ onHold[h] \in Nat /\ onHold[h] <= owned[h]
                 /\ hold[q].amounts[h] \in Nat /\ hold[q].amounts[h] <= onHold[h]
                 /\ take[h] <= owned[h] - onHold[h] + hold[q].amounts[h]
        BY <2>0, <2>2, <2>3, DebitsBounded
      <3> HIDE DEF take
      <3>2. take[g] \in Nat
        BY <2>0, <3>1
      <3>3. QED BY <2>0, <3>1, <3>2
    <2>6. take[g] <= hold[q].amounts[g]
      <3>1. hold[q].amounts \in [Grant -> Nat]
        BY <2>0 DEF Typed, Holding
      <3>2. own \in [Grant -> Nat] /\ own[g] <= hold[q].amounts[g]
        BY <2>0, <2>2, <3>1, FefoTakes
      <3>3. Spendable \in [Grant -> Nat] /\ Spendable[g] = 0
        BY <2>0, FreeIsNat DEF Spendable
      <3>4. n - Sum(own) \in Int
        <4>1. DOMAIN own = Grant /\ IsFiniteSet(Grant) /\ \A h \in Grant : own[h] \in Nat
          BY <3>2, CreditsAssumption
        <4> HIDE DEF own
        <4>2. Sum(own) \in Nat
          BY <4>1, SumIsNat
        <4>3. QED BY <2>2, <4>2
      <3>5. more \in [Grant -> Nat] /\ more[g] <= Spendable[g]
        BY <2>0, <3>3, <3>4, FefoTakes
      <3>6. take = [h \in Grant |-> own[h] + more[h]]
        BY DEF Debits, HeldThenFree
      <3> HIDE DEF own, more, take
      <3>7. own[g] \in Nat /\ more[g] \in Nat /\ hold[q].amounts[g] \in Nat /\ more[g] <= 0
        BY <2>0, <3>1, <3>2, <3>3, <3>5
      <3>8. QED BY <2>0, <3>2, <3>6, <3>7
    <2> HIDE DEF take, own, more
    <2>7. /\ EventFor(g, take[g]) \in Event
          /\ SumFunctionOnSet(EventFor(g, take[g]).units, Kind) = take[g]
      <3>1. take[g] \in Nat
        BY <2>0, <2>5
      <3>2. QED BY <2>0, <2>5, <3>1, EventForIsSound
    <2>8. Amount(EventFor(g, take[g])) = take[g]
      BY <2>7 DEF Amount, Sum, Event
    <2>9. QED BY <2>4, <2>6, <2>8
  <1>3. CreditsInv /\ [CreditsNext]_creditsVars => Step
    <2> HIDE DEF Reserves, Charges
    <2>1. QED BY <1>1, <1>2
  <1>4. Step => \A r \in Request, g \in issued :
                  /\ \A h \in issued :
                       /\ hold[r].status = "none" /\ hold'[r].status = "active"
                       /\ hold'[r].amounts[g] > 0 /\ Expires[h] < Expires[g]
                       /\ Effective[h] <= clock /\ Expires[h] > clock
                       => owned'[h] = onHold'[h]
                  /\ event[r][g] # event'[r][g] /\ Expires[g] <= clock =>
                       Amount(event'[r][g]) <= hold[r].amounts[g]
    OBVIOUS
  <1> HIDE DEF Step
  <1>5. QED BY <1>3, <1>4, CreditsAlwaysSound, PTL DEF CreditsSpec, UsedInOrder
=============================================================================
