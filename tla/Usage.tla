------------------------------- MODULE Usage -------------------------------
(***************************************************************************)
(* The life of a model request in internal/usage: API instances that admit *)
(* and execute it, reconciliation workers that poll its provider task, and *)
(* the deadline that frees it.                                             *)
(*                                                                         *)
(* An action is one database transaction, or one call of the provider      *)
(* together with what the process decides from its answer.  run[c] is the  *)
(* memory of one call of Execute and poll[w] of one call of RefreshAsync;  *)
(* either is lost at any step (a crash, a disconnected client, a failed    *)
(* statement: the callee returns and nothing else happens).                *)
(*                                                                         *)
(* The holds of an open request are not a variable: they are reserved,     *)
(* settled and released in the very transactions that open and end it.     *)
(***************************************************************************)
EXTENDS Integers, Sequences, FiniteSetsExt, Functions

CONSTANTS
  Request,      \* the business keys used with one API key
  Caller,       \* calls of Execute in progress
  Poller,       \* calls of RefreshAsync in progress
  Correction,   \* business keys of charge corrections
  Input,        \* request bodies, as far as their fingerprint
  Kind,         \* Kind[i]: the body asks for a "plain", "stream" or "video" answer
  CostSeen,     \* whether an answer carries a cost: a subset of BOOLEAN
  Routes,       \* number of candidate upstreams in a quote
  Estimate,     \* Estimate[r]: what admission reserves
  MaxUse,       \* bound: largest metered amount
  Credits,      \* the customer's credits
  BudgetLimit, ConcurrencyLimit,   \* of the API key
  UsageTimeout,
  Horizon,      \* bound: last tick
  None

VARIABLES
  status, input, cancelRequested, deadline,
  bill,         \* actual, charged, overage, corrected, corrected_charged
  attempts,     \* attempts[r]: the rows of usage_attempts, oldest first
  correction,   \* correction[r]: business key -> amount, 0 when absent
  credits,      \* balance of the customer's grants
  run, poll, now

ASSUME RequestsAssumption ==
  /\ IsFiniteSet(Request) /\ Estimate \in [Request -> Nat]
  /\ Kind \in [Input -> {"plain", "stream", "video"}] /\ CostSeen \subseteq BOOLEAN
ASSUME LimitsAssumption ==
  /\ Credits \in Nat /\ BudgetLimit \in Nat /\ Routes \in Nat
  /\ MaxUse \in Nat /\ UsageTimeout \in Nat /\ Horizon \in Nat

row == <<status, input, cancelRequested, deadline>>
money == <<bill, correction, credits>>
vars == <<row, money, attempts, run, poll, now>>

Open == {"accepted", "executing", "submitted", "awaiting_usage"}
Terminal == {"completed", "failed", "free"}
Bill == [actual : Nat, charged : Nat, overage : Nat, corrected : Nat, returned : Nat]

(* What the runtime answers: its verdict, whether it metered the usage,    *)
(* whether output reached the customer, whether a cost was observed, and   *)
(* whether it returned an error next to the result.                        *)
Verdict == {"completed", "submitted", "failed", "outcome_unknown", "not_dispatched"}
Reply == [verdict : Verdict, reliable : BOOLEAN, delivered : BOOLEAN,
          cost : BOOLEAN, error : BOOLEAN]
Answer(v, u, d, c, e) ==
  [verdict |-> v, reliable |-> u, delivered |-> d, cost |-> c, error |-> e]
Refusals == {Answer("not_dispatched", FALSE, FALSE, FALSE, TRUE)}
Failures == {Answer("failed", FALSE, FALSE, FALSE, TRUE)}
Unknowns == {Answer("outcome_unknown", FALSE, FALSE, FALSE, TRUE)}
Results(delivered) ==
  {a \in Reply : /\ a.verdict = "completed" /\ a.delivered = delivered
                 /\ a.cost \in CostSeen /\ (a.error <=> ~a.reliable)}
Successes == Results(FALSE)
VideoAnswers == {Answer("submitted", FALSE, FALSE, FALSE, FALSE),
                 Answer("failed", FALSE, FALSE, FALSE, FALSE)}
StreamAnswers ==
  Results(TRUE)
  \cup {Answer("completed", FALSE, FALSE, FALSE, TRUE)}   \* closed without a chunk
  \cup {a \in Reply : /\ a.error /\ ~a.cost
                       /\ \/ a.verdict = "outcome_unknown"
                          \/ a.verdict = "failed" /\ a.delivered}
Answers(i) ==
  Refusals \cup Failures \cup Unknowns \cup
    CASE Kind[i] = "plain" -> Successes
      [] Kind[i] = "stream" -> StreamAnswers
      [] Kind[i] = "video" -> Successes \cup VideoAnswers
IsVideo(r) == input[r] # None /\ Kind[input[r]] = "video"

(* An attempt row.  ran is a fact about the world, not a column: the       *)
(* provider worked on it.                                                  *)
Attempt == [state : Verdict \cup {"dispatching"}, input : Input, task : BOOLEAN,
            delivered : BOOLEAN, cost : {"pending", "observed", "nothing"},
            ran : BOOLEAN]

(* run[c].pc: "claim" after admission, "route" at the head of the loop     *)
(* over candidates, "call" inside the runtime, "record" with its answer,   *)
(* "release" and "finish" at the two ends.                                 *)
Idle == [pc |-> "idle", request |-> None, input |-> None, route |-> 0,
         attempt |-> 0, last |-> None]
Resting == [pc |-> "idle", request |-> None, attempt |-> 0, reply |-> None]

TypeOK ==
  /\ status \in [Request -> Open \cup Terminal \cup {"absent"}]
  /\ input \in [Request -> Input \cup {None}]
  /\ cancelRequested \in [Request -> BOOLEAN]
  /\ deadline \in [Request -> Nat]
  /\ bill \in [Request -> Bill]
  /\ attempts \in [Request -> Seq(Attempt)]
  /\ correction \in [Request -> [Correction -> Nat]]
  /\ credits \in Nat
  /\ run \in [Caller ->
       [pc : {"idle", "claim", "route", "call", "record", "release", "finish"},
        request : Request \cup {None}, input : Input \cup {None},
        route : Nat, attempt : Nat, last : Reply \cup {None}]]
  /\ poll \in [Poller ->
       [pc : {"idle", "record", "settle"}, request : Request \cup {None},
        attempt : Nat, reply : Reply \cup {None}]]
  /\ now \in Nat

Init ==
  /\ status = [r \in Request |-> "absent"]
  /\ input = [r \in Request |-> None]
  /\ cancelRequested = [r \in Request |-> FALSE]
  /\ deadline = [r \in Request |-> 0]
  /\ bill = [r \in Request |-> [actual |-> 0, charged |-> 0, overage |-> 0,
                                corrected |-> 0, returned |-> 0]]
  /\ attempts = [r \in Request |-> <<>>]
  /\ correction = [r \in Request |-> [k \in Correction |-> 0]]
  /\ credits = Credits
  /\ run = [c \in Caller |-> Idle] /\ poll = [w \in Poller |-> Resting]
  /\ now = 0

-----------------------------------------------------------------------------
(* Sums over the requests of the key, in one budget window. *)
IsOpen(r) == status[r] \in Open
OpenRequests == {r \in Request : IsOpen(r)}
HeldByExecuting == SumFunctionOnSet(Estimate, {r \in Request : status[r] = "executing"})
Held == SumFunctionOnSet(Estimate, OpenRequests)
Owed == [r \in Request |-> bill[r].actual - bill[r].corrected]
Spent == SumFunctionOnSet(Owed, Request)

\* Mutant: a replay is recognised by its business key alone.
SameKey(r, i) == TRUE
SameRequest(r, i) == input[r] = i

\* Mutant: only what is being executed counts against the budget.
HasBudgetAtRun(r) == Spent + HeldByExecuting + Estimate[r] <= BudgetLimit
HasBudget(r) == Spent + Held + Estimate[r] <= BudgetLimit

(* Admit: under the lock of the key row either the request is found again  *)
(* or its limits are checked, credits reserved and the row inserted.       *)
AdmitNew(c, r, i) ==
  /\ run[c].pc = "idle" /\ status[r] = "absent"
  /\ Cardinality(OpenRequests) < ConcurrencyLimit
  /\ HasBudget(r)
  /\ Estimate[r] > 0 => Held + Estimate[r] <= credits
  /\ now + UsageTimeout <= Horizon     \* bound
  /\ status' = [status EXCEPT ![r] = "accepted"]
  /\ input' = [input EXCEPT ![r] = i]
  /\ deadline' = [deadline EXCEPT ![r] = now + UsageTimeout]
  /\ run' = [run EXCEPT ![c] = [Idle EXCEPT !.pc = "claim", !.request = r, !.input = i]]
  /\ UNCHANGED <<cancelRequested, money, attempts, poll, now>>

(* Another body under the same key is a conflict, a terminal request is    *)
(* answered from its stored result: neither changes anything.              *)
AdmitAgain(c, r, i) ==
  /\ run[c].pc = "idle" /\ IsOpen(r) /\ SameRequest(r, i)
  /\ run' = [run EXCEPT ![c] = [Idle EXCEPT !.pc = "claim", !.request = r, !.input = i]]
  /\ UNCHANGED <<row, money, attempts, poll, now>>

Claimable(r) == status[r] = "accepted" /\ ~cancelRequested[r]

ClaimExecution(c) ==
  LET r == run[c].request IN
  /\ run[c].pc = "claim"
  /\ IF Claimable(r)
     THEN /\ status' = [status EXCEPT ![r] = "executing"]
          /\ run' = [run EXCEPT ![c].pc = "route", ![c].route = 1]
     ELSE /\ run' = [run EXCEPT ![c] = Idle]    \* ErrInProgress
          /\ UNCHANGED status
  /\ UNCHANGED <<input, cancelRequested, deadline, money, attempts, poll, now>>

-----------------------------------------------------------------------------
(* The loop over candidates.  ClaimRoute refuses after the deadline and    *)
(* when the circuit or the capacity of the upstream does; the loop ends    *)
(* when the context does (deadline, cancellation, client gone).            *)
Dispatch(c) ==
  LET r == run[c].request IN
  /\ run[c].pc = "route" /\ run[c].route <= Routes
  /\ now < deadline[r]
  /\ attempts' = [attempts EXCEPT ![r] = Append(@,
       [state |-> "dispatching", input |-> run[c].input, task |-> FALSE,
        delivered |-> FALSE, cost |-> "pending", ran |-> FALSE])]
  /\ run' = [run EXCEPT ![c].pc = "call", ![c].attempt = Len(attempts[r]) + 1]
  /\ UNCHANGED <<row, money, poll, now>>

RouteUnavailable(c) ==
  /\ run[c].pc = "route" /\ run[c].route <= Routes
  /\ run' = [run EXCEPT ![c].route = @ + 1]
  /\ UNCHANGED <<row, money, attempts, poll, now>>

EndLoop(c) ==
  /\ run[c].pc = "route"
  /\ run' = [run EXCEPT ![c].pc = IF run[c].last = None THEN "release" ELSE "finish"]
  /\ UNCHANGED <<row, money, attempts, poll, now>>

(* The provider works on the attempt, or not, and the runtime answers.     *)
(* It did when it answered with a result, a task or output; a definite     *)
(* failure before any output means it did not; nobody knows the rest.      *)
Worked(a) == \/ a.verdict \in {"completed", "submitted"}
             \/ a.verdict = "failed" /\ (a.delivered \/ ~a.error)
             \/ a.verdict = "outcome_unknown" /\ (a.delivered \/ a.reliable)
MayHaveWorked(a) == {Worked(a)} \cup (IF a.verdict = "outcome_unknown" THEN {TRUE} ELSE {})

Call(c) ==
  LET r == run[c].request
      n == run[c].attempt
  IN  /\ run[c].pc = "call"
      /\ \E a \in Answers(run[c].input) : \E ran \in MayHaveWorked(a) :
           /\ attempts' = [attempts EXCEPT ![r][n].ran = ran]
           /\ run' = [run EXCEPT ![c].pc = "record", ![c].last = a]
      /\ UNCHANGED <<row, money, poll, now>>

(* Only a video generation has a task; polling it uses the same attempt.   *)
HasTask(i, a) ==
  Kind[i] = "video" /\ (a.verdict \in {"submitted", "completed"} \/ ~a.error)

Outdated(attempt, a) == attempt.state = "completed" /\ ~a.reliable

(* RecordAttempt, on the locked row. *)
Recorded(attempt, a) ==
  IF Outdated(attempt, a) THEN attempt
  ELSE [attempt EXCEPT
          !.state = a.verdict,
          !.task = @ \/ HasTask(attempt.input, a),
          !.delivered = @ \/ a.delivered,
          !.cost = IF @ # "pending" THEN @
                   ELSE IF a.verdict = "not_dispatched" THEN "nothing"
                   ELSE IF a.cost THEN "observed" ELSE @]

\* Mutant: an unknown outcome is taken for a failure.
MovesOnUnknown(a) == ~(a.verdict = "submitted" \/ a.delivered \/ ~a.error)
MovesOn(a) ==
  ~(a.verdict \in {"submitted", "outcome_unknown"} \/ a.delivered \/ ~a.error)

AfterRecord(c, a) ==
  IF a.verdict = "not_dispatched" THEN [run[c] EXCEPT !.pc = "release"]
  ELSE IF MovesOn(a) THEN [run[c] EXCEPT !.pc = "route", !.route = @ + 1]
  ELSE [run[c] EXCEPT !.pc = "finish"]

RecordAttempt(c) ==
  LET r == run[c].request
      n == run[c].attempt
  IN  /\ run[c].pc = "record"
      /\ attempts' = [attempts EXCEPT ![r][n] = Recorded(@, run[c].last)]
      /\ run' = [run EXCEPT ![c] = AfterRecord(c, run[c].last)]
      /\ UNCHANGED <<row, money, poll, now>>

-----------------------------------------------------------------------------
(* release and failUndispatched: the holds go back without a charge. *)
End(r, s) == status' = [status EXCEPT ![r] = s]

\* Mutant: a local refusal frees the request whatever was tried before.
NothingSinceRefusal(c) ==
  run[c].last = None => attempts[run[c].request] = <<>>
NothingRan(c) ==
  LET tried == attempts[run[c].request] IN
  IF run[c].last = None THEN tried = <<>>
  ELSE \A i \in DOMAIN tried : tried[i].state \in {"failed", "not_dispatched"}

FailUndispatched(c) ==
  LET r == run[c].request IN
  /\ run[c].pc = "release"
  /\ IF IsOpen(r) /\ NothingRan(c) THEN End(r, "failed") ELSE UNCHANGED status
  /\ run' = [run EXCEPT ![c] = Idle]
  /\ UNCHANGED <<input, cancelRequested, deadline, money, attempts, poll, now>>

(* SettleCredits takes the hold of the request and what is free, never     *)
(* another request's hold; without a hold nothing is charged at all.       *)
\* Mutant: everything the customer has pays for the request.
FromBalance(r, n) == Min({n, credits})
Debit(r, n) == IF Estimate[r] = 0 THEN 0
               ELSE Min({n, Estimate[r] + credits - Held})

\* Mutant: the difference is not cut off at zero.
OverageSigned(n) == Spent + n - BudgetLimit
Overage(n) == IF Spent + n > BudgetLimit
              THEN Spent + n - BudgetLimit - Max({0, Spent - BudgetLimit}) ELSE 0

\* Mutant: a settlement does not look at the status it finds.
AnyStatus(r) == status[r] # "absent"
Settleable(r) == IsOpen(r)

(* Settle with n metered units: at or after the deadline the request is    *)
(* free even with reliable usage.                                          *)
Settle(r, n) ==
  IF ~Settleable(r) THEN UNCHANGED <<row, money>>
  ELSE IF now >= deadline[r]
  THEN End(r, "free") /\ UNCHANGED <<input, cancelRequested, deadline, money>>
  ELSE /\ End(r, "completed")
       /\ bill' = [bill EXCEPT ![r] =
            [@ EXCEPT !.actual = n, !.charged = Debit(r, n), !.overage = Overage(n)]]
       /\ credits' = credits - Debit(r, n)
       /\ UNCHANGED <<input, cancelRequested, deadline, correction>>

Metered(a) == a.reliable /\ (a.verdict = "completed" \/ a.delivered)

FinishSettled(c) ==
  /\ run[c].pc = "finish" /\ Metered(run[c].last)
  /\ \E n \in 0..MaxUse : Settle(run[c].request, n)
  /\ run' = [run EXCEPT ![c] = Idle]
  /\ UNCHANGED <<attempts, poll, now>>

StillExecuting(r) == status[r] = "executing"

FinishPending(c) ==
  LET r == run[c].request IN
  /\ run[c].pc = "finish" /\ ~Metered(run[c].last)
  /\ IF StillExecuting(r)
     THEN End(r, IF run[c].last.verdict = "submitted" THEN "submitted" ELSE "awaiting_usage")
     ELSE UNCHANGED status
  /\ run' = [run EXCEPT ![c] = Idle]
  /\ UNCHANGED <<input, cancelRequested, deadline, money, attempts, poll, now>>

(* The process dies, the client leaves before a claim, or a statement      *)
(* fails: Execute returns and the request stays where it is.               *)
Abandon(c) ==
  /\ run[c].pc # "idle"
  /\ run' = [run EXCEPT ![c] = Idle]
  /\ UNCHANGED <<row, money, attempts, poll, now>>

RequestCancellation(r) ==
  /\ IsOpen(r)
  /\ cancelRequested' = [cancelRequested EXCEPT ![r] = TRUE]
  /\ UNCHANGED <<status, input, deadline, money, attempts, run, poll, now>>

-----------------------------------------------------------------------------
(* RefreshAsync: look at the request, ask the provider for the latest task *)
(* of the request, book the answer, settle.  A completed request is only   *)
(* polled for its result, which changes nothing here.                      *)
Tasks(r) == {i \in DOMAIN attempts[r] : attempts[r][i].task}
PollAnswers == Refusals \cup Failures \cup Unknowns \cup Successes \cup VideoAnswers

AskProvider(w, r) ==
  /\ poll[w].pc = "idle" /\ IsOpen(r) /\ IsVideo(r) /\ now < deadline[r]
  /\ Tasks(r) # {}
  /\ \E a \in PollAnswers :
       poll' = [poll EXCEPT ![w] = [pc |-> "record", request |-> r,
                                    attempt |-> Max(Tasks(r)), reply |-> a]]
  /\ UNCHANGED <<row, money, attempts, run, now>>

RecordPoll(w) ==
  LET r == poll[w].request
      i == poll[w].attempt
      a == poll[w].reply
  IN  /\ poll[w].pc = "record"
      /\ attempts' = [attempts EXCEPT ![r][i] = Recorded(@, a)]
      /\ poll' = [poll EXCEPT ![w] =
           IF a.reliable /\ a.verdict = "completed" THEN [@ EXCEPT !.pc = "settle"]
           ELSE Resting]
      /\ UNCHANGED <<row, money, run, now>>

SettlePoll(w) ==
  /\ poll[w].pc = "settle"
  /\ \E n \in 0..MaxUse : Settle(poll[w].request, n)
  /\ poll' = [poll EXCEPT ![w] = Resting]
  /\ UNCHANGED <<attempts, run, now>>

AbandonPoll(w) ==
  /\ poll[w].pc # "idle"
  /\ poll' = [poll EXCEPT ![w] = Resting]
  /\ UNCHANGED <<row, money, attempts, run, now>>

\* Mutant: requests nobody started to execute are not looked for.
OverdueIfStarted(r) == status[r] \in Open \ {"accepted"} /\ now >= deadline[r]
Overdue(r) == IsOpen(r) /\ now >= deadline[r]

(* ResolveTimeout, from the worker's usage jobs or a status request. *)
ResolveTimeout(r) ==
  /\ Overdue(r)
  /\ End(r, "free")
  /\ UNCHANGED <<input, cancelRequested, deadline, money, attempts, run, poll, now>>

-----------------------------------------------------------------------------
(* CorrectCustomerCharge: a reduction first removes what the customer      *)
(* never paid; only the rest is returned.                                  *)
\* Mutant: the unpaid part is returned as well.
WholeReduction(r, n) == bill[r].corrected + n
Returned(r, n) == Max({0, bill[r].charged - (Owed[r] - n)})

Correctable(r, n) == bill[r].corrected + n <= bill[r].actual

CorrectCustomerCharge(r, k, n) ==
  /\ status[r] = "completed" /\ correction[r][k] = 0
  /\ Correctable(r, n)
  /\ correction' = [correction EXCEPT ![r][k] = n]
  /\ bill' = [bill EXCEPT ![r] =
       [@ EXCEPT !.corrected = bill[r].corrected + n, !.returned = Returned(r, n)]]
  /\ credits' = credits + Returned(r, n) - bill[r].returned
  /\ UNCHANGED <<row, attempts, run, poll, now>>

Tick == now < Horizon /\ now' = now + 1 /\ UNCHANGED <<row, money, attempts, run, poll>>

Execute(c) ==
  \/ \E r \in Request, i \in Input : AdmitNew(c, r, i) \/ AdmitAgain(c, r, i)
  \/ ClaimExecution(c) \/ Dispatch(c) \/ RouteUnavailable(c) \/ EndLoop(c)
  \/ Call(c) \/ RecordAttempt(c)
  \/ FailUndispatched(c) \/ FinishSettled(c) \/ FinishPending(c) \/ Abandon(c)
RefreshAsync(w) ==
  \/ \E r \in Request : AskProvider(w, r)
  \/ RecordPoll(w) \/ SettlePoll(w) \/ AbandonPoll(w)

Next ==
  \/ \E c \in Caller : Execute(c)
  \/ \E w \in Poller : RefreshAsync(w)
  \/ \E r \in Request : RequestCancellation(r) \/ ResolveTimeout(r)
  \/ \E r \in Request, k \in Correction, n \in 1..MaxUse : CorrectCustomerCharge(r, k, n)
  \/ Tick

Spec == Init /\ [][Next]_vars
(* Time passes, and the maintenance worker scans overdue requests for ever. *)
FairSpec == Spec /\ WF_vars(Tick) /\ \A r \in Request : WF_vars(ResolveTimeout(r))

-----------------------------------------------------------------------------
(* Whoever executes a request, every attempt sends the body that was       *)
(* admitted and priced, and they come one after the other: when Execute    *)
(* moves on, the earlier attempt was answered and gave the customer        *)
(* nothing, so no attempt starts while another may still be running.       *)
AttemptsInSequence ==
  \A r \in Request : \A i \in DOMAIN attempts[r] :
    /\ attempts[r][i].input = input[r]
    /\ i < Len(attempts[r]) =>
         attempts[r][i].state \in {"failed", "completed"} /\ ~attempts[r][i].delivered

(* failUndispatched: a request that failed was worked on by no provider. *)
FailedNeverRan ==
  \A r \in Request : status[r] = "failed" =>
    \A i \in DOMAIN attempts[r] : ~attempts[r][i].ran

(* Admission and settlement share one budget: it is exceeded only by what  *)
(* was metered beyond an estimate.  The overages reported with the         *)
(* settlements are that excess; corrections, which lower what was spent,   *)
(* leave them as they are.                                                 *)
BeyondEstimate == [r \in Request |-> Max({0, bill[r].actual - Estimate[r]})]
Reported == [r \in Request |-> bill[r].overage]
BudgetKept ==
  LET reported == SumFunctionOnSet(Reported, Request)
      excess == Max({0, Spent - BudgetLimit})
  IN  /\ Spent + Held <= BudgetLimit + SumFunctionOnSet(BeyondEstimate, Request)
      /\ reported >= excess
      /\ (\A r \in Request : bill[r].corrected = 0) => reported = excess

(* After any series of corrections the customer has paid what is owed      *)
(* after them, or everything he could pay; the credits add up, and         *)
(* settlements of more use than was estimated leave him at least what the  *)
(* other requests hold.                                                    *)
Paid == [r \in Request |-> bill[r].charged - bill[r].returned]
PaidAsCorrected ==
  /\ \A r \in Request : Paid[r] = Min({bill[r].charged, Owed[r]})
  /\ credits + SumFunctionOnSet(Paid, Request) = Credits
  /\ Held <= credits

(* Every accepted request ends, whatever crashed on the way. *)
EveryRequestEnds == \A r \in Request : IsOpen(r) ~> status[r] \in Terminal

(* Settlements, late answers and deadlines race, but a request ends once:  *)
(* with one bill, which only corrections lower, or free.                   *)
Promise == INSTANCE MeteredCall WITH
  phase <- [r \in Request |->
              CASE status[r] = "absent" -> "none"
                [] status[r] \in Open -> "open"
                [] status[r] = "completed" -> "charged"
                [] OTHER -> "free"],
  bill <- Paid
KeepsPromise == Promise!Spec
=============================================================================
