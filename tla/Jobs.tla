-------------------------------- MODULE Jobs --------------------------------
(***************************************************************************)
(* The durable job queue of internal/jobs: rows of durable_jobs, the       *)
(* workers that lease them, and the staff member who redrives dead ones.   *)
(*                                                                         *)
(* Every method of the service is one PostgreSQL transaction on the row,   *)
(* hence one action.  What happens between two methods, while a worker     *)
(* runs a handler, is where a lease can expire or the process can die: the *)
(* worker's memory is the set of tokens it was handed by Claim.            *)
(*                                                                         *)
(* Time is kept as what is left of it: leased[j] ticks until lease_until,   *)
(* wait[j] ticks until available_at, and Tick lets one tick pass.          *)
(***************************************************************************)
EXTENDS Integers, FiniteSets

CONSTANTS
  Job,              \* the (queue, kind, business_key) triples of one queue
  Owner,            \* lease owners ("worker:<uuid>")
  Nobody,           \* the empty lease_owner
  Budgets,          \* the MaxAttempts callers pass to Enqueue
  AttemptCap,       \* MaxAttempts, the CHECK on max_attempts (100)
  RedriveAttempts,  \* attempts granted by one redrive (the portal grants 3)
  ClaimLimit,       \* rows one Claim may take
  LeaseTicks,       \* lease length
  RetryCap          \* longest retry delay (15 minutes)

VARIABLES
  status,    \* status[j], "absent" when there is no row
  attempts, maxAttempts, fence,
  holder,    \* lease_owner
  leased, wait,
  tokens,    \* claimed jobs in the memory of live workers
  winner     \* history: the attempt whose business result committed, 0 if none

vars == <<status, attempts, maxAttempts, fence, holder, leased, wait, tokens, winner>>

Status == {"absent", "pending", "running", "completed", "dead"}
Token == [job : Job, owner : Owner, fence : Nat, attempt : Nat]

(* The delay doubles from one second and is capped. *)
RetryDelay(n) == LET delay == IF n < 1 THEN 1 ELSE 2^(n - 1)
                 IN  IF delay > RetryCap THEN RetryCap ELSE delay

ASSUME QueueAssumption ==
  /\ Nobody \notin Owner
  /\ AttemptCap \in Nat /\ LeaseTicks \in Nat \ {0}
  /\ RetryCap \in Nat /\ RedriveAttempts \in 1..10
  /\ ClaimLimit \in Nat \ {0}
  /\ Budgets \subseteq 1..AttemptCap
ASSUME RetryAssumption == \A n \in 0..AttemptCap : RetryDelay(n) \in 0..RetryCap

TypeOK ==
  /\ status \in [Job -> Status]
  /\ attempts \in [Job -> 0..AttemptCap] /\ maxAttempts \in [Job -> 0..AttemptCap]
  /\ fence \in [Job -> Nat]
  /\ holder \in [Job -> Owner \cup {Nobody}]
  /\ leased \in [Job -> 0..LeaseTicks] /\ wait \in [Job -> 0..RetryCap]
  /\ tokens \subseteq Token
  /\ winner \in [Job -> Nat]
  \* the CHECKs of the table
  /\ \A j \in Job : /\ status[j] = "running" <=> holder[j] # Nobody
                    /\ attempts[j] <= maxAttempts[j]
                    /\ status[j] = "absent" => attempts[j] = 0

Init ==
  /\ status = [j \in Job |-> "absent"]
  /\ attempts = [j \in Job |-> 0] /\ maxAttempts = [j \in Job |-> 0]
  /\ fence = [j \in Job |-> 0] /\ holder = [j \in Job |-> Nobody]
  /\ leased = [j \in Job |-> 0] /\ wait = [j \in Job |-> 0]
  /\ tokens = {} /\ winner = [j \in Job |-> 0]

-----------------------------------------------------------------------------
(* EnqueueTx inserts the row.  Repeated, it finds the row and answers with *)
(* it, or with a conflict when the input differs, and changes nothing.     *)
Enqueue(j, m) ==
  /\ status[j] = "absent"
  /\ status' = [status EXCEPT ![j] = "pending"]
  /\ maxAttempts' = [maxAttempts EXCEPT ![j] = m]
  /\ UNCHANGED <<attempts, fence, holder, leased, wait, tokens, winner>>

-----------------------------------------------------------------------------
Expired(j) == status[j] = "running" /\ leased[j] = 0

\* Mutants: the final attempt is one too late; the status is not looked at.
ExhaustedLate(j) == Expired(j) /\ attempts[j] > maxAttempts[j]
ExhaustedAnyStatus(j) == leased[j] = 0 /\ attempts[j] >= maxAttempts[j]
Exhausted(j) == Expired(j) /\ attempts[j] >= maxAttempts[j]

Due(j) == /\ attempts[j] < maxAttempts[j]
          /\ \/ status[j] = "pending" /\ wait[j] = 0
             \/ Expired(j)

(* One transaction buries expired rows that have no attempt left and       *)
(* leases due ones; SKIP LOCKED lets it miss rows another claimant holds.  *)
Claim(o, dead, due) ==
  /\ dead \cup due # {}
  /\ \A j \in dead : Exhausted(j)
  /\ \A j \in due : Due(j)
  /\ Cardinality(due) <= ClaimLimit
  /\ status' = [j \in Job |-> IF j \in dead THEN "dead"
                              ELSE IF j \in due THEN "running" ELSE status[j]]
  /\ attempts' = [j \in Job |-> IF j \in due THEN attempts[j] + 1 ELSE attempts[j]]
  /\ fence' = [j \in Job |-> IF j \in due THEN fence[j] + 1 ELSE fence[j]]
  /\ holder' = [j \in Job |-> IF j \in dead THEN Nobody
                              ELSE IF j \in due THEN o ELSE holder[j]]
  /\ leased' = [j \in Job |-> IF j \in dead THEN 0
                             ELSE IF j \in due THEN LeaseTicks ELSE leased[j]]
  /\ tokens' = tokens \cup
       {[job |-> j, owner |-> o, fence |-> fence[j] + 1,
         attempt |-> attempts[j] + 1] : j \in due}
  /\ UNCHANGED <<maxAttempts, wait, winner>>

\* Mutant: the fencing token is not compared.
LeasedByName(t) == /\ status[t.job] = "running" /\ leased[t.job] > 0
                   /\ holder[t.job] = t.owner
(* leaseQuery: the row is still leased to this owner under this fence. *)
Leased(t) == /\ status[t.job] = "running" /\ leased[t.job] > 0
             /\ holder[t.job] = t.owner /\ fence[t.job] = t.fence

(* CompleteTx in the transaction that writes the business result. *)
Complete(t) ==
  /\ Leased(t)
  /\ status' = [status EXCEPT ![t.job] = "completed"]
  /\ holder' = [holder EXCEPT ![t.job] = Nobody]
  /\ leased' = [leased EXCEPT ![t.job] = 0]
  /\ winner' = [winner EXCEPT ![t.job] = t.attempt]
  /\ tokens' = tokens \ {t}
  /\ UNCHANGED <<attempts, maxAttempts, fence, wait>>

Fail(t) ==
  /\ Leased(t)
  /\ status' = [status EXCEPT ![t.job] =
       IF attempts[t.job] >= maxAttempts[t.job] THEN "dead" ELSE "pending"]
  /\ holder' = [holder EXCEPT ![t.job] = Nobody]
  /\ leased' = [leased EXCEPT ![t.job] = 0]
  /\ wait' = [wait EXCEPT ![t.job] = RetryDelay(attempts[t.job])]
  /\ tokens' = tokens \ {t}
  /\ UNCHANGED <<attempts, maxAttempts, fence, winner>>

(* Complete or Fail answer ErrLeaseLost: nothing is written. *)
LeaseLost(t) ==
  /\ ~Leased(t)
  /\ tokens' = tokens \ {t}
  /\ UNCHANGED <<status, attempts, maxAttempts, fence, holder, leased,
                 wait, winner>>

ExtendLease(t) ==
  /\ Leased(t)
  /\ leased' = [leased EXCEPT ![t.job] = LeaseTicks]
  /\ UNCHANGED <<status, attempts, maxAttempts, fence, holder, wait,
                 tokens, winner>>

(* A worker process is lost with everything it had claimed. *)
Crash(o) ==
  /\ \E t \in tokens : t.owner = o
  /\ tokens' = {t \in tokens : t.owner # o}
  /\ UNCHANGED <<status, attempts, maxAttempts, fence, holder, leased,
                 wait, winner>>

RedrivableAny(j) == status[j] \in {"dead", "completed"}   \* mutant
Redrivable(j) == status[j] = "dead"

(* RedriveTx: a staff member grants a dead job more attempts. *)
Redrive(j) ==
  /\ Redrivable(j)
  /\ maxAttempts[j] + RedriveAttempts <= AttemptCap
  /\ status' = [status EXCEPT ![j] = "pending"]
  /\ maxAttempts' = [maxAttempts EXCEPT ![j] = @ + RedriveAttempts]
  /\ wait' = [wait EXCEPT ![j] = 0]
  /\ fence' = [fence EXCEPT ![j] = @ + 1]
  /\ UNCHANGED <<attempts, holder, leased, tokens, winner>>

Tick ==
  /\ \E j \in Job : leased[j] > 0 \/ wait[j] > 0
  /\ leased' = [j \in Job |-> IF leased[j] > 0 THEN leased[j] - 1 ELSE 0]
  /\ wait' = [j \in Job |-> IF wait[j] > 0 THEN wait[j] - 1 ELSE 0]
  /\ UNCHANGED <<status, attempts, maxAttempts, fence, holder,
                 tokens, winner>>

Next ==
  \/ \E j \in Job, m \in Budgets : Enqueue(j, m)
  \/ \E o \in Owner, dead, due \in SUBSET Job : Claim(o, dead, due)
  \/ \E t \in tokens : Complete(t) \/ Fail(t) \/ LeaseLost(t) \/ ExtendLease(t)
  \/ \E o \in Owner : Crash(o)
  \/ \E j \in Job : Redrive(j)
  \/ Tick

Spec == Init /\ [][Next]_vars

(* Time passes; a claimed handler ends one way or another (RunMaintenance  *)
(* bounds it by a timeout); some worker keeps polling the queue.           *)
Polled(j) == \E o \in Owner, dead, due \in SUBSET Job :
               j \in dead \cup due /\ Claim(o, dead, due)
Ended(j) == \E t \in tokens : t.job = j /\ (Complete(t) \/ Fail(t) \/ LeaseLost(t))

Fairness ==
  /\ WF_vars(Tick)
  /\ \A j \in Job : WF_vars(Polled(j)) /\ WF_vars(Ended(j))

FairSpec == Spec /\ Fairness

-----------------------------------------------------------------------------
(* At most one claimed token of a job can still write to the row: two      *)
(* workers never both believe, rightly, that they own it, whatever expired *)
(* or crashed in between and even when an owner name claims a job twice    *)
(* (leaseQuery, service.go:187).                                           *)
OneUsableToken ==
  \A t, u \in tokens : t.job = u.job /\ Leased(t) /\ Leased(u) => t = u

(* The business result that committed is the one of the latest claim, not  *)
(* of a worker whose lease was taken over (service.go:204, "a stale        *)
(* worker's business writes roll back").                                   *)
LatestClaimWins ==
  \A j \in Job : status[j] = "completed" => winner[j] = attempts[j]

(* A committed result is final: no retry, redelivery, redrive or repeated  *)
(* enqueue runs the business action to completion twice (service.go:58).   *)
ResultIsFinal ==
  [][\A j \in Job : winner[j] # 0 => /\ winner'[j] = winner[j]
                                     /\ status'[j] = "completed"]_vars

(* Every accepted job is eventually completed or parked as a dead letter   *)
(* for a human, through crashes and lost leases; none hangs in "running"   *)
(* under an owner that died on the final attempt (service.go:148).         *)
EveryJobSettles ==
  \A j \in Job : status[j] # "absent" ~> status[j] \in {"completed", "dead"}

(* What the queue promises its callers, with leases and workers hidden. *)
Outcome(s) == CASE s = "absent" -> "unknown"
                [] s \in {"pending", "running"} -> "open"
                [] s = "completed" -> "done"
                [] s = "dead" -> "parked"
Work == INSTANCE DurableWork WITH
          Item <- Job, outcome <- [j \in Job |-> Outcome(status[j])]
RefinesDurableWork == Work!Spec
=============================================================================
