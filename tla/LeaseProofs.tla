---------------------------- MODULE LeaseProofs -----------------------------
(***************************************************************************)
(* Proofs about the two parts that hand out leases and take what comes of  *)
(* them only from the holder of the current one: the job queue, where a    *)
(* claim carries a fencing token, and the circuit of a route, where a      *)
(* lease carries an epoch.  The two share no state; the results hold for   *)
(* any jobs, owners, budgets and delays, and any routes, attempts, limits. *)
(***************************************************************************)
EXTENDS Jobs, Circuit, FiniteSetTheorems, TLAPS

-----------------------------------------------------------------------------
(* The job queue.  The typing is inductive alone; OneUsableToken and       *)
(* LatestClaimWins need TokenInv: a token never runs ahead of its row, a   *)
(* fence is handed out once, and the token holding the row's fence holds   *)
(* its last attempt.                                                       *)

\* A claimed token never carries a fence its row has not reached.
NotAhead == \A t \in tokens : t.fence <= fence[t.job]

\* A fencing token is handed out at most once per job.
FenceUnique == \A t, u \in tokens : t.job = u.job /\ t.fence = u.fence => t = u

\* The token that carries the row's fence is the one of its last attempt.
FenceIsLastAttempt ==
  \A t \in tokens : t.fence = fence[t.job] => t.attempt = attempts[t.job]

\* A result commits exactly with the completion of its row.
ResultWithCompletion == \A j \in Job : winner[j] # 0 => status[j] = "completed"

TokenInv == NotAhead /\ FenceUnique /\ FenceIsLastAttempt
IInv == TypeOK /\ TokenInv /\ LatestClaimWins /\ ResultWithCompletion

USE DEF Status, Token

LEMMA InitTypeOK == Init => TypeOK
BY QueueAssumption DEF Init, TypeOK

LEMMA ClaimTypeOK ==
  ASSUME TypeOK, NEW o \in Owner, NEW dead \in SUBSET Job, NEW due \in SUBSET Job,
         Claim(o, dead, due)
  PROVE  TypeOK'
<1>1. \A j \in due : attempts[j] + 1 \in 0..AttemptCap /\ attempts[j] + 1 <= maxAttempts[j]
  BY QueueAssumption DEF Claim, Due, TypeOK
<1>2. \A j \in dead : status[j] = "running"
  BY DEF Claim, Exhausted, Expired
<1>3. tokens' \subseteq Token
  <2>1. \A j \in due : [job |-> j, owner |-> o, fence |-> fence[j] + 1,
                        attempt |-> attempts[j] + 1] \in Token
    BY <1>1, QueueAssumption DEF TypeOK
  <2> QED BY <2>1 DEF Claim, TypeOK
<1>4. \A j \in Job : status'[j] = "running" <=> holder'[j] # Nobody
  <2>1. \A j \in dead : status[j] # "pending"
    BY <1>2
  <2> QED BY QueueAssumption, <1>2 DEF Claim, TypeOK
<1>5. status' \in [Job -> Status] /\ holder' \in [Job -> Owner \cup {Nobody}]
  BY DEF Claim, TypeOK
<1>6. attempts' \in [Job -> 0..AttemptCap]
  BY <1>1 DEF Claim, TypeOK
<1>7. fence' \in [Job -> Nat] /\ leased' \in [Job -> 0..LeaseTicks]
  BY QueueAssumption DEF Claim, TypeOK
<1>8. \A j \in Job : attempts'[j] <= maxAttempts'[j]
  BY <1>1, <1>6 DEF Claim, TypeOK
<1> QED
  BY <1>3, <1>4, <1>5, <1>6, <1>7, <1>8 DEF Claim, TypeOK

LEMMA TickTypeOK == TypeOK /\ Tick => TypeOK'
<1> SUFFICES ASSUME TypeOK, Tick PROVE TypeOK'
  OBVIOUS
<1>1. leased' \in [Job -> 0..LeaseTicks]
  BY QueueAssumption DEF TypeOK, Tick
<1>2. wait' \in [Job -> 0..RetryCap]
  BY QueueAssumption DEF TypeOK, Tick
<1> QED BY <1>1, <1>2 DEF TypeOK, Tick

LEMMA TokenStepTypeOK ==
  ASSUME TypeOK, NEW t \in tokens,
         Complete(t) \/ Fail(t) \/ LeaseLost(t) \/ ExtendLease(t)
  PROVE  TypeOK'
<1>0. t \in Token /\ t.job \in Job /\ t.owner \in Owner /\ t.attempt \in Nat
  BY DEF TypeOK
<1>1. CASE Complete(t)
  BY <1>0, <1>1, QueueAssumption DEF TypeOK, Complete, Leased
<1>2. CASE Fail(t)
  <2>1. RetryDelay(attempts[t.job]) \in 0..RetryCap
    BY <1>0, RetryAssumption DEF TypeOK
  <2>2. wait' \in [Job -> 0..RetryCap]
    BY <1>0, <1>2, <2>1 DEF TypeOK, Fail
  <2> QED BY <1>0, <1>2, <2>2, QueueAssumption DEF TypeOK, Fail, Leased
<1>3. CASE LeaseLost(t)
  BY <1>3 DEF TypeOK, LeaseLost
<1>4. CASE ExtendLease(t)
  BY <1>0, <1>4, QueueAssumption DEF TypeOK, ExtendLease
<1> QED BY <1>1, <1>2, <1>3, <1>4

LEMMA NextTypeOK == TypeOK /\ [Next]_vars => TypeOK'
<1> SUFFICES ASSUME TypeOK, [Next]_vars PROVE TypeOK'
  OBVIOUS
<1>1. ASSUME NEW j \in Job, NEW m \in Budgets, Enqueue(j, m)
      PROVE  TypeOK'
  BY <1>1, QueueAssumption DEF TypeOK, Enqueue
<1>2. ASSUME NEW o \in Owner, NEW dead \in SUBSET Job, NEW due \in SUBSET Job,
             Claim(o, dead, due)
      PROVE  TypeOK'
  BY <1>2, ClaimTypeOK
<1>3. ASSUME NEW t \in tokens,
             Complete(t) \/ Fail(t) \/ LeaseLost(t) \/ ExtendLease(t)
      PROVE  TypeOK'
  BY <1>3, TokenStepTypeOK
<1>4. ASSUME NEW o \in Owner, Crash(o) PROVE TypeOK'
  BY <1>4 DEF TypeOK, Crash
<1>5. ASSUME NEW j \in Job, Redrive(j) PROVE TypeOK'
  BY <1>5, QueueAssumption DEF TypeOK, Redrive, Redrivable
<1>6. CASE UNCHANGED vars
  BY <1>6 DEF TypeOK, vars
<1> QED BY <1>1, <1>2, <1>3, <1>4, <1>5, <1>6, TickTypeOK DEF Next

(* Rows are well typed and satisfy the table's CHECKs in every state. *)
THEOREM TypeCorrect == Spec => []TypeOK
BY InitTypeOK, NextTypeOK, PTL DEF Spec

-----------------------------------------------------------------------------
LEMMA ClaimTokenInv ==
  ASSUME TypeOK, TokenInv, NEW o \in Owner,
         NEW dead \in SUBSET Job, NEW due \in SUBSET Job, Claim(o, dead, due)
  PROVE  TokenInv'
<1> DEFINE Fresh(t) == /\ t.job \in due /\ t.fence = fence[t.job] + 1
                       /\ t.attempt = attempts[t.job] + 1 /\ t.owner = o
<1>1. \A t \in tokens' : t \in tokens \/ Fresh(t)
  BY DEF Claim
<1>2. \A t \in tokens' : /\ t \in tokens => t \in Token /\ t.fence <= fence[t.job]
                         /\ Fresh(t) => t.job \in Job
  BY DEF TypeOK, TokenInv, NotAhead
<1>3. \A j \in Job : /\ j \in due => fence'[j] = fence[j] + 1 /\ attempts'[j] = attempts[j] + 1
                     /\ j \notin due => fence'[j] = fence[j] /\ attempts'[j] = attempts[j]
  BY DEF Claim, TypeOK
<1>4. \A j \in Job : fence[j] \in Nat /\ attempts[j] \in Nat
  BY QueueAssumption DEF TypeOK
<1>5. NotAhead'
  BY <1>1, <1>2, <1>3, <1>4 DEF NotAhead
<1>6. FenceIsLastAttempt'
  <2> SUFFICES ASSUME NEW t \in tokens', t.fence = fence'[t.job]
               PROVE  t.attempt = attempts'[t.job]
    BY DEF FenceIsLastAttempt
  <2>1. CASE Fresh(t)
    BY <2>1, <1>2, <1>3
  <2>2. CASE t \in tokens /\ t.job \in due
    BY <2>2, <1>2, <1>3, <1>4
  <2>3. CASE t \in tokens /\ t.job \notin due
    BY <2>3, <1>2, <1>3 DEF TokenInv, FenceIsLastAttempt
  <2> QED BY <1>1, <2>1, <2>2, <2>3
<1>7. FenceUnique'
  <2> SUFFICES ASSUME NEW t \in tokens', NEW u \in tokens',
                      t.job = u.job, t.fence = u.fence
               PROVE  t = u
    BY DEF FenceUnique
  <2>1. CASE t \in tokens /\ u \in tokens
    BY <2>1 DEF TokenInv, FenceUnique
  <2>2. CASE t \notin tokens /\ u \notin tokens
    BY <2>2 DEF Claim
  <2>3. CASE t \in tokens /\ u \notin tokens
    BY <2>3, <1>1, <1>2, <1>4
  <2>4. CASE t \notin tokens /\ u \in tokens
    BY <2>4, <1>1, <1>2, <1>4
  <2> QED BY <2>1, <2>2, <2>3, <2>4
<1> QED BY <1>5, <1>6, <1>7 DEF TokenInv

LEMMA OtherTokenInv ==
  ASSUME TypeOK, TokenInv, tokens' \subseteq tokens, attempts' = attempts,
         fence' \in [Job -> Nat], \A j \in Job : fence'[j] >= fence[j]
  PROVE  TokenInv'
<1>1. \A t \in tokens' : /\ t \in tokens /\ t.job \in Job /\ t.fence \in Nat
                         /\ t.fence <= fence[t.job] /\ fence[t.job] \in Nat
  BY DEF TypeOK, TokenInv, NotAhead
<1>2. NotAhead'
  BY <1>1 DEF NotAhead
<1>3. FenceUnique'
  BY <1>1 DEF TokenInv, FenceUnique
<1>4. FenceIsLastAttempt'
  <2> SUFFICES ASSUME NEW t \in tokens', t.fence = fence'[t.job]
               PROVE  t.attempt = attempts'[t.job]
    BY DEF FenceIsLastAttempt
  <2>1. t.fence = fence[t.job]
    BY <1>1
  <2> QED BY <1>1, <2>1 DEF TokenInv, FenceIsLastAttempt
<1> QED BY <1>2, <1>3, <1>4 DEF TokenInv

LEMMA NextTokenInv == TypeOK /\ TypeOK' /\ TokenInv /\ [Next]_vars => TokenInv'
<1> SUFFICES ASSUME TypeOK, TypeOK', TokenInv, [Next]_vars PROVE TokenInv'
  OBVIOUS
<1>0. fence' \in [Job -> Nat] /\ \A j \in Job : fence[j] \in Nat
  BY DEF TypeOK
<1>1. ASSUME NEW j \in Job, NEW m \in Budgets, Enqueue(j, m)
      PROVE  TokenInv'
  BY <1>0, <1>1, OtherTokenInv DEF Enqueue
<1>2. ASSUME NEW o \in Owner, NEW dead \in SUBSET Job, NEW due \in SUBSET Job,
             Claim(o, dead, due)
      PROVE  TokenInv'
  BY <1>2, ClaimTokenInv
<1>3. ASSUME NEW t \in tokens,
             Complete(t) \/ Fail(t) \/ LeaseLost(t) \/ ExtendLease(t)
      PROVE  TokenInv'
  BY <1>0, <1>3, OtherTokenInv DEF Complete, Fail, LeaseLost, ExtendLease
<1>4. ASSUME NEW o \in Owner, Crash(o) PROVE TokenInv'
  BY <1>0, <1>4, OtherTokenInv DEF Crash
<1>5. ASSUME NEW j \in Job, Redrive(j) PROVE TokenInv'
  <2>1. \A i \in Job : fence'[i] >= fence[i]
    BY <1>0, <1>5 DEF Redrive, TypeOK
  <2> QED BY <1>0, <1>5, <2>1, OtherTokenInv DEF Redrive
<1>6. CASE Tick
  BY <1>0, <1>6, OtherTokenInv DEF Tick
<1>7. CASE UNCHANGED vars
  BY <1>0, <1>7, OtherTokenInv DEF vars
<1> QED BY <1>1, <1>2, <1>3, <1>4, <1>5, <1>6, <1>7 DEF Next

-----------------------------------------------------------------------------
(* The rows that a step completes are completed by the token of their last *)
(* attempt; completed rows are left alone, since they are neither due, nor *)
(* expired, nor leased, nor dead.                                          *)
LEMMA NextResult ==
  ASSUME IInv, [Next]_vars
  PROVE  /\ LatestClaimWins' /\ ResultWithCompletion'
         /\ \A j \in Job : winner[j] # 0 => /\ winner'[j] = winner[j]
                                            /\ status'[j] = "completed"
<1> DEFINE Kept(j) == /\ winner'[j] = winner[j] /\ attempts'[j] = attempts[j]
                      /\ status[j] = "completed" <=> status'[j] = "completed"
           Moved(j) == /\ status[j] # "completed" /\ status'[j] # "completed"
                       /\ winner'[j] = winner[j]
           Goal(j) == /\ status'[j] = "completed" => winner'[j] = attempts'[j]
                      /\ winner'[j] # 0 => status'[j] = "completed"
                      /\ winner[j] # 0 => /\ winner'[j] = winner[j]
                                          /\ status'[j] = "completed"
<1>0. \A j \in Job : Kept(j) \/ Moved(j) => Goal(j)
  BY DEF IInv, LatestClaimWins, ResultWithCompletion
<1>1. ASSUME NEW j \in Job, NEW m \in Budgets, Enqueue(j, m)
      PROVE  \A i \in Job : Kept(i)
  BY <1>1 DEF Enqueue, IInv, TypeOK
<1>2. ASSUME NEW o \in Owner, NEW dead \in SUBSET Job, NEW due \in SUBSET Job,
             Claim(o, dead, due)
      PROVE  \A i \in Job : Kept(i) \/ Moved(i)
  BY <1>2 DEF Claim, Exhausted, Expired, Due, IInv, TypeOK
<1>3. ASSUME NEW t \in tokens, Complete(t) PROVE \A i \in Job : Goal(i)
  <2>1. t.job \in Job /\ t.fence = fence[t.job]
    BY <1>3 DEF Complete, Leased, IInv, TypeOK
  <2>2. t.attempt = attempts[t.job]
    BY <2>1 DEF IInv, TokenInv, FenceIsLastAttempt
  <2>3. Goal(t.job)
    BY <1>3, <2>1, <2>2 DEF Complete, Leased, IInv, TypeOK, ResultWithCompletion
  <2>4. \A i \in Job \ {t.job} : Kept(i)
    BY <1>3, <2>1 DEF Complete, IInv, TypeOK
  <2> QED BY <1>0, <2>3, <2>4
<1>4. ASSUME NEW t \in tokens, Fail(t) PROVE \A i \in Job : Kept(i) \/ Moved(i)
  BY <1>4 DEF Fail, Leased, IInv, TypeOK
<1>5. ASSUME NEW t \in tokens, LeaseLost(t) \/ ExtendLease(t)
      PROVE  \A i \in Job : Kept(i)
  BY <1>5 DEF LeaseLost, ExtendLease
<1>6. ASSUME NEW o \in Owner, Crash(o) PROVE \A i \in Job : Kept(i)
  BY <1>6 DEF Crash
<1>7. ASSUME NEW j \in Job, Redrive(j) PROVE \A i \in Job : Kept(i) \/ Moved(i)
  BY <1>7 DEF Redrive, Redrivable, IInv, TypeOK
<1>8. ASSUME Tick \/ UNCHANGED vars PROVE \A i \in Job : Kept(i)
  BY <1>8 DEF Tick, vars
<1>9. \A j \in Job : Goal(j)
  BY <1>0, <1>1, <1>2, <1>3, <1>4, <1>5, <1>6, <1>7, <1>8 DEF Next
<1> QED BY <1>9 DEF LatestClaimWins, ResultWithCompletion

LEMMA InitIInv == Init => IInv
BY InitTypeOK DEF Init, IInv, TokenInv, NotAhead, FenceUnique, FenceIsLastAttempt,
                  LatestClaimWins, ResultWithCompletion

LEMMA NextIInv == IInv /\ [Next]_vars => IInv'
BY NextTypeOK, NextTokenInv, NextResult DEF IInv

THEOREM InductiveInvariant == Spec => []IInv
BY InitIInv, NextIInv, PTL DEF Spec

(* Two workers never hold usable tokens of one job: a usable token carries *)
(* the fence of its row, and that fence was handed out once.               *)
THEOREM OneUsableTokenAlways == Spec => []OneUsableToken
<1>1. IInv => OneUsableToken
  BY DEF IInv, TokenInv, FenceUnique, OneUsableToken, Leased
<1> QED BY <1>1, InductiveInvariant, PTL

(* A completed job carries the result of its latest claim.                 *)
THEOREM LatestClaimAlwaysWins == Spec => []LatestClaimWins
BY InductiveInvariant, PTL DEF IInv

(* A committed result never changes and its row stays completed.           *)
THEOREM ResultIsAlwaysFinal == Spec => ResultIsFinal
<1>1. IInv /\ [Next]_vars =>
        [\A j \in Job : winner[j] # 0 => /\ winner'[j] = winner[j]
                                         /\ status'[j] = "completed"]_vars
  BY NextResult
<1> QED BY <1>1, InductiveInvariant, PTL DEF Spec, ResultIsFinal

-----------------------------------------------------------------------------
(* Refinement: every step of the queue moves each row along an edge of     *)
(* DurableWork, or leaves its outcome alone.                               *)
Mapped == [j \in Job |-> Outcome(status[j])]

LEMMA OutcomeOf ==
  ASSUME NEW s \in Status
  PROVE  /\ s = "absent" => Outcome(s) = "unknown"
         /\ s \in {"pending", "running"} => Outcome(s) = "open"
         /\ s = "completed" => Outcome(s) = "done"
         /\ s = "dead" => Outcome(s) = "parked"
         /\ Outcome(s) \in Work!Outcomes
BY DEF Outcome, Work!Outcomes

LEMMA StatusEdges ==
  ASSUME TypeOK, [Next]_vars, NEW j \in Job
  PROVE  \/ status'[j] = status[j]
         \/ status[j] = "absent" /\ status'[j] = "pending"
         \/ /\ status[j] \in {"pending", "running"}
            /\ status'[j] \in {"pending", "running", "completed", "dead"}
         \/ status[j] = "dead" /\ status'[j] = "pending"
<1>1. ASSUME NEW i \in Job, NEW m \in Budgets, Enqueue(i, m)
      PROVE  status'[j] = status[j] \/ (status[j] = "absent" /\ status'[j] = "pending")
  BY <1>1 DEF Enqueue, TypeOK
<1>2. ASSUME NEW o \in Owner, NEW dead \in SUBSET Job, NEW due \in SUBSET Job,
             Claim(o, dead, due)
      PROVE  \/ status'[j] = status[j]
             \/ /\ status[j] \in {"pending", "running"}
                /\ status'[j] \in {"pending", "running", "completed", "dead"}
  BY <1>2 DEF Claim, Exhausted, Expired, Due, TypeOK
<1>3. ASSUME NEW t \in tokens, Complete(t) \/ Fail(t) \/ LeaseLost(t) \/ ExtendLease(t)
      PROVE  \/ status'[j] = status[j]
             \/ /\ status[j] \in {"pending", "running"}
                /\ status'[j] \in {"pending", "running", "completed", "dead"}
  BY <1>3 DEF Complete, Fail, LeaseLost, ExtendLease, Leased, TypeOK
<1>4. ASSUME NEW i \in Job, Redrive(i)
      PROVE  status'[j] = status[j] \/ (status[j] = "dead" /\ status'[j] = "pending")
  BY <1>4 DEF Redrive, Redrivable, TypeOK
<1>5. ASSUME (\E o \in Owner : Crash(o)) \/ Tick \/ UNCHANGED vars
      PROVE  status'[j] = status[j]
  BY <1>5 DEF Crash, Tick, vars
<1> QED BY <1>1, <1>2, <1>3, <1>4, <1>5 DEF Next

LEMMA StepRefines == TypeOK /\ TypeOK' /\ [Next]_vars => [Work!Next]_Mapped
<1> SUFFICES ASSUME TypeOK, TypeOK', [Next]_vars PROVE Work!Next
  OBVIOUS
<1>1. \A j \in Job : /\ status[j] \in Status /\ status'[j] \in Status
                     /\ Outcome(status[j]) \in Work!Outcomes
                     /\ Outcome(status'[j]) \in Work!Outcomes
  <2>1. \A j \in Job : status[j] \in Status /\ status'[j] \in Status
    BY DEF TypeOK
  <2> QED BY <2>1, OutcomeOf
<1>2. /\ Mapped' \in [Job -> Work!Outcomes]
      /\ \A j \in Job : /\ Mapped[j] = Outcome(status[j])
                        /\ Mapped'[j] = Outcome(status'[j])
  BY <1>1 DEF Mapped
<1>3. ASSUME NEW j \in Job
      PROVE  \/ Mapped'[j] = Mapped[j]
             \/ Mapped[j] = "unknown" /\ Mapped'[j] = "open"
             \/ Mapped[j] = "open" /\ Mapped'[j] \in {"done", "parked"}
             \/ Mapped[j] = "parked" /\ Mapped'[j] = "open"
  <2>1. CASE status'[j] = status[j]
    BY <2>1, <1>2
  <2>2. CASE status[j] = "absent" /\ status'[j] = "pending"
    BY <2>2, <1>1, <1>2, OutcomeOf
  <2>3. CASE /\ status[j] \in {"pending", "running"}
             /\ status'[j] \in {"pending", "running", "completed", "dead"}
    BY <2>3, <1>1, <1>2, OutcomeOf
  <2>4. CASE status[j] = "dead" /\ status'[j] = "pending"
    BY <2>4, <1>1, <1>2, OutcomeOf
  <2> QED BY <2>1, <2>2, <2>3, <2>4, StatusEdges
<1> QED
  BY <1>2, <1>3 DEF Mapped, Work!Next, Work!Accept, Work!Finish, Work!Park,
                    Work!Reopen, Work!Move

(* The queue implements the abstract durable work list.                    *)
THEOREM ImplementsDurableWork == Spec => RefinesDurableWork
<1>1. Init => Work!Init
  BY DEF Init, Work!Init, Outcome
<1>2. Spec => []TypeOK
  BY TypeCorrect
<1> QED
  BY <1>1, <1>2, StepRefines, PTL DEF Spec, RefinesDurableWork, Work!Spec, Mapped

-----------------------------------------------------------------------------
(* The circuit of a route is probed by one request at a time and changes   *)
(* on evidence of its own epoch only.  CircuitInv says what its counters   *)
(* are made of.                                                            *)

(* The leases l of route u in epoch e that ended in a state.               *)
Seen(l, u, state, e) ==
  {a \in Attempt : Target[a] = u /\ l[a].state = state /\ l[a].epoch = e}
SeenProbes(l, u, state, e) == {a \in Seen(l, u, state, e) : l[a].probe}

(* Epochs only grow, so nothing that ended before a trip counts after it.  *)
EpochsPast ==
  \A a \in Attempt : /\ lease[a].active => lease[a].state = "running"
                     /\ lease[a].state /= "none" => lease[a].epoch <= health[Target[a]].epoch

(* What the counters of a route with health h and leases l are made of.    *)
Counted(h, l, u) ==
  /\ SeenProbes(l, u, "bad", h.epoch) = {}
  /\ h.circuit = "closed" =>
       /\ h.failures <= Cardinality(Seen(l, u, "bad", h.epoch))
       /\ h.unknown <= Cardinality(Seen(l, u, "bad", h.epoch))
  /\ h.circuit = "open" => h.recovery <= Cardinality(SeenProbes(l, u, "good", h.epoch))

CircuitInv ==
  /\ CircuitTypeOK /\ EpochsPast /\ OneProbeAtATime
  /\ \A u \in Upstream : Counted(health[u], lease, u)

LEMMA FiniteLeases ==
  ASSUME NEW l, NEW u, NEW state, NEW e
  PROVE  /\ IsFiniteSet(Seen(l, u, state, e)) /\ IsFiniteSet(SeenProbes(l, u, state, e))
         /\ Cardinality(Seen(l, u, state, e)) \in Nat
         /\ Cardinality(SeenProbes(l, u, state, e)) \in Nat
  <1>1. /\ Seen(l, u, state, e) \subseteq Attempt
        /\ SeenProbes(l, u, state, e) \subseteq Attempt
    BY DEF Seen, SeenProbes
  <1>2. IsFiniteSet(Attempt)
    BY CircuitAssumption
  <1>3. QED BY <1>1, <1>2, FS_Subset, FS_CardinalityType

LEMMA InitInv == CircuitInit => CircuitInv
  <1> SUFFICES ASSUME CircuitInit PROVE CircuitInv
    OBVIOUS
  <1>1. CircuitTypeOK /\ EpochsPast /\ OneProbeAtATime
    BY CircuitAssumption
       DEF CircuitInit, CircuitTypeOK, Health, Lease, EpochsPast, OneProbeAtATime, Active, Tripped
  <1>2. ASSUME NEW u \in Upstream PROVE Counted(health[u], lease, u)
    <2>1. /\ health[u].circuit = "closed" /\ health[u].failures = 0
          /\ health[u].unknown = 0
      BY DEF CircuitInit
    <2>2. SeenProbes(lease, u, "bad", health[u].epoch) = {}
      BY DEF CircuitInit, Seen, SeenProbes
    <2>3. QED BY <2>1, <2>2, FiniteLeases DEF Counted
  <1>3. QED BY <1>1, <1>2 DEF CircuitInv

(* A lease that does not end leaves the evidence as it was.                *)
LEMMA SameEvidence ==
  ASSUME NEW l, NEW k, NEW u, NEW state, NEW e,
         \A a \in Attempt : k[a] = l[a] \/
           /\ l[a].state /= state /\ k[a].state /= state
  PROVE  Seen(k, u, state, e) = Seen(l, u, state, e)
         /\ SeenProbes(k, u, state, e) = SeenProbes(l, u, state, e)
  BY DEF Seen, SeenProbes

(* A lease that ends adds to the evidence of its route and epoch.          *)
LEMMA OneMore ==
  ASSUME NEW l, NEW k, NEW b \in Attempt, NEW state, l[b].state /= state,
         k[b].state = state, k[b].epoch = l[b].epoch, k[b].probe = l[b].probe,
         \A a \in Attempt \ {b} : k[a] = l[a], NEW u, NEW e
  PROVE  /\ IF Target[b] = u /\ l[b].epoch = e
            THEN /\ Seen(k, u, state, e) = Seen(l, u, state, e) \cup {b}
                 /\ Cardinality(Seen(k, u, state, e)) = Cardinality(Seen(l, u, state, e)) + 1
            ELSE Seen(k, u, state, e) = Seen(l, u, state, e)
         /\ IF Target[b] = u /\ l[b].epoch = e /\ l[b].probe
            THEN /\ SeenProbes(k, u, state, e) = SeenProbes(l, u, state, e) \cup {b}
                 /\ Cardinality(SeenProbes(k, u, state, e))
                      = Cardinality(SeenProbes(l, u, state, e)) + 1
            ELSE SeenProbes(k, u, state, e) = SeenProbes(l, u, state, e)
  <1>1. b \notin Seen(l, u, state, e) /\ b \notin SeenProbes(l, u, state, e)
    BY DEF Seen, SeenProbes
  <1>2. IF Target[b] = u /\ l[b].epoch = e
        THEN Seen(k, u, state, e) = Seen(l, u, state, e) \cup {b}
        ELSE Seen(k, u, state, e) = Seen(l, u, state, e)
    BY DEF Seen
  <1>3. IF Target[b] = u /\ l[b].epoch = e /\ l[b].probe
        THEN SeenProbes(k, u, state, e) = SeenProbes(l, u, state, e) \cup {b}
        ELSE SeenProbes(k, u, state, e) = SeenProbes(l, u, state, e)
    BY DEF Seen, SeenProbes
  <1>4. QED BY <1>1, <1>2, <1>3, FiniteLeases, FS_AddElement

-----------------------------------------------------------------------------
LEMMA ClaimInv == ASSUME CircuitInv, NEW a \in Attempt, ClaimRoute(a) PROVE CircuitInv'
  <1> DEFINE u == Target[a]
  <1> USE CircuitAssumption
  <1>1. /\ lease[a].state = "none" /\ UNCHANGED health /\ u \in Upstream
        /\ Tripped(u) => Active(u) = {}
        /\ lease' = [lease EXCEPT ![a] =
             [state |-> "running", epoch |-> health[u].epoch, probe |-> Tripped(u),
              active |-> TRUE]]
    BY DEF ClaimRoute, Admits
  <1>2. CircuitTypeOK'
    BY <1>1 DEF CircuitInv, CircuitTypeOK, Health, Lease, Tripped
  <1>3. EpochsPast'
    BY <1>1 DEF CircuitInv, EpochsPast, CircuitTypeOK, Health, Lease
  <1>4. OneProbeAtATime'
    BY <1>1 DEF CircuitInv, CircuitTypeOK, Lease, OneProbeAtATime, Active, Tripped
  <1>5. ASSUME NEW v \in Upstream PROVE Counted(health[v], lease, v)'
    <2>1. ASSUME NEW state \in {"good", "bad"}, NEW e
          PROVE  /\ Seen(lease', v, state, e) = Seen(lease, v, state, e)
                 /\ SeenProbes(lease', v, state, e) = SeenProbes(lease, v, state, e)
      <3>1. \A b \in Attempt : lease'[b] = lease[b] \/
              /\ lease[b].state /= state /\ lease'[b].state /= state
        BY <1>1 DEF CircuitInv, CircuitTypeOK, Lease
      <3>2. QED BY <3>1, SameEvidence
    <2>2. QED BY <1>1, <2>1 DEF CircuitInv, Counted
  <1>6. QED BY <1>2, <1>3, <1>4, <1>5 DEF CircuitInv

(* A lease that expires or is given back.                                  *)
LEMMA QuietInv ==
  ASSUME CircuitInv, NEW a \in Attempt, ObserveNotDispatched(a) \/ LeaseExpires(a)
  PROVE  CircuitInv'
  <1> USE CircuitAssumption
  <1>1. PICK state \in {"running", "skipped"} :
          /\ lease' = [lease EXCEPT ![a].state = state, ![a].active = FALSE]
          /\ UNCHANGED health /\ lease[a].state = "running"
    <2>1. CASE ObserveNotDispatched(a)
      BY <2>1 DEF ObserveNotDispatched, Finished
    <2>2. CASE LeaseExpires(a)
      BY <2>2 DEF LeaseExpires, CircuitInv, EpochsPast, CircuitTypeOK, Lease
    <2>3. QED BY <2>1, <2>2
  <1>2. CircuitTypeOK'
    BY <1>1, ZenonT(60) DEF CircuitInv, CircuitTypeOK, Lease
  <1>3. EpochsPast'
    BY <1>1 DEF CircuitInv, EpochsPast, CircuitTypeOK, Lease
  <1>4. OneProbeAtATime'
    BY <1>1 DEF CircuitInv, CircuitTypeOK, Lease, OneProbeAtATime, Active, Tripped
  <1>5. ASSUME NEW v \in Upstream PROVE Counted(health[v], lease, v)'
    <2>1. ASSUME NEW kind \in {"good", "bad"}, NEW e
          PROVE  /\ Seen(lease', v, kind, e) = Seen(lease, v, kind, e)
                 /\ SeenProbes(lease', v, kind, e) = SeenProbes(lease, v, kind, e)
      <3>1. \A b \in Attempt : lease'[b] = lease[b] \/
              /\ lease[b].state /= kind /\ lease'[b].state /= kind
        BY <1>1 DEF CircuitInv, CircuitTypeOK, Lease
      <3>2. QED BY <3>1, SameEvidence
    <2>2. QED BY <1>1, <2>1 DEF CircuitInv, Counted
  <1>6. QED BY <1>2, <1>3, <1>4, <1>5 DEF CircuitInv

LEMMA CooldownInv == ASSUME CircuitInv, NEW u \in Upstream, CooldownEnds(u) PROVE CircuitInv'
  <1>1. UNCHANGED lease /\ \A v \in Upstream :
          /\ health'[v] \in Health
          /\ health'[v].circuit = health[v].circuit /\ health'[v].epoch = health[v].epoch
          /\ health'[v].failures = health[v].failures /\ health'[v].unknown = health[v].unknown
          /\ health'[v].recovery = health[v].recovery
    BY DEF CooldownEnds, CircuitInv, CircuitTypeOK, Health
  <1>2. CircuitTypeOK'
    BY DEF CooldownEnds, CircuitInv, CircuitTypeOK, Health
  <1>3. EpochsPast' /\ OneProbeAtATime'
    BY <1>1, CircuitAssumption DEF CircuitInv, EpochsPast, OneProbeAtATime, Active, Tripped
  <1>4. ASSUME NEW v \in Upstream PROVE Counted(health[v], lease, v)'
    BY <1>1 DEF CircuitInv, Counted
  <1>5. QED BY <1>2, <1>3, <1>4 DEF CircuitInv

-----------------------------------------------------------------------------
(* The health of a route after an observation, in plain terms.             *)
LEMMA RecoveredFields ==
  ASSUME NEW h \in Health, NEW probe \in BOOLEAN
  PROVE  LET g == Recovered(h, probe)
             closes == probe /\ h.recovery + 1 >= RecoverySuccesses
         IN /\ g \in Health /\ g.epoch = h.epoch /\ g.failures = 0 /\ g.unknown = 0
            /\ closes => g.circuit = "closed" /\ g.recovery = 0
            /\ ~closes => /\ g.circuit = h.circuit
                          /\ g.recovery = IF probe THEN h.recovery + 1 ELSE h.recovery
  BY DEF Health, Recovered

LEMMA FailedFields ==
  ASSUME NEW h \in Health, NEW probe \in BOOLEAN, NEW unknown \in BOOLEAN
  PROVE  LET g == Failed(h, probe, unknown)
             more == IF unknown THEN h.unknown + 1 ELSE h.unknown
             trips == \/ probe \/ h.failures + 1 >= FailureThreshold
                      \/ more >= UnknownUsageThreshold
         IN /\ g \in Health /\ g.recovery = 0
            /\ g.failures = h.failures + 1 /\ g.unknown = more
            /\ trips => g.circuit = "open" /\ g.epoch = h.epoch + 1
            /\ ~trips => g.circuit = h.circuit /\ g.epoch = h.epoch
  BY DEF Health, Failed

(* An observation of lease a that ends it as a state, where the health of  *)
(* its route becomes g: what it asks of g to keep the invariant.           *)
LEMMA ObserveInv ==
  ASSUME CircuitInv, NEW a \in Attempt, NEW state \in {"good", "bad"},
         lease[a].state = "running",
         lease' = Finished(a, state), NEW g \in Health,
         health' = [health EXCEPT ![Target[a]] = g],
         \/ g.circuit = health[Target[a]].circuit /\ g.epoch = health[Target[a]].epoch
         \/ g.circuit = "closed" /\ g.epoch = health[Target[a]].epoch
         \/ g.circuit = "open" /\ g.epoch = health[Target[a]].epoch + 1,
         Counted(g, lease', Target[a])
  PROVE  CircuitInv'
  <1> DEFINE u == Target[a]
  <1>1. /\ u \in Upstream /\ health[u] \in Health /\ lease[a] \in Lease
        /\ \A b \in Attempt : Target[b] \in Upstream
      BY CircuitAssumption DEF CircuitInv, CircuitTypeOK
  <1>2. /\ lease' = [lease EXCEPT ![a].state = state, ![a].active = FALSE]
        /\ health'[u] = g /\ \A v \in Upstream \ {u} : health'[v] = health[v]
    BY <1>1 DEF Finished, CircuitInv, CircuitTypeOK
  <1>3. CircuitTypeOK'
    BY <1>1, <1>2 DEF CircuitInv, CircuitTypeOK, Lease
  <1>4. /\ lease'[a].state = state /\ ~lease'[a].active
        /\ lease'[a].epoch = lease[a].epoch /\ lease'[a].probe = lease[a].probe
        /\ \A b \in Attempt \ {a} : lease'[b] = lease[b]
    BY <1>2 DEF CircuitInv, CircuitTypeOK, Lease
  <1>5. EpochsPast'
    <2>1. \A v \in Upstream : /\ health[v].epoch \in Nat /\ health'[v].epoch \in Nat
                              /\ health[v].epoch <= health'[v].epoch
      BY <1>1, <1>2 DEF CircuitInv, CircuitTypeOK, Health
    <2>2. \A b \in Attempt : lease[b].epoch \in Nat /\ lease'[b].epoch = lease[b].epoch
      BY <1>4 DEF CircuitInv, CircuitTypeOK, Lease
    <2>3. \A b \in Attempt : lease[b].state /= "none" =>
            lease[b].epoch <= health[Target[b]].epoch
      BY DEF CircuitInv, EpochsPast
    <2>4. \A b \in Attempt : /\ lease'[b].state /= "none" => lease[b].state /= "none"
                             /\ lease'[b].active => lease'[b].state = "running"
      BY <1>4 DEF CircuitInv, EpochsPast
    <2>5. \A b \in Attempt : lease'[b].state /= "none" =>
            lease'[b].epoch <= health'[Target[b]].epoch
      BY <1>1, <2>1, <2>2, <2>3, <2>4
    <2>6. QED BY <2>4, <2>5 DEF EpochsPast
  <1>6. OneProbeAtATime'
    <2>1. \A v \in Upstream : Active(v)' \subseteq Active(v) /\ a \notin Active(v)'
      BY <1>4 DEF Active
    <2>2. \A v \in Upstream : \A b \in Active(v)' :
            /\ lease'[b] = lease[b] /\ lease[b].epoch \in Nat
            /\ lease[b].epoch <= health[v].epoch
      BY <1>4, <2>1 DEF Active, CircuitInv, EpochsPast, CircuitTypeOK, Lease
    <2>3. ASSUME NEW v \in Upstream, NEW b \in Active(v)', Tripped(v)',
                 lease'[b].epoch = health'[v].epoch
          PROVE  Active(v)' = {b}
      <3>1. Tripped(v) /\ lease[b].epoch = health[v].epoch
        <4>1. CASE v /= u
          BY <1>2, <2>2, <2>3, <4>1 DEF Tripped
        <4>2. CASE v = u
          BY <1>1, <1>2, <2>2, <2>3, <4>2 DEF Tripped, Health
        <4>3. QED BY <4>1, <4>2
      <3>2. Active(v) = {b}
        BY <2>1, <3>1 DEF CircuitInv, OneProbeAtATime
      <3>3. QED BY <2>1, <2>3, <3>2
    <2>4. ASSUME NEW v \in Upstream, NEW b \in Active(v)', lease'[b].probe
          PROVE  \A c \in Active(v)' \ {b} : ~lease'[c].probe
      BY <2>1, <2>2, <2>4 DEF CircuitInv, OneProbeAtATime
    <2>5. QED BY <2>3, <2>4 DEF OneProbeAtATime
  <1>7. ASSUME NEW v \in Upstream PROVE Counted(health[v], lease, v)'
    <2>1. CASE v = u
      BY <1>2, <2>1
    <2>2. CASE v /= u
      <3>1. ASSUME NEW kind \in {"good", "bad"}, NEW e
            PROVE  /\ Seen(lease', v, kind, e) = Seen(lease, v, kind, e)
                   /\ SeenProbes(lease', v, kind, e) = SeenProbes(lease, v, kind, e)
        BY <1>4, <2>2 DEF Seen, SeenProbes
      <3>2. QED BY <1>2, <2>2, <3>1, ZenonT(60) DEF CircuitInv, Counted
    <2>3. QED BY <2>1, <2>2
  <1>8. QED BY <1>3, <1>5, <1>6, <1>7 DEF CircuitInv

(* The evidence of a route after lease a of it ended in a state.           *)
LEMMA Evidence ==
  ASSUME CircuitInv, NEW a \in Attempt, NEW state \in {"good", "bad"},
         lease[a].state = "running",
         lease' = Finished(a, state), NEW u, NEW e
  PROVE  /\ IF Target[a] = u /\ lease[a].epoch = e
            THEN /\ a \in Seen(lease', u, state, e)
                 /\ Cardinality(Seen(lease', u, state, e))
                      = Cardinality(Seen(lease, u, state, e)) + 1
            ELSE Seen(lease', u, state, e) = Seen(lease, u, state, e)
         /\ IF Target[a] = u /\ lease[a].epoch = e /\ lease[a].probe
            THEN /\ a \in SeenProbes(lease', u, state, e)
                 /\ Cardinality(SeenProbes(lease', u, state, e))
                      = Cardinality(SeenProbes(lease, u, state, e)) + 1
            ELSE SeenProbes(lease', u, state, e) = SeenProbes(lease, u, state, e)
         /\ \A other \in {"good", "bad"} \ {state} :
              /\ Seen(lease', u, other, e) = Seen(lease, u, other, e)
              /\ SeenProbes(lease', u, other, e) = SeenProbes(lease, u, other, e)
  <1>1. /\ lease'[a].state = state /\ lease[a].state /= state
        /\ lease'[a].epoch = lease[a].epoch /\ lease'[a].probe = lease[a].probe
        /\ \A b \in Attempt \ {a} : lease'[b] = lease[b]
    BY DEF Finished, CircuitInv, CircuitTypeOK, Lease
  <1>2. \A other \in {"good", "bad"} \ {state} : 
          /\ Seen(lease', u, other, e) = Seen(lease, u, other, e)
          /\ SeenProbes(lease', u, other, e) = SeenProbes(lease, u, other, e)
    BY <1>1 DEF Seen, SeenProbes
  <1>3. /\ IF Target[a] = u /\ lease[a].epoch = e
           THEN /\ Seen(lease', u, state, e) = Seen(lease, u, state, e) \cup {a}
                /\ Cardinality(Seen(lease', u, state, e))
                     = Cardinality(Seen(lease, u, state, e)) + 1
           ELSE Seen(lease', u, state, e) = Seen(lease, u, state, e)
        /\ IF Target[a] = u /\ lease[a].epoch = e /\ lease[a].probe
           THEN /\ SeenProbes(lease', u, state, e) = SeenProbes(lease, u, state, e) \cup {a}
                /\ Cardinality(SeenProbes(lease', u, state, e))
                     = Cardinality(SeenProbes(lease, u, state, e)) + 1
           ELSE SeenProbes(lease', u, state, e) = SeenProbes(lease, u, state, e)
    BY <1>1, OneMore
  <1>4. QED BY <1>2, <1>3

LEMMA SuccessInv == ASSUME CircuitInv, NEW a \in Attempt, ObserveSuccess(a) PROVE CircuitInv'
  <1> DEFINE u == Target[a]
             h == health[u]
             e == h.epoch
             g == IF lease[a].epoch = e THEN Recovered(h, lease[a].probe) ELSE h
  <1>1. /\ u \in Upstream /\ h \in Health /\ lease[a].probe \in BOOLEAN
        /\ Counted(h, lease, u)
    BY CircuitAssumption DEF CircuitInv, CircuitTypeOK, Lease
  <1>2. /\ lease[a].state = "running" /\ lease' = Finished(a, "good")
        /\ health' = [health EXCEPT ![u] = g]
    BY DEF ObserveSuccess, CircuitInv, CircuitTypeOK
  <1>3. /\ Seen(lease', u, "bad", e) = Seen(lease, u, "bad", e)
        /\ SeenProbes(lease', u, "bad", e) = SeenProbes(lease, u, "bad", e)
        /\ IF lease[a].epoch = e /\ lease[a].probe
           THEN Cardinality(SeenProbes(lease', u, "good", e))
                  = Cardinality(SeenProbes(lease, u, "good", e)) + 1
           ELSE SeenProbes(lease', u, "good", e) = SeenProbes(lease, u, "good", e)
    BY <1>2, Evidence
  <1>4. /\ Cardinality(SeenProbes(lease, u, "good", e)) \in Nat
        /\ Cardinality(Seen(lease, u, "bad", e)) \in Nat
    BY FiniteLeases
  <1>5. CASE lease[a].epoch = e
    <2>1. g = Recovered(h, lease[a].probe)
      BY <1>5
    <2>2. /\ g \in Health /\ g.epoch = e /\ g.failures = 0 /\ g.unknown = 0
          /\ \/ g.circuit = "closed" /\ g.recovery = 0
             \/ /\ g.circuit = h.circuit
                /\ g.recovery = IF lease[a].probe THEN h.recovery + 1 ELSE h.recovery
      BY <1>1, <2>1, RecoveredFields
    <2> HIDE DEF g
    <2>3. Counted(g, lease', u)
      BY <1>1, <1>3, <1>4, <1>5, <2>2 DEF Counted, Health
    <2>4. QED BY <1>2, <2>2, <2>3, ObserveInv
  <1>6. CASE lease[a].epoch /= e
    <2>1. g = h
      BY <1>6
    <2> HIDE DEF g
    <2>2. Counted(g, lease', u)
      BY <1>1, <1>3, <1>6, <2>1 DEF Counted
    <2>3. QED BY <1>1, <1>2, <2>1, <2>2, ObserveInv
  <1>7. QED BY <1>5, <1>6

LEMMA FailureInv ==
  ASSUME CircuitInv, NEW a \in Attempt, NEW unknown \in BOOLEAN, ObserveFailure(a, unknown)
  PROVE  CircuitInv'
  <1> DEFINE u == Target[a]
             h == health[u]
             e == h.epoch
             g == IF lease[a].epoch = e THEN Failed(h, lease[a].probe, unknown) ELSE h
  <1>1. /\ u \in Upstream /\ h \in Health /\ lease[a].probe \in BOOLEAN
        /\ Counted(h, lease, u)
    BY CircuitAssumption DEF CircuitInv, CircuitTypeOK, Lease
  <1>2. /\ lease[a].state = "running" /\ lease' = Finished(a, "bad")
        /\ health' = [health EXCEPT ![u] = g]
    BY DEF ObserveFailure, CircuitInv, CircuitTypeOK
  <1>3. /\ SeenProbes(lease', u, "good", e) = SeenProbes(lease, u, "good", e)
        /\ IF lease[a].epoch = e
           THEN Cardinality(Seen(lease', u, "bad", e)) = Cardinality(Seen(lease, u, "bad", e)) + 1
           ELSE Seen(lease', u, "bad", e) = Seen(lease, u, "bad", e)
        /\ ~(lease[a].epoch = e /\ lease[a].probe) =>
             SeenProbes(lease', u, "bad", e) = SeenProbes(lease, u, "bad", e)
    BY <1>2, Evidence
  <1>4. /\ Cardinality(SeenProbes(lease, u, "good", e)) \in Nat
        /\ Cardinality(Seen(lease, u, "bad", e)) \in Nat
    BY FiniteLeases
  <1>5. CASE lease[a].epoch = e
    <2>1. g = Failed(h, lease[a].probe, unknown)
      BY <1>5
    <2>2. /\ g \in Health /\ g.recovery = 0 /\ g.failures = h.failures + 1
          /\ g.unknown \in {h.unknown, h.unknown + 1}
          /\ \/ g.circuit = "open" /\ g.epoch = e + 1
             \/ g.circuit = h.circuit /\ g.epoch = e /\ ~lease[a].probe
      BY <1>1, <2>1, FailedFields, SMTT(30)
    <2> HIDE DEF g
    <2>3. Counted(g, lease', u)
      <3>1. CASE g.circuit = "open" /\ g.epoch = e + 1
        <4>1. \A b \in Attempt : Target[b] = u /\ lease'[b].state /= "none" =>
                lease'[b].epoch /= e + 1
          <5>1. \A b \in Attempt : /\ lease'[b].epoch = lease[b].epoch /\ lease[b].epoch \in Nat
                                   /\ lease'[b].state /= "none" => lease[b].state /= "none"
            BY <1>2 DEF Finished, CircuitInv, CircuitTypeOK, Lease
          <5>2. e \in Nat
            BY <1>1 DEF Health
          <5>3. QED BY <5>1, <5>2 DEF CircuitInv, EpochsPast
        <4>2. SeenProbes(lease', u, "bad", e + 1) = {}
          BY <4>1 DEF Seen, SeenProbes
        <4>3. Cardinality(SeenProbes(lease', u, "good", e + 1)) \in Nat
          BY FiniteLeases
        <4>4. QED BY <2>2, <3>1, <4>2, <4>3 DEF Counted
      <3>2. CASE g.circuit = h.circuit /\ g.epoch = e /\ ~lease[a].probe
        BY <1>1, <1>3, <1>4, <1>5, <2>2, <3>2 DEF Counted, Health
      <3>3. QED BY <2>2, <3>1, <3>2
    <2>4. QED BY <1>2, <2>2, <2>3, ObserveInv
  <1>6. CASE lease[a].epoch /= e
    <2>1. g = h
      BY <1>6
    <2> HIDE DEF g
    <2>2. Counted(g, lease', u)
      BY <1>1, <1>3, <1>6, <2>1 DEF Counted
    <2>3. QED BY <1>1, <1>2, <2>1, <2>2, ObserveInv
  <1>7. QED BY <1>5, <1>6

LEMMA NextInv == ASSUME CircuitInv, [CircuitNext]_circuitVars PROVE CircuitInv'
  <1>1. CASE UNCHANGED circuitVars
    <2>1. CircuitTypeOK' /\ EpochsPast' /\ OneProbeAtATime'
      BY <1>1 DEF circuitVars, CircuitInv, CircuitTypeOK, EpochsPast, OneProbeAtATime, Active,
                   Tripped
    <2>2. ASSUME NEW u \in Upstream PROVE Counted(health[u], lease, u)'
      BY <1>1 DEF circuitVars, CircuitInv, Counted, Seen, SeenProbes
    <2>3. QED BY <2>1, <2>2 DEF CircuitInv
  <1>2. ASSUME NEW a \in Attempt, ClaimRoute(a) PROVE CircuitInv'
    BY <1>2, ClaimInv
  <1>3. ASSUME NEW a \in Attempt, ObserveSuccess(a) PROVE CircuitInv'
    BY <1>3, SuccessInv
  <1>4. ASSUME NEW a \in Attempt, NEW unknown \in BOOLEAN, ObserveFailure(a, unknown)
        PROVE  CircuitInv'
    BY <1>4, FailureInv
  <1>5. ASSUME NEW a \in Attempt, ObserveNotDispatched(a) \/ LeaseExpires(a) PROVE CircuitInv'
    BY <1>5, QuietInv
  <1>6. ASSUME NEW u \in Upstream, CooldownEnds(u) PROVE CircuitInv'
    BY <1>6, CooldownInv
  <1>7. QED BY <1>1, <1>2, <1>3, <1>4, <1>5, <1>6 DEF CircuitNext

(* IInv holds always: types, epochs, probes, and counters that are made of *)
(* the observations of the current epoch.                                  *)
THEOREM Invariant == CircuitSpec => []CircuitInv
  BY InitInv, NextInv, PTL DEF CircuitSpec

(* TypeOK for any number of routes and attempts.                           *)
THEOREM CircuitTypeCorrect == CircuitSpec => []CircuitTypeOK
  <1>1. CircuitInv => CircuitTypeOK
    BY DEF CircuitInv
  <1>2. QED BY <1>1, Invariant, PTL

(* OneProbeAtATime for any number of routes, attempts and any limits: the  *)
(* request that verifies a tripped route has it for itself.                *)
THEOREM OneProbeAlways == CircuitSpec => []OneProbeAtATime
  <1>1. CircuitInv => OneProbeAtATime
    BY DEF CircuitInv
  <1>2. QED BY <1>1, Invariant, PTL

-----------------------------------------------------------------------------
(* A route changes by an observation of a lease of its epoch.              *)
LEMMA ChangedBy ==
  ASSUME CircuitInv, [CircuitNext]_circuitVars, NEW u \in Upstream,
         health'[u].circuit /= health[u].circuit
  PROVE  \E a \in Attempt :
           /\ Target[a] = u /\ lease[a].state = "running"
           /\ lease[a].epoch = health[u].epoch
           /\ \/ ObserveSuccess(a) /\ health'[u] = Recovered(health[u], lease[a].probe)
              \/ \E unknown \in BOOLEAN :
                   /\ ObserveFailure(a, unknown)
                   /\ health'[u] = Failed(health[u], lease[a].probe, unknown)
  <1>1. CASE \E a \in Attempt : ClaimRoute(a) \/ ObserveNotDispatched(a) \/ LeaseExpires(a)
    BY <1>1 DEF ClaimRoute, ObserveNotDispatched, LeaseExpires
  <1>2. CASE UNCHANGED circuitVars
    BY <1>2 DEF circuitVars
  <1>3. CASE \E v \in Upstream : CooldownEnds(v)
    BY <1>3 DEF CooldownEnds, CircuitInv, CircuitTypeOK, Health
  <1>4. ASSUME NEW a \in Attempt, ObserveSuccess(a)
        PROVE  /\ Target[a] = u /\ lease[a].state = "running"
               /\ lease[a].epoch = health[u].epoch
               /\ health'[u] = Recovered(health[u], lease[a].probe)
    BY <1>4, CircuitAssumption DEF ObserveSuccess, CircuitInv, CircuitTypeOK
  <1>5. ASSUME NEW a \in Attempt, NEW unknown \in BOOLEAN, ObserveFailure(a, unknown)
        PROVE  /\ Target[a] = u /\ lease[a].state = "running"
               /\ lease[a].epoch = health[u].epoch
               /\ health'[u] = Failed(health[u], lease[a].probe, unknown)
    BY <1>5, CircuitAssumption DEF ObserveFailure, CircuitInv, CircuitTypeOK
  <1>6. QED BY <1>1, <1>2, <1>3, <1>4, <1>5 DEF CircuitNext

LEMMA Closing ==
  ASSUME CircuitInv, NEW u \in Upstream, NEW a \in Attempt, Target[a] = u,
         lease[a].epoch = health[u].epoch, ObserveSuccess(a),
         health'[u] = Recovered(health[u], lease[a].probe),
         health[u].circuit = "open", health'[u].circuit = "closed"
  PROVE  /\ Cardinality(SeenProbes(lease', u, "good", health[u].epoch)) >= RecoverySuccesses
         /\ SeenProbes(lease', u, "bad", health[u].epoch) = {}
  <1> DEFINE e == health[u].epoch
  <1>1. health[u] \in Health /\ lease[a].probe \in BOOLEAN /\ Counted(health[u], lease, u)
    BY DEF CircuitInv, CircuitTypeOK, Lease
  <1>2. lease[a].state = "running" /\ lease' = Finished(a, "good")
    BY DEF ObserveSuccess
  <1>3. lease[a].probe /\ health[u].recovery + 1 >= RecoverySuccesses
    BY <1>1, RecoveredFields
  <1>4. /\ Cardinality(SeenProbes(lease', u, "good", e))
             = Cardinality(SeenProbes(lease, u, "good", e)) + 1
        /\ SeenProbes(lease', u, "bad", e) = SeenProbes(lease, u, "bad", e)
    BY <1>2, <1>3, Evidence
  <1>5. Cardinality(SeenProbes(lease, u, "good", e)) \in Nat
    BY FiniteLeases
  <1>6. QED BY <1>1, <1>3, <1>4, <1>5, CircuitAssumption DEF Counted, Health

LEMMA Tripping ==
  ASSUME CircuitInv, NEW u \in Upstream, NEW a \in Attempt, NEW unknown \in BOOLEAN,
         Target[a] = u, lease[a].epoch = health[u].epoch, ObserveFailure(a, unknown),
         health'[u] = Failed(health[u], lease[a].probe, unknown),
         health[u].circuit = "closed", health'[u].circuit = "open"
  PROVE  \/ SeenProbes(lease', u, "bad", health[u].epoch) /= {}
         \/ Cardinality(Seen(lease', u, "bad", health[u].epoch)) >= UnknownUsageThreshold
         \/ Cardinality(Seen(lease', u, "bad", health[u].epoch)) >= FailureThreshold
  <1> DEFINE e == health[u].epoch
             more == IF unknown THEN health[u].unknown + 1 ELSE health[u].unknown
  <1>1. health[u] \in Health /\ lease[a].probe \in BOOLEAN /\ Counted(health[u], lease, u)
    BY DEF CircuitInv, CircuitTypeOK, Lease
  <1>2. lease[a].state = "running" /\ lease' = Finished(a, "bad")
    BY DEF ObserveFailure
  <1>3. \/ lease[a].probe \/ health[u].failures + 1 >= FailureThreshold
        \/ more >= UnknownUsageThreshold
    BY <1>1, FailedFields
  <1>4. /\ Cardinality(Seen(lease', u, "bad", e)) = Cardinality(Seen(lease, u, "bad", e)) + 1
        /\ lease[a].probe => a \in SeenProbes(lease', u, "bad", e)
    BY <1>2, Evidence
  <1>5. Cardinality(Seen(lease, u, "bad", e)) \in Nat
    BY FiniteLeases
  <1>6. /\ health[u].failures + 1 <= Cardinality(Seen(lease', u, "bad", e))
        /\ more <= Cardinality(Seen(lease', u, "bad", e))
    BY <1>1, <1>4, <1>5 DEF Counted, Health
  <1>7. QED BY <1>1, <1>3, <1>4, <1>5, <1>6, CircuitAssumption DEF Health

(* ChangesOnEvidence for any number of routes, attempts and any limits.    *)
THEOREM AlwaysOnEvidence == CircuitSpec => ChangesOnEvidence
  <1> DEFINE Step ==
        \A u \in Upstream :
          LET good == Observed(u, "good", health[u].epoch)
              bad == Observed(u, "bad", health[u].epoch)
          IN /\ health[u].circuit = "open" /\ health'[u].circuit = "closed" =>
                  Cardinality(Probes(good)) >= RecoverySuccesses /\ Probes(bad) = {}
             /\ health[u].circuit = "closed" /\ health'[u].circuit = "open" =>
                  \/ Probes(bad) /= {}
                  \/ Cardinality(bad) >= UnknownUsageThreshold
                  \/ Cardinality(bad) >= FailureThreshold
  <1>1. ASSUME CircuitInv, [CircuitNext]_circuitVars PROVE Step
    <2>1. ASSUME NEW u \in Upstream, NEW state, NEW e
          PROVE  /\ Observed(u, state, e) = Seen(lease', u, state, e)
                 /\ Probes(Observed(u, state, e)) = SeenProbes(lease', u, state, e)
      BY DEF Observed, Probes, Seen, SeenProbes
    <2>2. ASSUME NEW u \in Upstream, health'[u].circuit /= health[u].circuit
          PROVE  \E a \in Attempt :
                   /\ Target[a] = u /\ lease[a].state = "running"
                   /\ lease[a].epoch = health[u].epoch
                   /\ \/ ObserveSuccess(a) /\ health'[u] = Recovered(health[u], lease[a].probe)
                      \/ \E unknown \in BOOLEAN :
                           /\ ObserveFailure(a, unknown)
                           /\ health'[u] = Failed(health[u], lease[a].probe, unknown)
      BY <1>1, <2>2, ChangedBy
    <2>3. ASSUME NEW u \in Upstream, health[u].circuit = "open", health'[u].circuit = "closed"
          PROVE  LET good == Observed(u, "good", health[u].epoch)
                     bad == Observed(u, "bad", health[u].epoch)
                 IN Cardinality(Probes(good)) >= RecoverySuccesses /\ Probes(bad) = {}
      <3>1. PICK a \in Attempt :
                   /\ Target[a] = u /\ lease[a].epoch = health[u].epoch
                   /\ \/ ObserveSuccess(a) /\ health'[u] = Recovered(health[u], lease[a].probe)
                      \/ \E unknown \in BOOLEAN :
                           health'[u] = Failed(health[u], lease[a].probe, unknown)
        BY <2>2, <2>3
      <3>2. health[u] \in Health /\ lease[a].probe \in BOOLEAN
        BY <1>1 DEF CircuitInv, CircuitTypeOK, Lease
      <3>3. ~\E unknown \in BOOLEAN : health'[u] = Failed(health[u], lease[a].probe, unknown)
        BY <2>3, <3>2, FailedFields
      <3>4. QED BY <1>1, <2>1, <2>3, <3>1, <3>3, Closing
    <2>4. ASSUME NEW u \in Upstream, health[u].circuit = "closed", health'[u].circuit = "open"
          PROVE  LET bad == Observed(u, "bad", health[u].epoch)
                 IN \/ Probes(bad) /= {}
                    \/ Cardinality(bad) >= UnknownUsageThreshold
                    \/ Cardinality(bad) >= FailureThreshold
      <3>1. PICK a \in Attempt :
                   /\ Target[a] = u /\ lease[a].epoch = health[u].epoch
                   /\ \/ health'[u] = Recovered(health[u], lease[a].probe)
                      \/ \E unknown \in BOOLEAN :
                           /\ ObserveFailure(a, unknown)
                           /\ health'[u] = Failed(health[u], lease[a].probe, unknown)
        BY <2>2, <2>4
      <3>2. health[u] \in Health /\ lease[a].probe \in BOOLEAN
        BY <1>1 DEF CircuitInv, CircuitTypeOK, Lease
      <3>3. health'[u] /= Recovered(health[u], lease[a].probe)
        BY <2>4, <3>2, RecoveredFields
      <3>4. QED BY <1>1, <2>1, <2>4, <3>1, <3>3, Tripping
    <2>5. QED BY <2>3, <2>4
  <1>2. CircuitInv /\ [CircuitNext]_circuitVars => [Step]_circuitVars
    BY <1>1
  <1> HIDE DEF Step
  <1>3. CircuitSpec => [][Step]_circuitVars
    BY <1>2, Invariant, PTL DEF CircuitSpec
  <1>4. QED BY <1>3 DEF ChangesOnEvidence, Step
=============================================================================
