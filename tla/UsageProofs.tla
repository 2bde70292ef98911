---------------------------- MODULE UsageProofs -----------------------------
(***************************************************************************)
(* A model request, for any number of requests, calls, polls, routes and   *)
(* corrections: the order of its attempts, the refinement of MeteredCall,  *)
(* and the sums over the requests of a key.                                *)
(***************************************************************************)
EXTENDS Usage, SumTheorems, SequenceTheorems

(* An attempt the loop has left behind was answered and gave the customer  *)
(* nothing, and one that failed has no task and never ran.                 *)
Past(x) == /\ x.state \in {"failed", "completed"} /\ ~x.delivered
           /\ x.state = "failed" => ~x.task /\ ~x.ran
Fresh(x) == x.state = "dispatching" /\ ~x.task /\ ~x.delivered
Refused(x) == x.state = "not_dispatched" /\ ~x.task /\ ~x.ran

-----------------------------------------------------------------------------
(* The answers of the runtime.                                             *)
Plausible(a) ==
  /\ a \in Reply
  /\ a.verdict = "not_dispatched" => a.error /\ ~a.delivered

LEMMA AnswerFields ==
  ASSUME NEW v \in Verdict, NEW u \in BOOLEAN, NEW d \in BOOLEAN, NEW c \in BOOLEAN,
         NEW e \in BOOLEAN
  PROVE  LET a == Answer(v, u, d, c, e) IN
         /\ a \in Reply /\ a.verdict = v
         /\ a.reliable = u /\ a.delivered = d /\ a.error = e
  BY DEF Answer, Reply

LEMMA RefusalFacts ==
  ASSUME NEW a \in Refusals \cup Failures \cup Unknowns
  PROVE  a \in Reply /\ ~a.reliable /\ ~a.delivered /\ a.error
  <1>1. PICK v \in Verdict : a = Answer(v, FALSE, FALSE, FALSE, TRUE)
    BY DEF Refusals, Failures, Unknowns, Verdict
  <1>2. QED BY <1>1, AnswerFields

LEMMA SuccessFacts ==
  ASSUME NEW a \in Successes
  PROVE  a \in Reply /\ ~a.delivered /\ a.verdict = "completed"
  BY DEF Successes, Results

LEMMA VideoFacts ==
  ASSUME NEW a \in VideoAnswers
  PROVE  a \in Reply /\ ~a.reliable /\ ~a.delivered /\ a.verdict # "not_dispatched"
  <1>1. PICK v \in {"submitted", "failed"} : a = Answer(v, FALSE, FALSE, FALSE, FALSE)
    BY DEF VideoAnswers
  <1>2. v \in Verdict /\ v # "not_dispatched"
    BY DEF Verdict
  <1>3. QED BY <1>1, <1>2, AnswerFields

LEMMA StreamFacts ==
  ASSUME NEW a \in StreamAnswers PROVE a \in Reply /\ a.verdict # "not_dispatched"
  <1>1. CASE a = Answer("completed", FALSE, FALSE, FALSE, TRUE)
    <2>1. "completed" \in Verdict
      BY DEF Verdict
    <2> QED
      BY <1>1, <2>1, AnswerFields
  <1>2. CASE a # Answer("completed", FALSE, FALSE, FALSE, TRUE)
    BY <1>2 DEF StreamAnswers, Results
  <1>3. QED BY <1>1, <1>2

LEMMA AnswersPlausible == ASSUME NEW i \in Input, NEW a \in Answers(i) PROVE Plausible(a)
  <1>1. Kind[i] \in {"plain", "stream", "video"}
    BY RequestsAssumption
  <1>2. \/ a \in Refusals \cup Failures \cup Unknowns
        \/ a \in Successes \/ a \in VideoAnswers \/ a \in StreamAnswers
    BY <1>1 DEF Answers
  <1>3. QED BY <1>2, RefusalFacts, SuccessFacts, VideoFacts, StreamFacts DEF Plausible

LEMMA PollAnswerFacts ==
  ASSUME NEW a \in PollAnswers
  PROVE  a \in Reply /\ ~a.delivered /\ (a.reliable => a.verdict = "completed")
  BY RefusalFacts, SuccessFacts, VideoFacts DEF PollAnswers

(* What RecordAttempt makes of a row.                                      *)
LEMMA RecordedTyped ==
  ASSUME NEW x \in Attempt, NEW a \in Reply
  PROVE  LET y == Recorded(x, a) IN
         /\ y \in Attempt /\ y.input = x.input /\ y.ran = x.ran /\ (x.task => y.task)
  BY ZenonT(60) DEF Recorded, Attempt, Reply, HasTask

LEMMA RecordedFresh ==
  ASSUME NEW x \in Attempt, Fresh(x), NEW a, Plausible(a), x.ran \in MayHaveWorked(a)
  PROVE  /\ a.verdict = "not_dispatched" => Refused(Recorded(x, a))
         /\ a.verdict # "not_dispatched" /\ MovesOn(a) => Past(Recorded(x, a))
  <1> DEFINE y == Recorded(x, a)
  <1>1. /\ y.state = a.verdict /\ y.ran = x.ran
        /\ y.task <=> HasTask(x.input, a)
        /\ y.delivered <=> a.delivered
    BY DEF Recorded, Fresh, Outdated, Attempt, HasTask, Plausible, Reply
  <1>2. CASE a.verdict = "not_dispatched"
    BY <1>1, <1>2 DEF Refused, HasTask, Plausible, MayHaveWorked, Worked
  <1>3. CASE a.verdict # "not_dispatched" /\ MovesOn(a)
    <2>1. a.verdict \in {"completed", "failed"} /\ ~a.delivered /\ a.error
      BY <1>3 DEF MovesOn, Plausible, Reply, Verdict
    <2>2. a.verdict = "failed" => ~y.task /\ ~y.ran
      BY <1>1, <2>1 DEF HasTask, MayHaveWorked, Worked
    <2> HIDE DEF y
    <2>3. Past(y)
      BY <1>1, <2>1, <2>2 DEF Past
    <2>4. QED BY <1>3, <2>3 DEF y
  <1>4. QED BY <1>2, <1>3

LEMMA RecordedPolled ==
  ASSUME NEW x \in Attempt, x.task, NEW a \in PollAnswers, Past(x)
  PROVE  Past(Recorded(x, a))
  <1>1. x.state = "completed" /\ ~x.delivered
    BY DEF Past
  <1>2. a \in Reply /\ ~a.delivered /\ (a.reliable => a.verdict = "completed")
    BY PollAnswerFacts
  <1>3. CASE ~a.reliable
    BY <1>1, <1>3 DEF Recorded, Outdated
  <1>4. CASE a.reliable
    <2> DEFINE y == Recorded(x, a)
    <2>1. y.state = "completed" /\ ~y.delivered
      BY <1>1, <1>2, <1>4 DEF Recorded, Outdated, Attempt, Reply
    <2>2. QED BY <2>1 DEF Past
  <1>5. QED BY <1>2, <1>3, <1>4

-----------------------------------------------------------------------------
(* The order of the attempts.  Of a request in state s with body i, whose  *)
(* attempts are t:                                                         *)
Status == Open \cup Terminal \cup {"absent"}
Tried(s, i, t) ==
  /\ \A k \in 1..Len(t) : t[k].input = i
  /\ \A k \in 1..Len(t) : k < Len(t) => Past(t[k])
  /\ s \in {"absent", "accepted"} => t = <<>>
  /\ s = "failed" => \A k \in 1..Len(t) : ~t[k].ran

(* One call of Execute is past the claim of a request, and its place in    *)
(* the loop tells how the attempts stand.                                  *)
Run == [pc : {"idle", "claim", "route", "call", "record", "release", "finish"},
        request : Request \cup {None}, input : Input \cup {None},
        route : Nat, attempt : Nat, last : Reply \cup {None}]
Busy(x) == x.pc \in {"route", "call", "record", "release", "finish"}
RunFits(x, s, i, t) ==
  /\ x.input = i /\ i \in Input /\ s # "absent"
  /\ Busy(x) => s \notin {"absent", "accepted", "failed"}
  /\ x.pc = "route" => \A k \in 1..Len(t) : Past(t[k])
  /\ x.pc \in {"call", "record"} => Len(t) > 0 /\ x.attempt = Len(t) /\ Fresh(t[Len(t)])
  /\ x.pc = "record" => x.last \in Answers(i) /\ t[Len(t)].ran \in MayHaveWorked(x.last)
  /\ x.pc = "release" /\ x.last # None => Len(t) > 0 /\ Refused(t[Len(t)])

(* A poll looks at an attempt that has a task.                             *)
Poll == [pc : {"idle", "record", "settle"}, request : Request \cup {None},
         attempt : Nat, reply : Reply \cup {None}]
PollFits(y, t) ==
  y.attempt \in 1..Len(t) /\ t[y.attempt].task /\ y.reply \in PollAnswers

Rows ==
  /\ status \in [Request -> Status] /\ input \in [Request -> Input \cup {None}]
  /\ attempts \in [Request -> Seq(Attempt)]
  /\ run \in [Caller -> Run] /\ poll \in [Poller -> Poll]
Sequence ==
  /\ \A r \in Request : Tried(status[r], input[r], attempts[r])
  /\ \A c \in Caller : run[c].pc # "idle" =>
       LET r == run[c].request
       IN  r \in Request /\ RunFits(run[c], status[r], input[r], attempts[r])
  /\ \A w \in Poller : poll[w].pc # "idle" =>
       LET r == poll[w].request IN r \in Request /\ PollFits(poll[w], attempts[r])
  /\ \A c, d \in Caller :
       c # d /\ Busy(run[c]) /\ Busy(run[d]) => run[c].request # run[d].request
IInv == Rows /\ Sequence

LEMMA IdleTyped == Idle \in Run /\ Resting \in Poll
  BY DEF Idle, Resting, Run, Poll

LEMMA InitInv == Init => IInv
  <1> SUFFICES ASSUME Init PROVE IInv
    OBVIOUS
  <1>1. /\ run \in [Caller -> Run] /\ poll \in [Poller -> Poll]
        /\ \A c \in Caller : run[c].pc = "idle"
        /\ \A w \in Poller : poll[w].pc = "idle"
    BY IdleTyped DEF Init, Idle, Resting
  <1>2. attempts \in [Request -> Seq(Attempt)] /\ \A r \in Request : attempts[r] = <<>>
    BY EmptySeq DEF Init
  <1>3. \A r \in Request : Tried(status[r], input[r], attempts[r])
    BY <1>2 DEF Init, Tried
  <1>4. Rows
    BY <1>1, <1>2 DEF Init, Rows, Status, Open, Terminal
  <1>5. QED BY <1>1, <1>3, <1>4 DEF IInv, Sequence, Busy

-----------------------------------------------------------------------------
(* What one step of a caller changes, and what of the others it keeps.     *)
Alone(c, r) == \A d \in Caller \ {c} : Busy(run[d]) => run[d].request # r
OthersFit(c, r, s, i, t) ==
  /\ \A d \in Caller \ {c} :
       run[d].pc # "idle" /\ run[d].request = r => RunFits(run[d], s, i, t)
  /\ \A w \in Poller : poll[w].pc # "idle" /\ poll[w].request = r => PollFits(poll[w], t)

LEMMA CallerStep ==
  ASSUME IInv, NEW c \in Caller, NEW r \in Request, NEW s \in Status,
         NEW i \in Input \cup {None}, NEW t \in Seq(Attempt), NEW x \in Run,
         status' = [status EXCEPT ![r] = s], input' = [input EXCEPT ![r] = i],
         attempts' = [attempts EXCEPT ![r] = t], run' = [run EXCEPT ![c] = x],
         UNCHANGED poll, Tried(s, i, t),
         x.pc # "idle" => x.request = r /\ RunFits(x, s, i, t),
         Busy(x) => Alone(c, r), OthersFit(c, r, s, i, t)
  PROVE  IInv'
  <1>1. Rows'
    BY DEF IInv, Rows
  <1>2. /\ \A q \in Request : /\ status'[q] = (IF q = r THEN s ELSE status[q])
                              /\ input'[q] = (IF q = r THEN i ELSE input[q])
                              /\ attempts'[q] = (IF q = r THEN t ELSE attempts[q])
        /\ \A d \in Caller : run'[d] = (IF d = c THEN x ELSE run[d])
    BY DEF IInv, Rows
  <1>3. \A q \in Request : Tried(status'[q], input'[q], attempts'[q])
    BY <1>2 DEF IInv, Sequence
  <1>4. ASSUME NEW d \in Caller, run'[d].pc # "idle"
        PROVE  LET q == run'[d].request
               IN  q \in Request /\ RunFits(run'[d], status'[q], input'[q], attempts'[q])
    BY <1>2, <1>4 DEF IInv, Sequence, OthersFit
  <1>5. ASSUME NEW w \in Poller, poll'[w].pc # "idle"
        PROVE  LET q == poll'[w].request IN q \in Request /\ PollFits(poll'[w], attempts'[q])
    BY <1>2, <1>5 DEF IInv, Sequence, OthersFit
  <1>6. ASSUME NEW d \in Caller, NEW e \in Caller, d # e, Busy(run'[d]), Busy(run'[e])
        PROVE  run'[d].request # run'[e].request
    BY <1>2, <1>6 DEF IInv, Sequence, Busy, Alone
  <1>7. QED BY <1>1, <1>3, <1>4, <1>5, <1>6 DEF IInv, Sequence

(* A caller goes on and no row changes.                                    *)
LEMMA RunStep ==
  ASSUME IInv, NEW c \in Caller, NEW x \in Run, run' = [run EXCEPT ![c] = x],
         UNCHANGED <<status, input, attempts, poll>>, x.pc # "idle",
         x.request \in Request,
         RunFits(x, status[x.request], input[x.request], attempts[x.request]),
         Busy(x) => Busy(run[c]) /\ run[c].request = x.request
  PROVE  IInv'
  <1> DEFINE r == x.request
  <1>1. /\ status[r] \in Status /\ input[r] \in Input \cup {None}
        /\ attempts[r] \in Seq(Attempt) /\ Tried(status[r], input[r], attempts[r])
        /\ status' = [status EXCEPT ![r] = status[r]]
        /\ input' = [input EXCEPT ![r] = input[r]]
        /\ attempts' = [attempts EXCEPT ![r] = attempts[r]]
    BY DEF IInv, Rows, Sequence
  <1>2. Busy(x) => Alone(c, r)
    BY DEF IInv, Sequence, Alone
  <1>3. OthersFit(c, r, status[r], input[r], attempts[r])
    BY DEF IInv, Sequence, OthersFit
  <1>4. /\ x.pc # "idle" => x.request = r /\ RunFits(x, status[r], input[r], attempts[r])
        /\ r \in Request /\ UNCHANGED poll
    OBVIOUS
  <1> HIDE DEF r
  <1>5. QED BY <1>1, <1>2, <1>3, <1>4, CallerStep

(* The caller that is busy with a request changes its attempts.            *)
LEMMA AttemptStep ==
  ASSUME IInv, NEW c \in Caller, Busy(run[c]), NEW x \in Run, NEW t \in Seq(Attempt),
         run' = [run EXCEPT ![c] = x],
         attempts' = [attempts EXCEPT ![run[c].request] = t],
         UNCHANGED <<status, input, poll>>, x.request = run[c].request,
         RunFits(x, status[x.request], input[x.request], t),
         \A k \in 1..Len(t) : t[k].input = input[x.request],
         \A k \in 1..Len(t) : k < Len(t) => Past(t[k]),
         \A k \in 1..Len(attempts[x.request]) :
           attempts[x.request][k].task => k \in 1..Len(t) /\ t[k].task
  PROVE  IInv'
  <1> DEFINE r == run[c].request
             s == status[r]
             i == input[r]
  <1>1. /\ r \in Request /\ s \in Status /\ i \in Input \cup {None}
        /\ s \notin {"absent", "accepted", "failed"}
        /\ status' = [status EXCEPT ![r] = s] /\ input' = [input EXCEPT ![r] = i]
        /\ Alone(c, r)
    BY DEF IInv, Rows, Sequence, Busy, RunFits, Alone
  <1>2. Tried(s, i, t)
    BY <1>1 DEF Tried
  <1>3. ASSUME NEW d \in Caller \ {c}, run[d].pc # "idle", run[d].request = r
        PROVE  RunFits(run[d], s, i, t)
    <2>1. ~Busy(run[d]) /\ RunFits(run[d], s, i, attempts[r])
      BY <1>1, <1>3 DEF IInv, Sequence, Alone
    <2>2. QED BY <2>1 DEF RunFits, Busy
  <1>4. ASSUME NEW w \in Poller, poll[w].pc # "idle", poll[w].request = r
        PROVE  PollFits(poll[w], t)
    BY <1>4 DEF IInv, Sequence, PollFits
  <1>5. /\ x.pc # "idle" => x.request = r /\ RunFits(x, s, i, t)
        /\ attempts' = [attempts EXCEPT ![r] = t]
    OBVIOUS
  <1>6. OthersFit(c, r, s, i, t)
    BY <1>3, <1>4 DEF OthersFit
  <1> HIDE DEF r, s, i
  <1>7. QED BY <1>1, <1>2, <1>5, <1>6, CallerStep

(* A request goes on or ends, other than by failing, and calls are over.   *)
LEMMA StatusStep ==
  ASSUME IInv, NEW r \in Request, NEW s \in Status \ {"absent", "accepted", "failed"},
         status' \in {status, [status EXCEPT ![r] = s]}, UNCHANGED <<input, attempts>>,
         run' \in [Caller -> Run], poll' \in [Poller -> Poll],
         \A c \in Caller : run'[c] \in {run[c], Idle},
         \A w \in Poller : poll'[w] \in {poll[w], Resting}
  PROVE  IInv'
  <1>1. \A q \in Request : \/ status'[q] = status[q]
                           \/ status'[q] \in Status \ {"absent", "accepted", "failed"}
    BY DEF IInv, Rows
  <1>2. Rows'
    BY DEF IInv, Rows
  <1>3. \A q \in Request : Tried(status'[q], input'[q], attempts'[q])
    BY <1>1 DEF IInv, Sequence, Tried
  <1>4. ASSUME NEW c \in Caller, run'[c].pc # "idle"
        PROVE  LET q == run'[c].request
               IN  q \in Request /\ RunFits(run'[c], status'[q], input'[q], attempts'[q])
    <2>1. run'[c] = run[c]
      BY <1>4 DEF Idle
    <2>2. /\ run[c].request \in Request
          /\ RunFits(run[c], status[run[c].request], input[run[c].request],
                     attempts[run[c].request])
      BY <1>4, <2>1 DEF IInv, Sequence
    <2>3. QED BY <1>1, <2>1, <2>2 DEF RunFits
  <1>5. ASSUME NEW w \in Poller, poll'[w].pc # "idle"
        PROVE  LET q == poll'[w].request IN q \in Request /\ PollFits(poll'[w], attempts'[q])
    <2>1. poll'[w] = poll[w]
      BY <1>5 DEF Resting
    <2>2. QED BY <1>5, <2>1 DEF IInv, Sequence
  <1>6. ASSUME NEW d \in Caller, NEW e \in Caller, d # e, Busy(run'[d]), Busy(run'[e])
        PROVE  run'[d].request # run'[e].request
    <2>1. run'[d] = run[d] /\ run'[e] = run[e]
      BY <1>6 DEF Idle, Busy
    <2>2. QED BY <1>6, <2>1 DEF IInv, Sequence
  <1>7. QED BY <1>2, <1>3, <1>4, <1>5, <1>6 DEF IInv, Sequence

-----------------------------------------------------------------------------
(* The steps of Execute.                                                   *)
LEMMA CallerFacts ==
  ASSUME IInv, NEW c \in Caller, run[c].pc # "idle"
  PROVE  LET r == run[c].request IN
         /\ run[c] \in Run /\ r \in Request /\ run[c].input \in Input
         /\ attempts[r] \in Seq(Attempt) /\ Len(attempts[r]) \in Nat
         /\ status[r] \in Status /\ run[c].input = input[r]
         /\ RunFits(run[c], status[r], input[r], attempts[r])
         /\ Tried(status[r], input[r], attempts[r])
  <1>1. /\ run[c] \in Run /\ run[c].request \in Request
        /\ RunFits(run[c], status[run[c].request], input[run[c].request],
                   attempts[run[c].request])
    BY DEF IInv, Rows, Sequence
  <1>2. \A r \in Request : /\ attempts[r] \in Seq(Attempt) /\ status[r] \in Status
                           /\ Tried(status[r], input[r], attempts[r])
    BY DEF IInv, Rows, Sequence
  <1>3. QED BY <1>1, <1>2, LenProperties DEF RunFits

LEMMA MovedRun ==
  ASSUME NEW x \in Run, NEW p \in {"route", "call", "record", "release", "finish"},
         NEW n \in Nat
  PROVE  LET y == [x EXCEPT !.pc = p, !.attempt = n] IN
         /\ y \in Run /\ y.pc = p /\ y.request = x.request /\ y.input = x.input
         /\ y.attempt = n /\ y.last = x.last
  BY DEF Run

LEMMA Appended ==
  ASSUME NEW u \in Seq(Attempt), NEW y \in Attempt
  PROVE  LET t == Append(u, y) IN
         /\ t \in Seq(Attempt) /\ Len(t) = Len(u) + 1 /\ Len(t) > 0 /\ t[Len(t)] = y
         /\ \A k \in 1..Len(u) : k \in 1..Len(t) /\ t[k] = u[k]
         /\ \A k \in 1..Len(t) : k < Len(t) => k \in 1..Len(u) /\ t[k] = u[k]
         /\ \A k \in 1..Len(t) : k = Len(t) \/ k < Len(t)
  <1> DEFINE t == Append(u, y)
  <1>1. /\ t \in Seq(Attempt) /\ Len(t) = Len(u) + 1 /\ Len(u) \in Nat
        /\ \A k \in 1..Len(u) : t[k] = u[k]
        /\ t[Len(u) + 1] = y
    BY AppendProperties, LenProperties
  <1> HIDE DEF t
  <1>2. Len(t) \in Nat /\ Len(t) > 0 /\ \A k \in 1..Len(t) : k = Len(t) \/ k < Len(t)
    BY <1>1
  <1>3. \A k \in 1..Len(t) : k < Len(t) => k \in 1..Len(u)
    BY <1>1
  <1>4. \A k \in 1..Len(u) : k \in 1..Len(t)
    BY <1>1
  <1>5. QED BY <1>1, <1>2, <1>3, <1>4 DEF t

LEMMA Replaced ==
  ASSUME NEW seq \in Seq(Attempt), NEW j \in 1..Len(seq), NEW e \in Attempt,
         NEW res, res = [seq EXCEPT ![j] = e]
  PROVE  /\ res \in Seq(Attempt) /\ Len(res) = Len(seq) /\ res[j] = e
         /\ \A k \in 1..Len(seq) : k # j => res[k] = seq[k]
  BY ExceptSeq, LenProperties

LEMMA AdmitNewInv ==
  ASSUME IInv, NEW c \in Caller, NEW r \in Request, NEW i \in Input, AdmitNew(c, r, i)
  PROVE  IInv'
  <1> DEFINE x == [Idle EXCEPT !.pc = "claim", !.request = r, !.input = i]
  <1>1. /\ status[r] = "absent" /\ status' = [status EXCEPT ![r] = "accepted"]
        /\ input' = [input EXCEPT ![r] = i] /\ run' = [run EXCEPT ![c] = x]
        /\ attempts' = [attempts EXCEPT ![r] = attempts[r]] /\ UNCHANGED poll
        /\ attempts[r] \in Seq(Attempt)
    BY DEF AdmitNew, IInv, Rows
  <1>2. attempts[r] = <<>>
    BY <1>1 DEF IInv, Sequence, Tried
  <1>3. /\ x \in Run /\ x.pc = "claim" /\ x.request = r /\ x.input = i
    BY DEF Idle, Run
  <1> HIDE DEF x
  <1>4. Tried("accepted", i, attempts[r]) /\ RunFits(x, "accepted", i, attempts[r]) /\ ~Busy(x)
    BY <1>2, <1>3 DEF Tried, RunFits, Busy
  <1>5. OthersFit(c, r, "accepted", i, attempts[r])
    BY <1>1 DEF OthersFit, IInv, Sequence, RunFits
  <1>6. "accepted" \in Status
    BY DEF Status, Open
  <1>7. QED BY <1>1, <1>3, <1>4, <1>5, <1>6, CallerStep

LEMMA AdmitAgainInv ==
  ASSUME IInv, NEW c \in Caller, NEW r \in Request, NEW i \in Input, AdmitAgain(c, r, i)
  PROVE  IInv'
  <1> DEFINE x == [Idle EXCEPT !.pc = "claim", !.request = r, !.input = i]
  <1>1. /\ status[r] \in Open /\ input[r] = i /\ run' = [run EXCEPT ![c] = x]
        /\ UNCHANGED <<status, input, attempts, poll>>
    BY DEF AdmitAgain, IsOpen, SameRequest, row
  <1>2. /\ x \in Run /\ x.pc = "claim" /\ x.request = r /\ x.input = i
    BY DEF Idle, Run
  <1> HIDE DEF x
  <1>3. RunFits(x, status[r], input[r], attempts[r]) /\ ~Busy(x)
    BY <1>1, <1>2 DEF RunFits, Busy, Open
  <1>4. QED BY <1>1, <1>2, <1>3, RunStep

LEMMA ClaimInv == ASSUME IInv, NEW c \in Caller, ClaimExecution(c) PROVE IInv'
  <1> DEFINE r == run[c].request
             x == [run[c] EXCEPT !.pc = "route", !.route = 1]
  <1>1. /\ run[c].pc = "claim" /\ UNCHANGED <<input, attempts, poll>>
        /\ run \in [Caller -> Run] /\ poll \in [Poller -> Poll]
    BY DEF ClaimExecution, IInv, Rows
  <1>2. /\ r \in Request /\ run[c] \in Run /\ run[c].input = input[r]
        /\ attempts[r] \in Seq(Attempt) /\ Tried(status[r], input[r], attempts[r])
        /\ RunFits(run[c], status[r], input[r], attempts[r])
    BY <1>1, CallerFacts
  <1>3. CASE Claimable(r)
    <2>1. /\ status[r] = "accepted" /\ status' = [status EXCEPT ![r] = "executing"]
          /\ run' = [run EXCEPT ![c] = x]
      BY <1>1, <1>3 DEF ClaimExecution, Claimable
    <2>2. /\ input' = [input EXCEPT ![r] = input[r]]
          /\ attempts' = [attempts EXCEPT ![r] = attempts[r]]
          /\ input[r] \in Input
      BY <1>1, <1>2 DEF IInv, Rows, RunFits
    <2>3. attempts[r] = <<>>
      BY <1>2, <2>1 DEF Tried
    <2>4. /\ x \in Run /\ x.pc = "route" /\ x.request = r /\ x.input = input[r]
      BY <1>2 DEF Run
    <2>5. "executing" \in Status
      BY DEF Status, Open
    <2>6. Alone(c, r)
      BY <2>1 DEF Alone, IInv, Sequence, RunFits, Busy
    <2>7. OthersFit(c, r, "executing", input[r], attempts[r])
      BY <2>1 DEF OthersFit, IInv, Sequence, RunFits
    <2> HIDE DEF x, r
    <2>8. /\ Tried("executing", input[r], attempts[r])
          /\ RunFits(x, "executing", input[r], attempts[r])
      BY <2>2, <2>3, <2>4 DEF Tried, RunFits, Busy
    <2>9. QED BY <1>1, <1>2, <2>1, <2>2, <2>4, <2>5, <2>6, <2>7, <2>8, CallerStep
  <1>4. CASE ~Claimable(r)
    <2>1. run' = [run EXCEPT ![c] = Idle] /\ UNCHANGED status
      BY <1>1, <1>4 DEF ClaimExecution
    <2>2. /\ run' \in [Caller -> Run] /\ \A d \in Caller : run'[d] \in {run[d], Idle}
          /\ poll' \in [Poller -> Poll] /\ \A w \in Poller : poll'[w] \in {poll[w], Resting}
      BY <1>1, <2>1, IdleTyped
    <2>3. "free" \in Status \ {"absent", "accepted", "failed"}
      BY DEF Status, Terminal
    <2>4. QED BY <1>1, <1>2, <2>1, <2>2, <2>3, StatusStep
  <1>5. QED BY <1>3, <1>4

LEMMA DispatchInv == ASSUME IInv, NEW c \in Caller, Dispatch(c) PROVE IInv'
  <1> DEFINE r == run[c].request
             y == [state |-> "dispatching", input |-> run[c].input, task |-> FALSE,
                   delivered |-> FALSE, cost |-> "pending", ran |-> FALSE]
             u == attempts[r]
             t == Append(u, y)
             n == Len(u) + 1
             x == [run[c] EXCEPT !.pc = "call", !.attempt = n]
  <1>1. /\ run[c].pc = "route" /\ UNCHANGED <<status, input, poll>>
        /\ attempts' = [attempts EXCEPT ![r] = t] /\ run' = [run EXCEPT ![c] = x]
    BY DEF Dispatch, row
  <1>2. /\ r \in Request /\ run[c] \in Run /\ run[c].input \in Input
        /\ run[c].input = input[r] /\ Busy(run[c]) /\ u \in Seq(Attempt)
        /\ Len(u) \in Nat /\ Tried(status[r], input[r], u)
        /\ RunFits(run[c], status[r], input[r], u)
    BY <1>1, CallerFacts DEF Busy
  <1>3. y \in Attempt /\ Fresh(y) /\ y.input = input[r]
    BY <1>2 DEF Attempt, Fresh
  <1>n. n \in Nat
    BY <1>2
  <1> HIDE DEF y, n
  <1>4. /\ x \in Run /\ x.pc = "call" /\ x.request = r /\ x.input = run[c].input
        /\ x.attempt = n
    BY <1>2, <1>n DEF Run
  <1> HIDE DEF u, x
  <1>5. /\ t \in Seq(Attempt) /\ Len(t) = n /\ Len(t) > 0 /\ t[Len(t)] = y
        /\ \A k \in 1..Len(u) : k \in 1..Len(t) /\ t[k] = u[k]
        /\ \A k \in 1..Len(t) : k < Len(t) => k \in 1..Len(u) /\ t[k] = u[k]
        /\ \A k \in 1..Len(t) : k = Len(t) \/ k < Len(t)
    BY <1>2, <1>3, Appended DEF n
  <1> HIDE DEF t
  <1>6. \A k \in 1..Len(t) : t[k].input = input[r]
    BY <1>2, <1>3, <1>5 DEF Tried
  <1>7. \A k \in 1..Len(t) : k < Len(t) => Past(t[k])
    BY <1>1, <1>2, <1>5 DEF RunFits
  <1>8. \A k \in 1..Len(u) : u[k].task => k \in 1..Len(t) /\ t[k].task
    BY <1>5
  <1>9. RunFits(x, status[r], input[r], t)
    BY <1>2, <1>3, <1>4, <1>5 DEF RunFits, Busy
  <1>10. QED BY <1>1, <1>2, <1>4, <1>5, <1>6, <1>7, <1>8, <1>9, AttemptStep, ZenonT(60) DEF u

LEMMA RouteInv ==
  ASSUME IInv, NEW c \in Caller, RouteUnavailable(c) \/ EndLoop(c) PROVE IInv'
  <1> DEFINE r == run[c].request
  <1>1. run[c].pc = "route" /\ UNCHANGED <<status, input, attempts, poll>>
    BY DEF RouteUnavailable, EndLoop, row
  <1>2. /\ r \in Request /\ run[c] \in Run /\ run[c].input = input[r] /\ Busy(run[c])
        /\ RunFits(run[c], status[r], input[r], attempts[r])
    BY <1>1, CallerFacts DEF Busy
  <1>3. CASE RouteUnavailable(c)
    <2> DEFINE x == [run[c] EXCEPT !.route = run[c].route + 1]
    <2>1. run' = [run EXCEPT ![c] = x]
      BY <1>3 DEF RouteUnavailable
    <2>2. /\ x \in Run /\ x.pc = "route" /\ x.request = r /\ x.input = run[c].input
      BY <1>1, <1>2 DEF Run
    <2> HIDE DEF x
    <2>3. RunFits(x, status[r], input[r], attempts[r])
      BY <1>1, <1>2, <2>2 DEF RunFits, Busy
    <2>4. QED BY <1>1, <1>2, <2>1, <2>2, <2>3, RunStep
  <1>4. CASE EndLoop(c)
    <2> DEFINE x == [run[c] EXCEPT !.pc = IF run[c].last = None THEN "release" ELSE "finish"]
    <2>1. run' = [run EXCEPT ![c] = x]
      BY <1>4 DEF EndLoop
    <2>2. /\ x \in Run /\ x.request = r /\ x.input = run[c].input /\ x.last = run[c].last
          /\ x.pc = IF run[c].last = None THEN "release" ELSE "finish"
      BY <1>1, <1>2 DEF Run
    <2> HIDE DEF x
    <2>3. RunFits(x, status[r], input[r], attempts[r]) /\ x.pc # "idle"
      BY <1>1, <1>2, <2>2 DEF RunFits, Busy
    <2>4. QED BY <1>1, <1>2, <2>1, <2>2, <2>3, RunStep
  <1>5. QED BY <1>3, <1>4

(* The caller that waits for its answer, or books it, has the last attempt. *)
LEMMA LastAttempt ==
  ASSUME IInv, NEW c \in Caller, run[c].pc \in {"call", "record"}
  PROVE  LET r == run[c].request
             u == attempts[r]
             n == run[c].attempt
         IN  /\ r \in Request /\ run[c] \in Run /\ Busy(run[c]) /\ u \in Seq(Attempt)
             /\ n = Len(u) /\ n \in 1..Len(u) /\ n > 0 /\ u[n] \in Attempt
             /\ Fresh(u[n]) /\ u[n].input = input[r]
             /\ run[c].input = input[r] /\ input[r] \in Input
             /\ Tried(status[r], input[r], u) /\ RunFits(run[c], status[r], input[r], u)
  <1> DEFINE r == run[c].request
             u == attempts[r]
             n == run[c].attempt
  <1>1. /\ r \in Request /\ run[c] \in Run /\ Busy(run[c]) /\ u \in Seq(Attempt)
        /\ Len(u) \in Nat /\ run[c].input = input[r] /\ input[r] \in Input
        /\ Tried(status[r], input[r], u) /\ RunFits(run[c], status[r], input[r], u)
    BY CallerFacts DEF Busy
  <1> HIDE DEF u, n
  <1>2. n = Len(u) /\ Len(u) > 0 /\ Fresh(u[n])
    BY <1>1 DEF RunFits, n
  <1>3. n \in 1..Len(u)
    BY <1>1, <1>2
  <1>4. u[n] \in Attempt
    BY <1>1, <1>3, ElementOfSeq
  <1>5. u[n].input = input[r]
    BY <1>1, <1>3 DEF Tried
  <1>6. QED BY <1>1, <1>2, <1>3, <1>4, <1>5 DEF u, n

LEMMA LastReplaced ==
  ASSUME IInv, NEW c \in Caller, run[c].pc \in {"call", "record"}, NEW y \in Attempt
  PROVE  LET u == attempts[run[c].request]
             n == run[c].attempt
             t == [u EXCEPT ![n] = y]
         IN  /\ t \in Seq(Attempt) /\ Len(t) = Len(u) /\ t[n] = y
             /\ \A k \in 1..Len(u) : k # n => t[k] = u[k]
  <1>1. PICK u, n : /\ u \in Seq(Attempt) /\ n \in 1..Len(u)
                    /\ u = attempts[run[c].request] /\ n = run[c].attempt
    BY LastAttempt
  <1>2. /\ [u EXCEPT ![n] = y] \in Seq(Attempt) /\ Len([u EXCEPT ![n] = y]) = Len(u)
        /\ [u EXCEPT ![n] = y][n] = y
        /\ \A k \in 1..Len(u) : k # n => [u EXCEPT ![n] = y][k] = u[k]
    BY <1>1, Replaced
  <1>3. QED BY <1>1, <1>2

LEMMA LastAttemptStep ==
  ASSUME IInv, NEW c \in Caller, run[c].pc \in {"call", "record"}, NEW x \in Run,
         NEW y \in Attempt, NEW t, t = [attempts[run[c].request] EXCEPT ![run[c].attempt] = y],
         run' = [run EXCEPT ![c] = x],
         attempts' = [attempts EXCEPT ![run[c].request] = t],
         UNCHANGED <<status, input, poll>>, x.request = run[c].request,
         y.input = attempts[run[c].request][run[c].attempt].input,
         (Len(t) = Len(attempts[run[c].request]) /\ t[Len(t)] = y
          /\ \A k \in 1..Len(t) : k < Len(t) => Past(t[k]))
         => RunFits(x, status[x.request], input[x.request], t)
  PROVE  IInv'
  <1> DEFINE r == run[c].request
             u == attempts[r]
             n == run[c].attempt
  <1>1. /\ r \in Request /\ Busy(run[c]) /\ u \in Seq(Attempt)
        /\ n = Len(u) /\ n \in 1..Len(u)
        /\ Fresh(u[n]) /\ u[n].input = input[r] /\ Tried(status[r], input[r], u)
    BY LastAttempt
  <1>2. x.request = r /\ y.input = u[n].input /\ t = [u EXCEPT ![n] = y]
        /\ attempts' = [attempts EXCEPT ![r] = t]
    OBVIOUS
  <1>3. /\ t \in Seq(Attempt) /\ Len(t) = Len(u) /\ t[n] = y
        /\ \A k \in 1..Len(u) : k # n => t[k] = u[k]
    <2>1. /\ [u EXCEPT ![n] = y] \in Seq(Attempt) /\ Len([u EXCEPT ![n] = y]) = Len(u)
          /\ [u EXCEPT ![n] = y][n] = y
          /\ \A k \in 1..Len(u) : k # n => [u EXCEPT ![n] = y][k] = u[k]
      BY LastReplaced, ZenonT(60)
    <2> HIDE DEF u, n
    <2>2. QED BY <1>2, <2>1, ZenonT(60)
  <1> HIDE DEF u, n
  <1>4. \A k \in 1..Len(t) : t[k].input = input[r]
    BY <1>1, <1>2, <1>3 DEF Tried
  <1>5. \A k \in 1..Len(t) : k < Len(t) => Past(t[k])
    BY <1>1, <1>3 DEF Tried
  <1>6. \A k \in 1..Len(u) : u[k].task => k \in 1..Len(t) /\ t[k].task
    BY <1>1, <1>3 DEF Fresh
  <1>7. t[Len(t)] = y
    BY <1>1, <1>3
  <1>8. RunFits(x, status[x.request], input[x.request], t)
    BY <1>3, <1>5, <1>7 DEF u
  <1>9. /\ \A k \in 1..Len(t) : t[k].input = input[x.request]
        /\ \A k \in 1..Len(attempts[x.request]) :
             attempts[x.request][k].task => k \in 1..Len(t) /\ t[k].task
        /\ t \in Seq(Attempt) /\ Busy(run[c])
    BY <1>1, <1>2, <1>3, <1>4, <1>6 DEF u
  <1>10. QED BY <1>5, <1>8, <1>9, AttemptStep

LEMMA CallInv == ASSUME IInv, NEW c \in Caller, Call(c) PROVE IInv'
  <1> DEFINE r == run[c].request
             u == attempts[r]
             n == run[c].attempt
  <1>1. run[c].pc = "call" /\ UNCHANGED <<status, input, poll>>
    BY DEF Call, row
  <1>2. /\ r \in Request /\ run[c] \in Run /\ u \in Seq(Attempt) /\ n = Len(u) /\ n > 0
        /\ u[n] \in Attempt /\ Fresh(u[n])
        /\ run[c].input = input[r] /\ input[r] \in Input
        /\ Tried(status[r], input[r], u) /\ RunFits(run[c], status[r], input[r], u)
    BY <1>1, LastAttempt
  <1>p. PICK a \in Answers(run[c].input) : \E ran \in MayHaveWorked(a) :
          /\ attempts' = [attempts EXCEPT ![r][n].ran = ran]
          /\ run' = [run EXCEPT ![c].pc = "record", ![c].last = a]
    BY DEF Call
  <1>3. PICK ran \in MayHaveWorked(a) :
          /\ attempts' = [attempts EXCEPT ![r][n].ran = ran]
          /\ run' = [run EXCEPT ![c].pc = "record", ![c].last = a]
    BY <1>p
  <1>4. a \in Reply /\ ran \in BOOLEAN
    BY <1>2, <1>3, AnswersPlausible DEF Plausible, MayHaveWorked, Worked, Reply
  <1> DEFINE x == [run[c] EXCEPT !.pc = "record", !.last = a]
             y == [u[n] EXCEPT !.ran = ran]
             t == [u EXCEPT ![n] = y]
  <1>5. /\ x \in Run /\ x.pc = "record" /\ x.request = r /\ x.input = run[c].input
        /\ x.attempt = n /\ x.last = a
    BY <1>2, <1>4 DEF Run
  <1>6. /\ y \in Attempt /\ y.input = u[n].input /\ y.ran = ran /\ Fresh(y)
    BY <1>2, <1>4 DEF Attempt, Fresh
  <1>7. run' = [run EXCEPT ![c] = x] /\ attempts' = [attempts EXCEPT ![r] = t]
    BY <1>3
  <1>8. t = [attempts[run[c].request] EXCEPT ![run[c].attempt] = y]
    OBVIOUS
  <1> HIDE DEF x, y, t
  <1>9. Len(t) = Len(u) /\ t[Len(t)] = y => RunFits(x, status[r], input[r], t)
    <2> HIDE DEF u, n
    <2>1. QED BY <1>1, <1>2, <1>3, <1>5, <1>6 DEF RunFits, Busy
  <1>10. QED BY <1>1, <1>2, <1>5, <1>6, <1>7, <1>8, <1>9, LastAttemptStep

LEMMA RecordInv == ASSUME IInv, NEW c \in Caller, RecordAttempt(c) PROVE IInv'
  <1> DEFINE r == run[c].request
             u == attempts[r]
             n == run[c].attempt
             a == run[c].last
             x == AfterRecord(c, a)
             y == Recorded(u[n], a)
             t == [u EXCEPT ![n] = y]
  <1>1. /\ run[c].pc = "record" /\ UNCHANGED <<status, input, poll>>
        /\ run' = [run EXCEPT ![c] = x] /\ attempts' = [attempts EXCEPT ![r] = t]
    BY DEF RecordAttempt, row
  <1>2. /\ r \in Request /\ run[c] \in Run /\ u \in Seq(Attempt) /\ n = Len(u) /\ n > 0
        /\ u[n] \in Attempt /\ Fresh(u[n])
        /\ run[c].input = input[r] /\ input[r] \in Input
        /\ Tried(status[r], input[r], u) /\ RunFits(run[c], status[r], input[r], u)
    BY <1>1, LastAttempt
  <1>3. a \in Answers(input[r]) /\ u[n].ran \in MayHaveWorked(a) /\ Plausible(a)
    <2>1. a \in Answers(input[r]) /\ u[n].ran \in MayHaveWorked(a)
      BY <1>1, <1>2 DEF RunFits
    <2>2. QED BY <1>2, <2>1, AnswersPlausible
  <1>4. /\ y \in Attempt /\ y.input = u[n].input
        /\ a.verdict = "not_dispatched" => Refused(y)
        /\ a.verdict # "not_dispatched" /\ MovesOn(a) => Past(y)
    BY <1>2, <1>3, RecordedTyped, RecordedFresh DEF Plausible
  <1>5. /\ x \in Run /\ x.request = r /\ x.input = run[c].input
        /\ x.pc = IF a.verdict = "not_dispatched" THEN "release"
                  ELSE IF MovesOn(a) THEN "route" ELSE "finish"
    <2>1. run[c].route + 1 \in Nat
      BY <1>2 DEF Run
    <2>2. CASE a.verdict = "not_dispatched"
      <3>1. x = [run[c] EXCEPT !.pc = "release"]
        BY <2>2 DEF AfterRecord
      <3>2. QED BY <1>2, <2>2, <3>1 DEF Run
    <2>3. CASE a.verdict # "not_dispatched" /\ MovesOn(a)
      <3>1. x = [run[c] EXCEPT !.pc = "route", !.route = run[c].route + 1]
        BY <2>3 DEF AfterRecord
      <3>2. QED BY <1>2, <2>1, <2>3, <3>1 DEF Run
    <2>4. CASE a.verdict # "not_dispatched" /\ ~MovesOn(a)
      <3>1. x = [run[c] EXCEPT !.pc = "finish"]
        BY <2>4 DEF AfterRecord
      <3>2. QED BY <1>2, <2>4, <3>1 DEF Run
    <2>5. QED BY <2>2, <2>3, <2>4
  <1>6. t = [attempts[run[c].request] EXCEPT ![run[c].attempt] = y]
    OBVIOUS
  <1> HIDE DEF x, y, t, u, n, a
  <1>7. ASSUME Len(t) = Len(u), t[Len(t)] = y, \A k \in 1..Len(t) : k < Len(t) => Past(t[k])
        PROVE  RunFits(x, status[r], input[r], t)
    <2>1. /\ x.input = input[r] /\ input[r] \in Input /\ status[r] # "absent"
          /\ Busy(x) /\ status[r] \notin {"absent", "accepted", "failed"}
      BY <1>1, <1>2, <1>5 DEF RunFits, Busy
    <2>2. x.pc = "release" => Len(t) > 0 /\ Refused(t[Len(t)])
      BY <1>2, <1>4, <1>5, <1>7
    <2>3. x.pc = "route" => \A k \in 1..Len(t) : Past(t[k])
      <3>1. SUFFICES ASSUME x.pc = "route", NEW k \in 1..Len(t) PROVE Past(t[k])
        OBVIOUS
      <3>2. Past(y) /\ (k = Len(t) \/ k < Len(t))
        BY <1>2, <1>4, <1>5, <1>7, <3>1
      <3>3. QED BY <1>7, <3>2
    <2>4. x.pc \notin {"call", "record"}
      BY <1>5
    <2>5. QED BY <2>1, <2>2, <2>3, <2>4 DEF RunFits
  <1>8. QED BY <1>1, <1>2, <1>4, <1>5, <1>6, <1>7, LastAttemptStep DEF u, n

(* The call is over; what it leaves behind fits every other call.          *)
LEMMA FailInv == ASSUME IInv, NEW c \in Caller, FailUndispatched(c) PROVE IInv'
  <1> DEFINE r == run[c].request
             u == attempts[r]
  <1>1. /\ run[c].pc = "release" /\ UNCHANGED <<input, attempts, poll>>
        /\ run' = [run EXCEPT ![c] = Idle] /\ Busy(run[c])
    BY DEF FailUndispatched, Busy
  <1>2. /\ r \in Request /\ run[c] \in Run /\ u \in Seq(Attempt)
        /\ Tried(status[r], input[r], u) /\ RunFits(run[c], status[r], input[r], u)
        /\ Len(u) \in Nat
    BY <1>1, CallerFacts
  <1>3. CASE IsOpen(r) /\ NothingRan(c)
    <2>1. status' = [status EXCEPT ![r] = "failed"]
      BY <1>3 DEF FailUndispatched, End
    <2>2. \A k \in 1..Len(u) : ~u[k].ran
      <3>1. CASE run[c].last = None
        BY <1>2, <1>3, <3>1, LenProperties DEF NothingRan
      <3>2. CASE run[c].last # None
        <4>1. \A k \in 1..Len(u) : u[k].state \in {"failed", "not_dispatched"}
          BY <1>2, <1>3, <3>2, LenProperties DEF NothingRan
        <4>2. Len(u) > 0 /\ Refused(u[Len(u)])
          BY <1>1, <1>2, <3>2 DEF RunFits
        <4> HIDE DEF u
        <4>3. ASSUME NEW k \in 1..Len(u) PROVE ~u[k].ran
          <5>1. k = Len(u) \/ k < Len(u)
            BY <1>2
          <5>2. k < Len(u) => Past(u[k])
            BY <1>2 DEF Tried
          <5>3. QED BY <4>1, <4>2, <5>1, <5>2 DEF Past, Refused
        <4>4. QED BY <4>3 DEF u
      <3>3. QED BY <3>1, <3>2
    <2>3. Tried("failed", input[r], u)
      BY <1>2, <2>2 DEF Tried
    <2>4. OthersFit(c, r, "failed", input[r], u)
      <3>1. ASSUME NEW d \in Caller \ {c}, run[d].pc # "idle", run[d].request = r
            PROVE  RunFits(run[d], "failed", input[r], u)
        <4>1. ~Busy(run[d]) /\ RunFits(run[d], status[r], input[r], u)
          BY <1>1, <1>2, <3>1 DEF IInv, Sequence
        <4>2. QED BY <4>1 DEF RunFits
      <3>2. \A w \in Poller : poll[w].pc # "idle" /\ poll[w].request = r => PollFits(poll[w], u)
        BY DEF IInv, Sequence
      <3>3. QED BY <3>1, <3>2 DEF OthersFit
    <2>5. /\ "failed" \in Status /\ Idle.pc = "idle" /\ ~Busy(Idle)
          /\ input[r] \in Input \cup {None}
          /\ input' = [input EXCEPT ![r] = input[r]]
          /\ attempts' = [attempts EXCEPT ![r] = u]
      BY <1>1, <1>2 DEF Status, Terminal, Idle, Busy, IInv, Rows
    <2> HIDE DEF u, r
    <2>6. QED BY <1>1, <1>2, <2>1, <2>3, <2>4, <2>5, IdleTyped, CallerStep
  <1>4. CASE ~(IsOpen(r) /\ NothingRan(c))
    <2>1. UNCHANGED status
      BY <1>4 DEF FailUndispatched
    <2>2. /\ run' \in [Caller -> Run] /\ \A d \in Caller : run'[d] \in {run[d], Idle}
          /\ poll' \in [Poller -> Poll] /\ \A w \in Poller : poll'[w] \in {poll[w], Resting}
      BY <1>1, IdleTyped DEF IInv, Rows
    <2>3. "free" \in Status \ {"absent", "accepted", "failed"}
      BY DEF Status, Terminal
    <2>4. QED BY <1>1, <1>2, <2>1, <2>2, <2>3, StatusStep
  <1>5. QED BY <1>3, <1>4

(* What a settlement makes of the status. *)
LEMMA SettleStatus ==
  ASSUME NEW r, NEW n, Settle(r, n)
  PROVE  /\ UNCHANGED <<input, cancelRequested, deadline, correction>>
         /\ \E s \in {"free", "completed"} : status' \in {status, [status EXCEPT ![r] = s]}
  BY DEF Settle, End, row, money

LEMMA OverInv ==
  ASSUME IInv, NEW c \in Caller, FinishSettled(c) \/ FinishPending(c) \/ Abandon(c)
  PROVE  IInv'
  <1> DEFINE r == run[c].request
  <1>1. /\ run[c].pc # "idle" /\ UNCHANGED <<input, attempts, poll>>
        /\ run' = [run EXCEPT ![c] = Idle]
    <2>1. CASE FinishSettled(c)
      BY <2>1, SettleStatus DEF FinishSettled
    <2>2. CASE FinishPending(c) \/ Abandon(c)
      BY <2>2 DEF FinishPending, Abandon, row
    <2>3. QED BY <2>1, <2>2
  <1>2. r \in Request
    BY <1>1, CallerFacts
  <1>3. /\ run' \in [Caller -> Run] /\ \A d \in Caller : run'[d] \in {run[d], Idle}
        /\ poll' \in [Poller -> Poll] /\ \A w \in Poller : poll'[w] \in {poll[w], Resting}
    BY <1>1, IdleTyped DEF IInv, Rows
  <1>4. \E s \in {"free", "completed", "submitted", "awaiting_usage"} :
          status' \in {status, [status EXCEPT ![r] = s]}
    <2>1. CASE FinishSettled(c)
      <3>1. PICK n \in 0..MaxUse : Settle(r, n)
        BY <2>1 DEF FinishSettled
      <3>2. QED BY <3>1, SettleStatus
    <2>2. CASE FinishPending(c)
      BY <2>2 DEF FinishPending, End
    <2>3. CASE Abandon(c)
      BY <2>3 DEF Abandon, row
    <2>4. QED BY <2>1, <2>2, <2>3
  <1>5. {"free", "completed", "submitted", "awaiting_usage"}
          \subseteq Status \ {"absent", "accepted", "failed"}
    BY DEF Status, Open, Terminal
  <1> HIDE DEF r
  <1>6. QED BY <1>1, <1>2, <1>3, <1>4, <1>5, StatusStep

LEMMA PollOverInv ==
  ASSUME IInv, NEW w \in Poller, SettlePoll(w) \/ AbandonPoll(w) PROVE IInv'
  <1> DEFINE r == poll[w].request
  <1>1. /\ poll[w].pc # "idle" /\ UNCHANGED <<input, attempts, run>>
        /\ poll' = [poll EXCEPT ![w] = Resting]
    BY SettleStatus DEF SettlePoll, AbandonPoll, row
  <1>2. r \in Request
    BY <1>1 DEF IInv, Sequence
  <1>3. /\ run' \in [Caller -> Run] /\ \A d \in Caller : run'[d] \in {run[d], Idle}
        /\ poll' \in [Poller -> Poll] /\ \A v \in Poller : poll'[v] \in {poll[v], Resting}
    BY <1>1, IdleTyped DEF IInv, Rows
  <1>4. \E s \in {"free", "completed"} : status' \in {status, [status EXCEPT ![r] = s]}
    <2>1. CASE SettlePoll(w)
      <3>1. PICK n \in 0..MaxUse : Settle(r, n)
        BY <2>1 DEF SettlePoll
      <3>2. QED BY <3>1, SettleStatus
    <2>2. CASE AbandonPoll(w)
      BY <2>2 DEF AbandonPoll, row
    <2>3. QED BY <2>1, <2>2
  <1>5. {"free", "completed"} \subseteq Status \ {"absent", "accepted", "failed"}
    BY DEF Status, Terminal
  <1> HIDE DEF r
  <1>6. QED BY <1>1, <1>2, <1>3, <1>4, <1>5, StatusStep

(* Steps that touch neither a call nor a poll nor an attempt.              *)
LEMMA QuietInv ==
  ASSUME IInv, UNCHANGED <<input, attempts, run, poll>>,
         \/ UNCHANGED status
         \/ \E r \in Request : status' = [status EXCEPT ![r] = "free"]
  PROVE  IInv'
  <1>1. "free" \in Status \ {"absent", "accepted", "failed"}
    BY DEF Status, Terminal
  <1>2. /\ run' \in [Caller -> Run] /\ \A d \in Caller : run'[d] \in {run[d], Idle}
        /\ poll' \in [Poller -> Poll] /\ \A v \in Poller : poll'[v] \in {poll[v], Resting}
    BY DEF IInv, Rows
  <1>3. CASE UNCHANGED status
    BY <1>3 DEF IInv, Rows, Sequence, Tried
  <1>4. CASE \E r \in Request : status' = [status EXCEPT ![r] = "free"]
    BY <1>1, <1>2, <1>4, StatusStep
  <1>5. QED BY <1>3, <1>4

-----------------------------------------------------------------------------
(* The steps of a poll.                                                    *)
LEMMA NothingAbove ==
  ASSUME NEW S, IsFiniteSet(S), S # {}, NEW above,
         \A z \in S : /\ above[z] \subseteq S /\ z \notin above[z]
                      /\ \A m \in above[z] : above[m] \subseteq above[z]
  PROVE  \E m \in S : above[m] = {}
  <1> DEFINE T == {X \in SUBSET S : X = S \/ \E z \in S : X = above[z]}
  <1>1. PICK X \in T : X \subseteq S /\ \A Y \in T : Y \subseteq X => Y = X
    <2>1. S \in T
      OBVIOUS
    <2> HIDE DEF T
    <2>2. QED BY <2>1, SmallestSet
  <1>2. ASSUME NEW m \in X, X = S \/ \E z \in S : X = above[z] PROVE FALSE
    <2>1. m \in S /\ above[m] \in T /\ m \notin above[m] /\ above[m] \subseteq X
      BY <1>1, <1>2
    <2> HIDE DEF T
    <2>2. QED BY <1>1, <1>2, <2>1
  <1>3. X # S /\ X = {}
    BY <1>1, <1>2
  <1>4. QED BY <1>1, <1>3

LEMMA LastOf ==
  ASSUME NEW n \in Nat, NEW S \in SUBSET (1..n), S # {}
  PROVE  Max(S) \in S
  <1> DEFINE above == [z \in S |-> {y \in S : y > z}]
  <1>1. IsFiniteSet(S)
    BY FS_Interval, FS_Subset, 1 \in Int, n \in Int
  <1>2. \A z \in S : z \in Int
    OBVIOUS
  <1>3. \A z \in S : above[z] \subseteq S /\ z \notin above[z]
    BY <1>2
  <1>4. ASSUME NEW z \in S, NEW m \in above[z] PROVE above[m] \subseteq above[z]
    <2>1. m \in S /\ m > z
      BY <1>4
    <2>2. \A y \in S : y > m => y > z
      BY <1>2, <2>1
    <2>3. QED BY <2>1, <2>2
  <1> HIDE DEF above
  <1>5. \E m \in S : above[m] = {}
    BY <1>1, <1>3, <1>4, NothingAbove, Zenon
  <1>6. PICK m \in S : \A y \in S : ~(y > m)
    BY <1>5 DEF above
  <1>7. \A y \in S : m >= y
    BY <1>2, <1>6
  <1>8. QED BY <1>7 DEF Max

(* A poll changes at most attempts that have a task, and these keep their  *)
(* body and, if the loop left them behind, their end.                      *)
Polled(u, t) ==
  /\ Len(t) = Len(u)
  /\ \A k \in 1..Len(u) :
       \/ t[k] = u[k]
       \/ /\ u[k].task /\ t[k].task /\ t[k].input = u[k].input /\ t[k].ran = u[k].ran
          /\ Past(u[k]) => Past(t[k])

LEMMA PolledKeeps ==
  ASSUME NEW u \in Seq(Attempt), NEW t \in Seq(Attempt), Polled(u, t),
         NEW s, NEW i
  PROVE  /\ Tried(s, i, u) => Tried(s, i, t)
         /\ \A x : RunFits(x, s, i, u) => RunFits(x, s, i, t)
         /\ \A y : PollFits(y, u) => PollFits(y, t)
  <1>0. Len(u) \in Nat /\ Len(t) = Len(u)
    BY LenProperties DEF Polled
  <1>1. ASSUME NEW k \in 1..Len(u)
        PROVE  /\ t[k].input = u[k].input /\ t[k].ran = u[k].ran
               /\ u[k].task => t[k].task
               /\ Past(u[k]) => Past(t[k])
               /\ ~u[k].task => t[k] = u[k]
    BY <1>1 DEF Polled
  <1>2. Tried(s, i, u) => Tried(s, i, t)
    <2>1. u = <<>> => t = <<>>
      BY <1>0, EmptySeq, LenProperties
    <2>2. QED BY <1>0, <1>1, <2>1 DEF Tried
  <1>3. ASSUME NEW x, RunFits(x, s, i, u) PROVE RunFits(x, s, i, t)
    <2>1. Len(u) > 0 => Len(u) \in 1..Len(u)
      BY <1>0
    <2>2. Len(u) > 0 /\ (Fresh(u[Len(u)]) \/ Refused(u[Len(u)])) => t[Len(u)] = u[Len(u)]
      BY <1>1, <2>1 DEF Fresh, Refused
    <2>3. (\A k \in 1..Len(u) : Past(u[k])) => (\A k \in 1..Len(t) : Past(t[k]))
      BY <1>0, <1>1
    <2>4. QED BY <1>0, <1>3, <2>2, <2>3 DEF RunFits
  <1>4. ASSUME NEW y, PollFits(y, u) PROVE PollFits(y, t)
    BY <1>0, <1>1, <1>4 DEF PollFits
  <1>5. QED BY <1>2, <1>3, <1>4

LEMMA PollStep ==
  ASSUME IInv, NEW w \in Poller, NEW y \in Poll, NEW r \in Request, NEW t \in Seq(Attempt),
         poll' = [poll EXCEPT ![w] = y], attempts' = [attempts EXCEPT ![r] = t],
         UNCHANGED <<status, input, run>>, Polled(attempts[r], t),
         y.pc # "idle" => y.request = r /\ PollFits(y, t)
  PROVE  IInv'
  <1>1. Rows'
    BY DEF IInv, Rows
  <1>2. /\ \A q \in Request : attempts'[q] = (IF q = r THEN t ELSE attempts[q])
        /\ \A v \in Poller : poll'[v] = (IF v = w THEN y ELSE poll[v])
        /\ attempts[r] \in Seq(Attempt)
    BY DEF IInv, Rows
  <1>3. /\ Tried(status[r], input[r], t)
        /\ \A x : RunFits(x, status[r], input[r], attempts[r])
                  => RunFits(x, status[r], input[r], t)
        /\ \A x : PollFits(x, attempts[r]) => PollFits(x, t)
    <2>1. Tried(status[r], input[r], attempts[r])
      BY DEF IInv, Sequence
    <2>2. QED BY <1>2, <2>1, PolledKeeps
  <1>4. \A q \in Request : Tried(status'[q], input'[q], attempts'[q])
    BY <1>2, <1>3 DEF IInv, Sequence
  <1>5. ASSUME NEW c \in Caller, run'[c].pc # "idle"
        PROVE  LET q == run'[c].request
               IN  q \in Request /\ RunFits(run'[c], status'[q], input'[q], attempts'[q])
    <2>1. run'[c] = run[c] /\ status' = status /\ input' = input
      OBVIOUS
    <2>2. /\ run[c].request \in Request
          /\ RunFits(run[c], status[run[c].request], input[run[c].request],
                     attempts[run[c].request])
      BY <1>5, <2>1 DEF IInv, Sequence
    <2>3. QED BY <1>2, <1>3, <2>1, <2>2
  <1>6. ASSUME NEW v \in Poller, poll'[v].pc # "idle"
        PROVE  LET q == poll'[v].request IN q \in Request /\ PollFits(poll'[v], attempts'[q])
    <2>1. CASE v = w
      BY <1>2, <1>6, <2>1
    <2>2. CASE v # w
      <3>1. /\ poll'[v] = poll[v] /\ poll[v].request \in Request
            /\ PollFits(poll[v], attempts[poll[v].request])
        BY <1>2, <1>6, <2>2 DEF IInv, Sequence
      <3>2. QED BY <1>2, <1>3, <3>1
    <2>3. QED BY <2>1, <2>2
  <1>7. \A d, e \in Caller :
          d # e /\ Busy(run'[d]) /\ Busy(run'[e]) => run'[d].request # run'[e].request
    BY DEF IInv, Sequence
  <1>8. QED BY <1>1, <1>4, <1>5, <1>6, <1>7 DEF IInv, Sequence

LEMMA AskInv ==
  ASSUME IInv, NEW w \in Poller, NEW r \in Request, AskProvider(w, r) PROVE IInv'
  <1> DEFINE u == attempts[r]
  <1>1. PICK a \in PollAnswers :
          poll' = [poll EXCEPT ![w] = [pc |-> "record", request |-> r,
                                       attempt |-> Max(Tasks(r)), reply |-> a]]
    BY DEF AskProvider
  <1>2. /\ UNCHANGED <<status, input, run, attempts>> /\ u \in Seq(Attempt)
        /\ attempts' = [attempts EXCEPT ![r] = u] /\ Tasks(r) # {}
    BY DEF AskProvider, row, IInv, Rows
  <1>3. Len(u) \in Nat /\ Tasks(r) \in SUBSET (1..Len(u))
    BY <1>2, LenProperties DEF Tasks
  <1>4. Max(Tasks(r)) \in Tasks(r)
    BY <1>2, <1>3, LastOf
  <1> DEFINE m == Max(Tasks(r))
             y == [pc |-> "record", request |-> r, attempt |-> m, reply |-> a]
  <1>5. m \in Nat /\ m \in 1..Len(u) /\ u[m].task
    BY <1>3, <1>4 DEF Tasks
  <1>6. a \in Reply
    BY PollAnswerFacts
  <1> HIDE DEF m
  <1>7. /\ y \in Poll /\ y.request = r
    BY <1>5, <1>6 DEF Poll
  <1>8. PollFits(y, u)
    BY <1>5 DEF PollFits
  <1>9. Polled(u, u) /\ poll' = [poll EXCEPT ![w] = y]
    BY <1>1 DEF Polled, m
  <1> HIDE DEF y, u
  <1>10. QED BY <1>2, <1>7, <1>8, <1>9, PollStep DEF u

LEMMA PollReplaced ==
  ASSUME NEW u \in Seq(Attempt), NEW m \in 1..Len(u), NEW e \in Attempt,
         NEW t, t = [u EXCEPT ![m] = e],
         u[m].task, e.task, e.input = u[m].input, e.ran = u[m].ran, Past(u[m]) => Past(e)
  PROVE  t \in Seq(Attempt) /\ Polled(u, t)
  <1>1. /\ t \in Seq(Attempt) /\ Len(t) = Len(u) /\ t[m] = e
        /\ \A k \in 1..Len(u) : k # m => t[k] = u[k]
    BY Replaced
  <1>2. QED BY <1>1 DEF Polled

LEMMA RecordPollInv ==
  ASSUME IInv, NEW w \in Poller, RecordPoll(w) PROVE IInv'
  <1> DEFINE a == poll[w].reply
             y == IF a.reliable /\ a.verdict = "completed"
                  THEN [poll[w] EXCEPT !.pc = "settle"] ELSE Resting
  <1>1. /\ poll[w].pc = "record" /\ UNCHANGED <<status, input, run>>
        /\ poll' = [poll EXCEPT ![w] = y]
        /\ attempts' = [attempts EXCEPT ![poll[w].request] =
             [attempts[poll[w].request] EXCEPT ![poll[w].attempt] =
               Recorded(attempts[poll[w].request][poll[w].attempt], a)]]
    BY DEF RecordPoll, row
  <1>2. PICK r, u, m : /\ r \in Request /\ u \in Seq(Attempt) /\ m \in 1..Len(u)
                       /\ r = poll[w].request /\ u = attempts[r] /\ m = poll[w].attempt
                       /\ u[m].task /\ a \in PollAnswers /\ poll[w] \in Poll
    BY <1>1 DEF IInv, Rows, Sequence, PollFits
  <1>3. u[m] \in Attempt /\ a \in Reply
    BY <1>2, ElementOfSeq, PollAnswerFacts
  <1> DEFINE e == Recorded(u[m], a)
             t == [u EXCEPT ![m] = e]
  <1>4. /\ e \in Attempt /\ e.task /\ e.input = u[m].input /\ e.ran = u[m].ran
        /\ Past(u[m]) => Past(e)
    BY <1>2, <1>3, RecordedTyped, RecordedPolled
  <1>5. attempts' = [attempts EXCEPT ![r] = t]
    BY <1>1, <1>2
  <1>6. y \in Poll /\ (y.pc # "idle" => /\ y.request = r /\ y.attempt = m /\ y.reply = a)
    BY <1>2, IdleTyped DEF Poll, Resting
  <1> HIDE DEF e, y
  <1>7. t \in Seq(Attempt) /\ Polled(u, t)
    BY <1>2, <1>4, PollReplaced
  <1> HIDE DEF t
  <1>8. y.pc # "idle" => PollFits(y, t)
    <2>1. PollFits(y, u) => PollFits(y, t)
      BY <1>2, <1>7, PolledKeeps
    <2>2. y.pc # "idle" => PollFits(y, u)
      BY <1>2, <1>6 DEF PollFits
    <2>3. QED BY <2>1, <2>2
  <1>9. QED BY <1>1, <1>2, <1>5, <1>6, <1>7, <1>8, PollStep

-----------------------------------------------------------------------------
LEMMA NextInv == IInv /\ [Next]_vars => IInv'
  <1> SUFFICES ASSUME IInv, [Next]_vars PROVE IInv'
    OBVIOUS
  <1>1. CASE UNCHANGED vars
    BY <1>1, QuietInv DEF vars, row
  <1>2. CASE \E c \in Caller : Execute(c)
    BY <1>2, AdmitNewInv, AdmitAgainInv, ClaimInv, DispatchInv, RouteInv, CallInv, RecordInv,
       FailInv, OverInv DEF Execute
  <1>3. CASE \E w \in Poller : RefreshAsync(w)
    BY <1>3, AskInv, RecordPollInv, PollOverInv DEF RefreshAsync
  <1>4. CASE \E r \in Request : RequestCancellation(r) \/ ResolveTimeout(r)
    BY <1>4, QuietInv DEF RequestCancellation, ResolveTimeout, End
  <1>5. CASE \E r \in Request, k \in Correction, n \in 1..MaxUse : CorrectCustomerCharge(r, k, n)
    BY <1>5, QuietInv DEF CorrectCustomerCharge, row
  <1>6. CASE Tick
    BY <1>6, QuietInv DEF Tick, row
  <1>7. QED BY <1>1, <1>2, <1>3, <1>4, <1>5, <1>6 DEF Next

(* IInv holds always: rows are typed, the attempts of a request follow one *)
(* another, and what an Execute or RefreshAsync under way remembers is     *)
(* true of the rows it will write.                                         *)
THEOREM SpecInv == Spec => []IInv
  BY InitInv, NextInv, PTL DEF Spec

(* However many processes execute and poll a request, every attempt sends  *)
(* the admitted body and starts after the one before it was answered       *)
(* without output: the claim of the request and the loop of Execute.       *)
THEOREM AttemptsComeInSequence == Spec => []AttemptsInSequence
  <1>1. IInv => AttemptsInSequence
    <2> SUFFICES ASSUME IInv, NEW r \in Request, NEW i \in DOMAIN attempts[r]
                 PROVE  /\ attempts[r][i].input = input[r]
                        /\ i < Len(attempts[r]) =>
                             /\ attempts[r][i].state \in {"failed", "completed"}
                             /\ ~attempts[r][i].delivered
      BY DEF AttemptsInSequence
    <2>1. attempts[r] \in Seq(Attempt) /\ Tried(status[r], input[r], attempts[r])
      BY DEF IInv, Rows, Sequence
    <2>2. i \in 1..Len(attempts[r])
      BY <2>1, LenProperties
    <2>3. QED BY <2>1, <2>2 DEF Tried, Past
  <1>2. QED BY <1>1, SpecInv, PTL

(* A request that failUndispatched ends without a charge was worked on by  *)
(* no provider, whoever else executed it and whatever the polls brought.   *)
THEOREM FailedRequestsNeverRan == Spec => []FailedNeverRan
  <1>1. IInv => FailedNeverRan
    <2> SUFFICES ASSUME IInv, NEW r \in Request, status[r] = "failed",
                        NEW i \in DOMAIN attempts[r]
                 PROVE  ~attempts[r][i].ran
      BY DEF FailedNeverRan
    <2>1. attempts[r] \in Seq(Attempt) /\ Tried(status[r], input[r], attempts[r])
      BY DEF IInv, Rows, Sequence
    <2>2. i \in 1..Len(attempts[r])
      BY <2>1, LenProperties
    <2>3. QED BY <2>1, <2>2 DEF Tried
  <1>2. QED BY <1>1, SpecInv, PTL

-----------------------------------------------------------------------------
(* The money.  The sums are taken of any table of states and any table of  *)
(* bills, so that what a step does to them can be said once.               *)
AtLeastZero(x) == IF x > 0 THEN x ELSE 0
Less(x, y) == IF x <= y THEN x ELSE y

LEMMA MaxZero == ASSUME NEW x \in Int PROVE Max({0, x}) = AtLeastZero(x)
  <1> DEFINE m == AtLeastZero(x)
  <1>1. m \in {0, x} /\ m \in Int /\ m >= 0 /\ m >= x
    BY DEF AtLeastZero
  <1> HIDE DEF m
  <1>2. \A y \in {0, x} : (\A z \in {0, x} : y >= z) => y = m
    BY <1>1
  <1>3. \E y \in {0, x} : \A z \in {0, x} : y >= z
    BY <1>1
  <1>4. Max({0, x}) = m
    BY <1>2, <1>3 DEF Max
  <1>5. QED BY <1>4 DEF m

LEMMA MinPair == ASSUME NEW x \in Int, NEW y \in Int PROVE Min({x, y}) = Less(x, y)
  <1> DEFINE m == Less(x, y)
  <1>1. m \in {x, y} /\ m \in Int /\ m <= x /\ m <= y
    BY DEF Less
  <1> HIDE DEF m
  <1>2. \A v \in {x, y} : (\A z \in {x, y} : v <= z) => v = m
    BY <1>1
  <1>3. \E v \in {x, y} : \A z \in {x, y} : v <= z
    BY <1>1
  <1>4. Min({x, y}) = m
    BY <1>2, <1>3 DEF Min
  <1>5. QED BY <1>4 DEF m

(* Of one bill: what is owed after the corrections, what was paid and not  *)
(* given back, and what was metered beyond the estimate.                   *)
OwedOf(b) == b.actual - b.corrected
PaidOf(b) == b.charged - b.returned
BeyondOf(b, e) == AtLeastZero(b.actual - e)

HeldIn(s) == SumFunctionOnSet(Estimate, {r \in Request : s[r] \in Open})
OwedTable(B) == [r \in Request |-> OwedOf(B[r])]
PaidTable(B) == [r \in Request |-> PaidOf(B[r])]
BeyondTable(B) == [r \in Request |-> BeyondOf(B[r], Estimate[r])]
ReportedTable(B) == [r \in Request |-> B[r].overage]
OwedIn(B) == SumFunctionOnSet(OwedTable(B), Request)
PaidIn(B) == SumFunctionOnSet(PaidTable(B), Request)
BeyondIn(B) == SumFunctionOnSet(BeyondTable(B), Request)
ReportedIn(B) == SumFunctionOnSet(ReportedTable(B), Request)

(* A bill and the state of its request.                                    *)
BillSound(b, s) ==
  /\ b.corrected <= b.actual /\ b.charged <= b.actual
  /\ b.returned = AtLeastZero(b.charged - OwedOf(b))
  /\ s # "completed" => b.actual = 0 /\ b.overage = 0

Sound(s, B, n) ==
  /\ \A r \in Request : BillSound(B[r], s[r])
  /\ HeldIn(s) <= n /\ n + PaidIn(B) = Credits
  /\ OwedIn(B) + HeldIn(s) <= BudgetLimit + BeyondIn(B)
  /\ ReportedIn(B) >= AtLeastZero(OwedIn(B) - BudgetLimit)
  /\ (\A r \in Request : B[r].corrected = 0)
       => ReportedIn(B) = AtLeastZero(OwedIn(B) - BudgetLimit)

LEMMA BillFacts ==
  ASSUME NEW b \in Bill, NEW e \in Nat
  PROVE  /\ OwedOf(b) \in Int /\ PaidOf(b) \in Int /\ BeyondOf(b, e) \in Nat
         /\ b.overage \in Nat /\ b.actual \in Nat /\ b.charged \in Nat
         /\ b.corrected \in Nat /\ b.returned \in Nat
  <1>1. /\ b.overage \in Nat /\ b.actual \in Nat /\ b.charged \in Nat
        /\ b.corrected \in Nat /\ b.returned \in Nat
    BY DEF Bill
  <1>2. QED BY <1>1 DEF OwedOf, PaidOf, BeyondOf, AtLeastZero

LEMMA EstimateNat == \A r \in Request : Estimate[r] \in Nat
  BY RequestsAssumption

LEMMA HeldNat == ASSUME NEW s PROVE HeldIn(s) \in Nat
  <1>1. IsFiniteSet({r \in Request : s[r] \in Open})
    BY RequestsAssumption, FS_Subset
  <1>2. QED BY <1>1, EstimateNat, SumNat DEF HeldIn

LEMMA SumsTyped ==
  ASSUME NEW B \in [Request -> Bill]
  PROVE  OwedIn(B) \in Int /\ PaidIn(B) \in Int /\ BeyondIn(B) \in Nat /\ ReportedIn(B) \in Nat
  <1>1. ASSUME NEW r \in Request
        PROVE  /\ OwedTable(B)[r] \in Int /\ PaidTable(B)[r] \in Int
               /\ BeyondTable(B)[r] \in Nat /\ ReportedTable(B)[r] \in Nat
    <2>1. B[r] \in Bill /\ Estimate[r] \in Nat
      BY EstimateNat
    <2>2. QED BY <2>1, BillFacts DEF OwedTable, PaidTable, BeyondTable, ReportedTable
  <1>2. QED BY <1>1, RequestsAssumption, SumInt, SumNat DEF OwedIn, PaidIn, BeyondIn, ReportedIn

(* What a change of one state does to the holds.                           *)
LEMMA HeldOpened ==
  ASSUME NEW s \in [Request -> Status], NEW r \in Request, s[r] \notin Open,
         NEW q \in Open
  PROVE  HeldIn([s EXCEPT ![r] = q]) = HeldIn(s) + Estimate[r]
  <1> DEFINE O == {p \in Request : s[p] \in Open}
  <1>1. {p \in Request : [s EXCEPT ![r] = q][p] \in Open} = O \cup {r} /\ r \notin O
    OBVIOUS
  <1>2. IsFiniteSet(O) /\ \A p \in O \cup {r} : Estimate[p] \in Int
    BY RequestsAssumption, EstimateNat, FS_Subset
  <1>3. SumFunctionOnSet(Estimate, O) \in Nat /\ Estimate[r] \in Nat
    BY HeldNat, EstimateNat DEF HeldIn
  <1> HIDE DEF O
  <1>4. SumFunctionOnSet(Estimate, O \cup {r}) = Estimate[r] + SumFunctionOnSet(Estimate, O)
    BY <1>1, <1>2, SumAdd
  <1>5. HeldIn(s) = SumFunctionOnSet(Estimate, O)
    BY DEF HeldIn, O
  <1>6. HeldIn([s EXCEPT ![r] = q]) = SumFunctionOnSet(Estimate, O \cup {r})
    BY <1>1 DEF HeldIn
  <1>7. QED BY <1>3, <1>4, <1>5, <1>6

LEMMA HeldClosed ==
  ASSUME NEW s \in [Request -> Status], NEW r \in Request, s[r] \in Open,
         NEW q, q \notin Open
  PROVE  HeldIn(s) = HeldIn([s EXCEPT ![r] = q]) + Estimate[r]
  <1> DEFINE O == {p \in Request : s[p] \in Open}
  <1>1. {p \in Request : [s EXCEPT ![r] = q][p] \in Open} = O \ {r} /\ r \in O
    OBVIOUS
  <1>2. IsFiniteSet(O) /\ \A p \in O : Estimate[p] \in Int
    BY RequestsAssumption, EstimateNat, FS_Subset
  <1>3. Estimate[r] \in Nat
    BY EstimateNat
  <1> HIDE DEF O
  <1>4. /\ SumFunctionOnSet(Estimate, O) = Estimate[r] + SumFunctionOnSet(Estimate, O \ {r})
        /\ SumFunctionOnSet(Estimate, O \ {r}) \in Int
    BY <1>1, <1>2, SumRemove
  <1>5. HeldIn(s) = SumFunctionOnSet(Estimate, O)
    BY DEF HeldIn, O
  <1>6. HeldIn([s EXCEPT ![r] = q]) = SumFunctionOnSet(Estimate, O \ {r})
    BY <1>1 DEF HeldIn
  <1>7. QED BY <1>3, <1>4, <1>5, <1>6

LEMMA HeldMoved ==
  ASSUME NEW s \in [Request -> Status], NEW r \in Request, NEW q,
         s[r] \in Open <=> q \in Open
  PROVE  HeldIn([s EXCEPT ![r] = q]) = HeldIn(s)
  <1>1. {p \in Request : [s EXCEPT ![r] = q][p] \in Open} = {p \in Request : s[p] \in Open}
    OBVIOUS
  <1>2. QED BY <1>1 DEF HeldIn

(* What a change of one bill does to the sums.                             *)
LEMMA OneChanged ==
  ASSUME NEW r \in Request, NEW f, NEW g,
         \A q \in Request : f[q] \in Int /\ g[q] \in Int,
         \A q \in Request \ {r} : f[q] = g[q]
  PROVE  SumFunctionOnSet(g, Request) = SumFunctionOnSet(f, Request) + g[r] - f[r]
  BY RequestsAssumption, SumChange

LEMMA BillChanged ==
  ASSUME NEW B \in [Request -> Bill], NEW r \in Request, NEW x \in Bill,
         NEW C \in [Request -> Bill], C[r] = x, \A q \in Request : q # r => C[q] = B[q]
  PROVE  /\ OwedIn(C) = OwedIn(B) + OwedOf(x) - OwedOf(B[r])
         /\ PaidIn(C) = PaidIn(B) + PaidOf(x) - PaidOf(B[r])
         /\ BeyondIn(C) = BeyondIn(B) + BeyondOf(x, Estimate[r]) - BeyondOf(B[r], Estimate[r])
         /\ ReportedIn(C) = ReportedIn(B) + x.overage - B[r].overage
  <1>1. /\ C \in [Request -> Bill] /\ C[r] = x
        /\ \A q \in Request : q # r => C[q] = B[q]
    OBVIOUS
  <1>2. \A q \in Request : /\ OwedTable(B)[q] \in Int /\ PaidTable(B)[q] \in Int
                           /\ BeyondTable(B)[q] \in Int /\ ReportedTable(B)[q] \in Int
                           /\ OwedTable(C)[q] \in Int /\ PaidTable(C)[q] \in Int
                           /\ BeyondTable(C)[q] \in Int /\ ReportedTable(C)[q] \in Int
    <2>1. \A q \in Request : B[q] \in Bill /\ C[q] \in Bill /\ Estimate[q] \in Nat
      BY <1>1, EstimateNat
    <2>2. QED BY <2>1, BillFacts DEF OwedTable, PaidTable, BeyondTable, ReportedTable
  <1>3. \A q \in Request \ {r} :
          /\ OwedTable(B)[q] = OwedTable(C)[q] /\ PaidTable(B)[q] = PaidTable(C)[q]
          /\ BeyondTable(B)[q] = BeyondTable(C)[q]
          /\ ReportedTable(B)[q] = ReportedTable(C)[q]
    BY <1>1 DEF OwedTable, PaidTable, BeyondTable, ReportedTable
  <1>4. /\ OwedTable(B)[r] = OwedOf(B[r]) /\ OwedTable(C)[r] = OwedOf(x)
        /\ PaidTable(B)[r] = PaidOf(B[r]) /\ PaidTable(C)[r] = PaidOf(x)
        /\ BeyondTable(B)[r] = BeyondOf(B[r], Estimate[r])
        /\ BeyondTable(C)[r] = BeyondOf(x, Estimate[r])
        /\ ReportedTable(B)[r] = B[r].overage /\ ReportedTable(C)[r] = x.overage
    BY <1>1 DEF OwedTable, PaidTable, BeyondTable, ReportedTable
  <1>5. OwedIn(C) = OwedIn(B) + OwedOf(x) - OwedOf(B[r])
    <2>1. /\ \A q \in Request : OwedTable(B)[q] \in Int /\ OwedTable(C)[q] \in Int
          /\ \A q \in Request \ {r} : OwedTable(B)[q] = OwedTable(C)[q]
      BY <1>2, <1>3
    <2>2. SumFunctionOnSet(OwedTable(C), Request)
            = SumFunctionOnSet(OwedTable(B), Request) + OwedTable(C)[r] - OwedTable(B)[r]
      BY <2>1, OneChanged, Zenon
    <2>3. QED BY <1>4, <2>2 DEF OwedIn
  <1>6. PaidIn(C) = PaidIn(B) + PaidOf(x) - PaidOf(B[r])
    <2>1. /\ \A q \in Request : PaidTable(B)[q] \in Int /\ PaidTable(C)[q] \in Int
          /\ \A q \in Request \ {r} : PaidTable(B)[q] = PaidTable(C)[q]
      BY <1>2, <1>3
    <2>2. SumFunctionOnSet(PaidTable(C), Request)
            = SumFunctionOnSet(PaidTable(B), Request) + PaidTable(C)[r] - PaidTable(B)[r]
      BY <2>1, OneChanged, Zenon
    <2>3. QED BY <1>4, <2>2 DEF PaidIn
  <1>7. BeyondIn(C) = BeyondIn(B) + BeyondOf(x, Estimate[r]) - BeyondOf(B[r], Estimate[r])
    <2>1. /\ \A q \in Request : BeyondTable(B)[q] \in Int /\ BeyondTable(C)[q] \in Int
          /\ \A q \in Request \ {r} : BeyondTable(B)[q] = BeyondTable(C)[q]
      BY <1>2, <1>3
    <2>2. SumFunctionOnSet(BeyondTable(C), Request)
            = SumFunctionOnSet(BeyondTable(B), Request) + BeyondTable(C)[r] - BeyondTable(B)[r]
      BY <2>1, OneChanged, Zenon
    <2>3. QED BY <1>4, <2>2 DEF BeyondIn
  <1>8. ReportedIn(C) = ReportedIn(B) + x.overage - B[r].overage
    <2>1. /\ \A q \in Request : ReportedTable(B)[q] \in Int /\ ReportedTable(C)[q] \in Int
          /\ \A q \in Request \ {r} : ReportedTable(B)[q] = ReportedTable(C)[q]
      BY <1>2, <1>3
    <2>2. SumFunctionOnSet(ReportedTable(C), Request)
            = SumFunctionOnSet(ReportedTable(B), Request) + ReportedTable(C)[r] - ReportedTable(B)[r]
      BY <2>1, OneChanged, Zenon
    <2>3. QED BY <1>4, <2>2 DEF ReportedIn
  <1>9. QED BY <1>5, <1>6, <1>7, <1>8

LEMMA SoundOpened ==
  ASSUME NEW s \in [Request -> Status], NEW B \in [Request -> Bill], NEW n \in Nat,
         Sound(s, B, n), NEW r \in Request, s[r] = "absent",
         OwedIn(B) + HeldIn(s) + Estimate[r] <= BudgetLimit,
         Estimate[r] > 0 => HeldIn(s) + Estimate[r] <= n
  PROVE  Sound([s EXCEPT ![r] = "accepted"], B, n)
  <1> DEFINE t == [s EXCEPT ![r] = "accepted"]
  <1>1. HeldIn(t) = HeldIn(s) + Estimate[r]
    BY HeldOpened DEF Open
  <1>2. \A q \in Request : BillSound(B[q], t[q])
    BY DEF Sound, BillSound
  <1>3. /\ HeldIn(s) \in Nat /\ Estimate[r] \in Nat /\ BeyondIn(B) \in Nat
        /\ OwedIn(B) \in Int /\ BudgetLimit \in Nat
    BY HeldNat, EstimateNat, SumsTyped, LimitsAssumption
  <1> HIDE DEF t
  <1>4. HeldIn(s) <= n
    BY DEF Sound
  <1>5. HeldIn(t) <= n /\ OwedIn(B) + HeldIn(t) <= BudgetLimit + BeyondIn(B)
    BY <1>1, <1>3, <1>4
  <1>6. Sound(t, B, n)
    BY <1>2, <1>5 DEF Sound
  <1>7. QED BY <1>6 DEF t

LEMMA SoundMoved ==
  ASSUME NEW s \in [Request -> Status], NEW B \in [Request -> Bill], NEW n \in Nat,
         Sound(s, B, n), NEW r \in Request, s[r] \in Open, NEW q, q # "completed"
  PROVE  Sound([s EXCEPT ![r] = q], B, n)
  <1> DEFINE t == [s EXCEPT ![r] = q]
  <1>1. \A p \in Request : BillSound(B[p], t[p])
    BY DEF Sound, BillSound, Open
  <1>2. HeldIn(t) <= HeldIn(s)
    <2>1. Estimate[r] \in Nat /\ HeldIn(s) \in Nat /\ HeldIn(t) \in Nat
      BY HeldNat, EstimateNat
    <2>2. CASE q \in Open
      <3>1. s[r] \in Open <=> q \in Open
        BY <2>2
      <3>2. HeldIn(t) = HeldIn(s)
        BY <3>1, HeldMoved
      <3> HIDE DEF t
      <3>3. QED BY <2>1, <3>2
    <2>3. CASE q \notin Open
      <3>1. HeldIn(s) = HeldIn(t) + Estimate[r]
        BY <2>3, HeldClosed
      <3> HIDE DEF t
      <3>2. QED BY <2>1, <3>1
    <2>4. QED BY <2>2, <2>3
  <1>3. /\ HeldIn(s) \in Nat /\ HeldIn(t) \in Nat /\ BeyondIn(B) \in Nat
        /\ OwedIn(B) \in Int /\ BudgetLimit \in Nat
    BY HeldNat, SumsTyped, LimitsAssumption
  <1> HIDE DEF t
  <1>4. HeldIn(s) <= n /\ OwedIn(B) + HeldIn(s) <= BudgetLimit + BeyondIn(B)
    BY DEF Sound
  <1>5. HeldIn(t) <= n /\ OwedIn(B) + HeldIn(t) <= BudgetLimit + BeyondIn(B)
    BY <1>2, <1>3, <1>4
  <1>6. Sound(t, B, n)
    BY <1>1, <1>5 DEF Sound
  <1>7. QED BY <1>6 DEF t

(* The bill of a request that is open.                                     *)
LEMMA NoBillYet ==
  ASSUME NEW b \in Bill, NEW s, BillSound(b, s), s # "completed", NEW e \in Nat
  PROVE  /\ b.actual = 0 /\ b.charged = 0 /\ b.corrected = 0 /\ b.returned = 0
         /\ b.overage = 0 /\ OwedOf(b) = 0 /\ PaidOf(b) = 0 /\ BeyondOf(b, e) = 0
  <1>1. /\ b.actual \in Nat /\ b.charged \in Nat /\ b.corrected \in Nat
        /\ b.actual = 0 /\ b.overage = 0 /\ b.charged <= 0 /\ b.corrected <= 0
    BY BillFacts DEF BillSound
  <1>2. b.charged = 0 /\ b.corrected = 0
    BY <1>1
  <1>3. OwedOf(b) = 0
    BY <1>1, <1>2 DEF OwedOf
  <1>4. b.returned = 0
    BY <1>2, <1>3 DEF BillSound, AtLeastZero
  <1>5. QED BY <1>1, <1>2, <1>3, <1>4 DEF PaidOf, BeyondOf, AtLeastZero

(* What Settle charges and reports.                                        *)
DebitOf(m, e, free) == IF e = 0 THEN 0 ELSE Less(m, e + free)
OverageOf(m, owed) == IF owed + m > BudgetLimit
                      THEN owed + m - BudgetLimit - AtLeastZero(owed - BudgetLimit) ELSE 0

LEMMA DebitFacts ==
  ASSUME NEW m \in Nat, NEW e \in Nat, NEW free \in Nat
  PROVE  LET d == DebitOf(m, e, free) IN d \in Nat /\ d <= m /\ d <= e + free
  BY DEF DebitOf, Less

LEMMA OverageFacts ==
  ASSUME NEW m \in Nat, NEW owed \in Int
  PROVE  LET o == OverageOf(m, owed) IN
         /\ o \in Nat
         /\ AtLeastZero(owed + m - BudgetLimit) = AtLeastZero(owed - BudgetLimit) + o
  BY LimitsAssumption DEF OverageOf, AtLeastZero

LEMMA SoundSettled ==
  ASSUME NEW s \in [Request -> Status], NEW B \in [Request -> Bill], NEW n \in Nat,
         Sound(s, B, n), NEW r \in Request, s[r] \in Open, NEW m \in Nat,
         NEW d, d = DebitOf(m, Estimate[r], n - HeldIn(s)),
         NEW o, o = OverageOf(m, OwedIn(B)),
         NEW x \in Bill, x.actual = m, x.charged = d, x.overage = o,
         x.corrected = B[r].corrected, x.returned = B[r].returned
  PROVE  /\ n - d \in Nat
         /\ Sound([s EXCEPT ![r] = "completed"], [B EXCEPT ![r] = x], n - d)
  <1> DEFINE t == [s EXCEPT ![r] = "completed"]
             C == [B EXCEPT ![r] = x]
             e == Estimate[r]
             H == HeldIn(s)
             G == HeldIn(t)
  <1>1. /\ e \in Nat /\ H \in Nat /\ H <= n /\ OwedIn(B) \in Int /\ PaidIn(B) \in Int
        /\ BeyondIn(B) \in Nat /\ ReportedIn(B) \in Nat /\ BudgetLimit \in Nat /\ Credits \in Nat
    BY HeldNat, EstimateNat, SumsTyped, LimitsAssumption DEF Sound
  <1>2. n - H \in Nat
    BY <1>1
  <1>3. d \in Nat /\ d <= m /\ d <= e + (n - H)
    <2>1. PICK free \in Nat : free = n - H
      BY <1>2
    <2>2. d = DebitOf(m, e, free)
      BY <2>1
    <2> HIDE DEF H, e
    <2>3. d \in Nat /\ d <= m /\ d <= e + free
      BY <1>1, <2>2, DebitFacts
    <2>4. QED BY <2>1, <2>3
  <1>4. /\ o \in Nat
        /\ AtLeastZero(OwedIn(B) + m - BudgetLimit) = AtLeastZero(OwedIn(B) - BudgetLimit) + o
    BY <1>1, OverageFacts
  <1>5. B[r] \in Bill /\ BillSound(B[r], s[r]) /\ s[r] # "completed"
    BY DEF Sound, Open
  <1>6. /\ B[r].returned = 0 /\ B[r].corrected = 0 /\ B[r].overage = 0
        /\ OwedOf(B[r]) = 0 /\ PaidOf(B[r]) = 0 /\ BeyondOf(B[r], e) = 0
    BY <1>1, <1>5, NoBillYet
  <1>7. /\ x \in Bill /\ x.actual = m /\ x.charged = d /\ x.overage = o
        /\ x.returned = 0 /\ x.corrected = 0
    BY <1>6
  <1>8. OwedOf(x) = m /\ PaidOf(x) = d /\ BeyondOf(x, e) = AtLeastZero(m - e)
    BY <1>3, <1>7 DEF OwedOf, PaidOf, BeyondOf
  <1>9. H = G + e /\ G \in Nat
    BY HeldClosed, HeldNat DEF Open
  <1>10. /\ C \in [Request -> Bill] /\ C[r] = x
         /\ \A q \in Request : q # r => C[q] = B[q]
         /\ OwedIn(C) = OwedIn(B) + OwedOf(x) - OwedOf(B[r])
         /\ PaidIn(C) = PaidIn(B) + PaidOf(x) - PaidOf(B[r])
         /\ BeyondIn(C) = BeyondIn(B) + BeyondOf(x, e) - BeyondOf(B[r], e)
         /\ ReportedIn(C) = ReportedIn(B) + x.overage - B[r].overage
    <2>1. /\ C \in [Request -> Bill] /\ C[r] = x /\ x \in Bill
          /\ \A q \in Request : q # r => C[q] = B[q]
      BY <1>7
    <2> HIDE DEF C
    <2>2. /\ OwedIn(C) = OwedIn(B) + OwedOf(x) - OwedOf(B[r])
          /\ PaidIn(C) = PaidIn(B) + PaidOf(x) - PaidOf(B[r])
          /\ BeyondIn(C) = BeyondIn(B) + BeyondOf(x, Estimate[r]) - BeyondOf(B[r], Estimate[r])
          /\ ReportedIn(C) = ReportedIn(B) + x.overage - B[r].overage
      BY <2>1, BillChanged
    <2>3. QED BY <2>1, <2>2
  <1>11. /\ OwedIn(C) = OwedIn(B) + m /\ PaidIn(C) = PaidIn(B) + d
         /\ BeyondIn(C) = BeyondIn(B) + AtLeastZero(m - e) /\ ReportedIn(C) = ReportedIn(B) + o
    BY <1>1, <1>3, <1>4, <1>6, <1>7, <1>8, <1>10 DEF AtLeastZero
  <1>12. BillSound(x, "completed")
    BY <1>3, <1>7, <1>8 DEF BillSound, AtLeastZero
  <1>13. \A q \in Request : BillSound(C[q], t[q])
    BY <1>10, <1>12 DEF Sound
  <1> HIDE DEF t, C, e, H, G
  <1>14. /\ n + PaidIn(B) = Credits /\ OwedIn(B) + H <= BudgetLimit + BeyondIn(B)
         /\ ReportedIn(B) >= AtLeastZero(OwedIn(B) - BudgetLimit)
    BY DEF Sound, H
  <1>15. n - d \in Nat /\ G <= n - d /\ (n - d) + PaidIn(C) = Credits
    BY <1>1, <1>3, <1>9, <1>11, <1>14
  <1>16. OwedIn(C) + G <= BudgetLimit + BeyondIn(C)
    BY <1>1, <1>9, <1>11, <1>14 DEF AtLeastZero
  <1>17. AtLeastZero(OwedIn(B) - BudgetLimit) \in Nat
    BY <1>1 DEF AtLeastZero
  <1>18. AtLeastZero(OwedIn(C) - BudgetLimit) = AtLeastZero(OwedIn(B) - BudgetLimit) + o
    <2>1. OwedIn(C) - BudgetLimit = OwedIn(B) + m - BudgetLimit
      BY <1>1, <1>11
    <2>2. QED BY <1>4, <2>1
  <1>19. ReportedIn(C) >= AtLeastZero(OwedIn(C) - BudgetLimit)
    BY <1>1, <1>4, <1>11, <1>14, <1>17, <1>18
  <1>20. ASSUME \A q \in Request : C[q].corrected = 0
         PROVE  ReportedIn(C) = AtLeastZero(OwedIn(C) - BudgetLimit)
    <2>1. \A q \in Request : B[q].corrected = 0
      BY <1>6, <1>10, <1>20
    <2>2. ReportedIn(B) = AtLeastZero(OwedIn(B) - BudgetLimit)
      BY <2>1 DEF Sound
    <2>3. QED BY <1>11, <1>18, <2>2
  <1>21. Sound(t, C, n - d)
    BY <1>13, <1>15, <1>16, <1>19, <1>20 DEF Sound, G
  <1>22. QED BY <1>7, <1>15, <1>21 DEF t, C

LEMMA SoundCorrected ==
  ASSUME NEW s \in [Request -> Status], NEW B \in [Request -> Bill], NEW n \in Nat,
         Sound(s, B, n), NEW r \in Request, s[r] = "completed", NEW k \in Nat, k > 0,
         B[r].corrected + k <= B[r].actual,
         NEW g, g = AtLeastZero(B[r].charged - (OwedOf(B[r]) - k)),
         NEW x \in Bill, x.corrected = B[r].corrected + k, x.returned = g,
         x.actual = B[r].actual, x.charged = B[r].charged, x.overage = B[r].overage
  PROVE  /\ n + g - B[r].returned \in Nat
         /\ g >= B[r].returned /\ g <= B[r].charged
         /\ Sound(s, [B EXCEPT ![r] = x], n + g - B[r].returned)
  <1> DEFINE b == B[r]
             C == [B EXCEPT ![r] = x]
             e == Estimate[r]
             back == g - b.returned
             H == HeldIn(s)
  <1>1. /\ e \in Nat /\ H \in Nat /\ H <= n /\ OwedIn(B) \in Int /\ PaidIn(B) \in Int
        /\ BeyondIn(B) \in Nat /\ ReportedIn(B) \in Nat /\ BudgetLimit \in Nat /\ Credits \in Nat
    BY HeldNat, EstimateNat, SumsTyped, LimitsAssumption DEF Sound
  <1>2. b \in Bill /\ BillSound(b, s[r])
    BY DEF Sound
  <1>3. /\ b.actual \in Nat /\ b.charged \in Nat /\ b.corrected \in Nat
        /\ b.returned \in Nat /\ b.overage \in Nat
        /\ b.returned = AtLeastZero(b.charged - (b.actual - b.corrected))
        /\ b.corrected + k <= b.actual /\ b.charged <= b.actual
        /\ g = AtLeastZero(b.charged - ((b.actual - b.corrected) - k))
    BY <1>1, <1>2, BillFacts DEF BillSound, OwedOf
  <1> HIDE DEF b, C, e, H
  <1>4. g \in Nat /\ g >= b.returned /\ g <= b.charged /\ b.corrected + k \in Nat
    BY <1>3 DEF AtLeastZero
  <1>5. /\ x \in Bill /\ x.corrected = b.corrected + k /\ x.returned = g
        /\ x.actual = b.actual /\ x.charged = b.charged /\ x.overage = b.overage
    BY DEF b
  <1>6. /\ OwedOf(x) = OwedOf(b) - k /\ PaidOf(x) = PaidOf(b) - back
        /\ BeyondOf(x, e) = BeyondOf(b, e)
    BY <1>3, <1>4, <1>5 DEF OwedOf, PaidOf, BeyondOf
  <1>7. BillSound(x, s[r])
    <2>1. x.returned = AtLeastZero(x.charged - (x.actual - x.corrected))
      BY <1>3, <1>4, <1>5 DEF AtLeastZero
    <2>2. QED BY <1>3, <1>4, <1>5, <2>1 DEF BillSound, OwedOf
  <1>8. /\ C \in [Request -> Bill] /\ C[r] = x
        /\ \A q \in Request : q # r => C[q] = B[q]
        /\ OwedIn(C) = OwedIn(B) + OwedOf(x) - OwedOf(b)
        /\ PaidIn(C) = PaidIn(B) + PaidOf(x) - PaidOf(b)
        /\ BeyondIn(C) = BeyondIn(B) + BeyondOf(x, e) - BeyondOf(b, e)
        /\ ReportedIn(C) = ReportedIn(B) + x.overage - b.overage
    <2>1. /\ C \in [Request -> Bill] /\ C[r] = x /\ x \in Bill
          /\ \A q \in Request : q # r => C[q] = B[q]
      BY <1>5 DEF C
    <2>2. /\ OwedIn(C) = OwedIn(B) + OwedOf(x) - OwedOf(B[r])
          /\ PaidIn(C) = PaidIn(B) + PaidOf(x) - PaidOf(B[r])
          /\ BeyondIn(C) = BeyondIn(B) + BeyondOf(x, Estimate[r]) - BeyondOf(B[r], Estimate[r])
          /\ ReportedIn(C) = ReportedIn(B) + x.overage - B[r].overage
      BY <2>1, BillChanged
    <2>3. QED BY <2>1, <2>2 DEF b, e
  <1>9. OwedOf(b) \in Int /\ PaidOf(b) \in Int /\ BeyondOf(b, e) \in Nat /\ back \in Nat
    BY <1>1, <1>2, <1>3, <1>4, BillFacts
  <1>10. /\ OwedIn(C) = OwedIn(B) - k /\ PaidIn(C) = PaidIn(B) - back
         /\ BeyondIn(C) = BeyondIn(B) /\ ReportedIn(C) = ReportedIn(B)
    <2> HIDE DEF back
    <2>1. QED BY <1>1, <1>3, <1>5, <1>6, <1>8, <1>9
  <1>11. /\ n + PaidIn(B) = Credits /\ OwedIn(B) + H <= BudgetLimit + BeyondIn(B)
         /\ ReportedIn(B) >= AtLeastZero(OwedIn(B) - BudgetLimit)
    BY DEF Sound, H
  <1>12. n + g - b.returned = n + back
    BY <1>3, <1>4
  <1> HIDE DEF back
  <1>13. n + back \in Nat /\ H <= n + back /\ (n + back) + PaidIn(C) = Credits
    BY <1>1, <1>9, <1>10, <1>11
  <1>14. /\ OwedIn(C) + H <= BudgetLimit + BeyondIn(C)
         /\ ReportedIn(C) >= AtLeastZero(OwedIn(C) - BudgetLimit)
    BY <1>1, <1>10, <1>11 DEF AtLeastZero
  <1>15. C[r].corrected # 0
    BY <1>3, <1>5, <1>8
  <1>16. \A q \in Request : BillSound(C[q], s[q])
    BY <1>7, <1>8 DEF Sound
  <1>17. Sound(s, C, n + back)
    BY <1>13, <1>14, <1>15, <1>16 DEF Sound, H
  <1>18. QED BY <1>4, <1>5, <1>12, <1>13, <1>17 DEF b, C

-----------------------------------------------------------------------------
MoneyTyped ==
  /\ bill \in [Request -> Bill] /\ credits \in Nat
  /\ correction \in [Request -> [Correction -> Nat]]
MInv == MoneyTyped /\ Sound(status, bill, credits)

(* The figures of the model are these sums of its rows.                    *)
LEMMA FiguresAre ==
  /\ Held = HeldIn(status) /\ Spent = OwedIn(bill)
  /\ Paid = PaidTable(bill) /\ Reported = ReportedTable(bill) /\ Owed = OwedTable(bill)
  <1>1. Held = HeldIn(status)
    BY DEF Held, HeldIn, OpenRequests, IsOpen
  <1>2. Owed = OwedTable(bill)
    BY DEF Owed, OwedTable, OwedOf
  <1>3. Spent = OwedIn(bill)
    BY <1>2 DEF Spent, OwedIn
  <1>4. Paid = PaidTable(bill) /\ Reported = ReportedTable(bill)
    BY DEF Paid, PaidTable, PaidOf, Reported, ReportedTable
  <1>5. QED BY <1>1, <1>2, <1>3, <1>4

LEMMA InitMoney == Init => MInv
  <1> SUFFICES ASSUME Init PROVE MInv
    OBVIOUS
  <1> DEFINE none == [actual |-> 0, charged |-> 0, overage |-> 0, corrected |-> 0,
                      returned |-> 0]
  <1>1. none \in Bill /\ bill = [r \in Request |-> none] /\ credits = Credits
    BY DEF Init, Bill
  <1>2. /\ none.actual = 0 /\ none.charged = 0 /\ none.overage = 0
        /\ none.corrected = 0 /\ none.returned = 0
    OBVIOUS
  <1>3. MoneyTyped
    BY <1>1, LimitsAssumption DEF MoneyTyped, Init
  <1> HIDE DEF none
  <1>4. \A r \in Request : bill[r] = none /\ status[r] = "absent"
    BY <1>1 DEF Init
  <1>5. OwedOf(none) = 0 /\ PaidOf(none) = 0 /\ \A e \in Nat : BeyondOf(none, e) = 0
    BY <1>2 DEF OwedOf, PaidOf, BeyondOf, AtLeastZero
  <1>6. \A r \in Request : BillSound(bill[r], status[r])
    BY <1>2, <1>4, <1>5 DEF BillSound, AtLeastZero
  <1>7. /\ \A r \in Request : OwedTable(bill)[r] = 0
        /\ \A r \in Request : PaidTable(bill)[r] = 0
        /\ \A r \in Request : BeyondTable(bill)[r] = 0
        /\ \A r \in Request : ReportedTable(bill)[r] = 0
    BY <1>2, <1>4, <1>5, EstimateNat DEF OwedTable, PaidTable, BeyondTable, ReportedTable
  <1>8. OwedIn(bill) = 0 /\ PaidIn(bill) = 0 /\ BeyondIn(bill) = 0 /\ ReportedIn(bill) = 0
    BY <1>7, RequestsAssumption, SumZero DEF OwedIn, PaidIn, BeyondIn, ReportedIn
  <1>9. HeldIn(status) = 0
    <2>1. {r \in Request : status[r] \in Open} = {}
      BY <1>4 DEF Open
    <2>2. QED BY <2>1, SumEmpty DEF HeldIn
  <1>10. Sound(status, bill, credits)
    BY <1>1, <1>6, <1>8, <1>9, LimitsAssumption DEF Sound, AtLeastZero
  <1>11. QED BY <1>3, <1>10 DEF MInv

LEMMA MoneySame ==
  ASSUME MInv, UNCHANGED <<status, bill, credits, correction>> PROVE MInv'
  BY DEF MInv, MoneyTyped

LEMMA MoneyMoved ==
  ASSUME IInv, MInv, NEW r \in Request, status[r] \in Open, NEW q, q # "completed",
         status' = [status EXCEPT ![r] = q], UNCHANGED <<bill, credits, correction>>
  PROVE  MInv'
  <1>1. /\ status \in [Request -> Status] /\ bill \in [Request -> Bill] /\ credits \in Nat
        /\ Sound(status, bill, credits)
    BY DEF IInv, Rows, MInv, MoneyTyped
  <1>2. Sound([status EXCEPT ![r] = q], bill, credits)
    BY <1>1, SoundMoved
  <1>3. Sound(status', bill', credits')
    BY <1>2
  <1>4. QED BY <1>3 DEF MInv, MoneyTyped

LEMMA AdmitNewMoney ==
  ASSUME IInv, MInv, NEW c, NEW r \in Request, NEW i, AdmitNew(c, r, i) PROVE MInv'
  <1>1. /\ status \in [Request -> Status] /\ bill \in [Request -> Bill] /\ credits \in Nat
        /\ Sound(status, bill, credits)
    BY DEF IInv, Rows, MInv, MoneyTyped
  <1>2. /\ status[r] = "absent" /\ Spent + Held + Estimate[r] <= BudgetLimit
        /\ Estimate[r] > 0 => Held + Estimate[r] <= credits
        /\ status' = [status EXCEPT ![r] = "accepted"]
        /\ UNCHANGED <<bill, credits, correction>>
    BY DEF AdmitNew, HasBudget, money
  <1>3. /\ OwedIn(bill) + HeldIn(status) + Estimate[r] <= BudgetLimit
        /\ Estimate[r] > 0 => HeldIn(status) + Estimate[r] <= credits
    BY <1>2, FiguresAre
  <1>4. Sound([status EXCEPT ![r] = "accepted"], bill, credits)
    BY <1>1, <1>2, <1>3, SoundOpened
  <1>5. Sound(status', bill', credits')
    BY <1>2, <1>4
  <1>6. QED BY <1>2, <1>5 DEF MInv, MoneyTyped

LEMMA SettleMoney ==
  ASSUME IInv, MInv, NEW r \in Request, NEW m \in Nat, Settle(r, m) PROVE MInv'
  <1>1. /\ status \in [Request -> Status] /\ bill \in [Request -> Bill] /\ credits \in Nat
        /\ Sound(status, bill, credits)
    BY DEF IInv, Rows, MInv, MoneyTyped
  <1>2. CASE ~Settleable(r)
    BY <1>2, MoneySame DEF Settle, row, money
  <1>3. CASE Settleable(r) /\ now >= deadline[r]
    <2>1. /\ status[r] \in Open /\ status' = [status EXCEPT ![r] = "free"]
          /\ UNCHANGED <<bill, credits, correction>>
      BY <1>3 DEF Settle, Settleable, IsOpen, End, money
    <2>2. QED BY <2>1, MoneyMoved
  <1>4. CASE Settleable(r) /\ ~(now >= deadline[r])
    <2> DEFINE d == Debit(r, m)
               o == Overage(m)
               x == [bill[r] EXCEPT !.actual = m, !.charged = d, !.overage = o]
    <2>1. /\ status[r] \in Open /\ status' = [status EXCEPT ![r] = "completed"]
          /\ bill' = [bill EXCEPT ![r] = x] /\ credits' = credits - d
          /\ UNCHANGED correction
      BY <1>4 DEF Settle, Settleable, IsOpen, End
    <2>2. /\ HeldIn(status) \in Nat /\ Estimate[r] \in Nat /\ OwedIn(bill) \in Int
          /\ HeldIn(status) <= credits /\ BudgetLimit \in Nat
      BY <1>1, HeldNat, EstimateNat, SumsTyped, LimitsAssumption DEF Sound
    <2>3. d = DebitOf(m, Estimate[r], credits - HeldIn(status)) /\ d \in Nat
      <3>1. PICK free \in Nat : free = credits - HeldIn(status)
        BY <1>1, <2>2
      <3>2. Estimate[r] + free \in Int /\ Estimate[r] + credits - Held = Estimate[r] + free
        BY <1>1, <2>2, <3>1, FiguresAre
      <3>3. d = IF Estimate[r] = 0 THEN 0 ELSE Less(m, Estimate[r] + free)
        BY <3>2, MinPair DEF Debit
      <3>4. d = DebitOf(m, Estimate[r], free)
        BY <3>3 DEF DebitOf
      <3> HIDE DEF d
      <3>5. d \in Nat
        BY <2>2, <3>4, DebitFacts
      <3>6. QED BY <3>1, <3>4, <3>5
    <2>4. o = OverageOf(m, OwedIn(bill)) /\ o \in Nat
      <3>1. PICK owed \in Int : owed = OwedIn(bill) /\ Spent = owed
        BY <2>2, FiguresAre
      <3>2. Max({0, owed - BudgetLimit}) = AtLeastZero(owed - BudgetLimit)
        BY <2>2, MaxZero
      <3>3. o = OverageOf(m, owed)
        BY <3>1, <3>2 DEF Overage, OverageOf
      <3> HIDE DEF o
      <3>4. o \in Nat
        BY <3>3, OverageFacts
      <3>5. QED BY <3>1, <3>3, <3>4
    <2> HIDE DEF d, o
    <2>5. /\ x \in Bill /\ x.actual = m /\ x.charged = d /\ x.overage = o
          /\ x.corrected = bill[r].corrected /\ x.returned = bill[r].returned
      BY <1>1, <2>3, <2>4 DEF Bill
    <2> HIDE DEF x
    <2>6. /\ credits - d \in Nat
          /\ Sound([status EXCEPT ![r] = "completed"], [bill EXCEPT ![r] = x], credits - d)
      BY <1>1, <2>1, <2>3, <2>4, <2>5, SoundSettled
    <2>7. Sound(status', bill', credits') /\ credits' \in Nat
      BY <2>1, <2>6
    <2>8. bill' \in [Request -> Bill]
      BY <1>1, <2>1, <2>5
    <2>9. QED BY <2>1, <2>7, <2>8 DEF MInv, MoneyTyped
  <1>5. QED BY <1>2, <1>3, <1>4

LEMMA CorrectMoney ==
  ASSUME IInv, MInv, NEW r \in Request, NEW k \in Correction, NEW n \in 1..MaxUse,
         CorrectCustomerCharge(r, k, n)
  PROVE  /\ MInv' /\ bill'[r].returned >= bill[r].returned
         /\ bill'[r].charged = bill[r].charged /\ bill'[r].returned <= bill[r].charged
  <1> DEFINE g == Returned(r, n)
             x == [bill[r] EXCEPT !.corrected = bill[r].corrected + n, !.returned = g]
  <1>1. /\ status \in [Request -> Status] /\ bill \in [Request -> Bill] /\ credits \in Nat
        /\ Sound(status, bill, credits) /\ correction \in [Request -> [Correction -> Nat]]
        /\ n \in Nat /\ n > 0 /\ bill[r] \in Bill
    BY LimitsAssumption DEF IInv, Rows, MInv, MoneyTyped
  <1>2. /\ status[r] = "completed" /\ bill[r].corrected + n <= bill[r].actual
        /\ correction' = [correction EXCEPT ![r][k] = n]
        /\ bill' = [bill EXCEPT ![r] = x] /\ credits' = credits + g - bill[r].returned
        /\ UNCHANGED status
    BY DEF CorrectCustomerCharge, Correctable, row
  <1>3. /\ bill[r].actual \in Nat /\ bill[r].charged \in Nat /\ bill[r].corrected \in Nat
        /\ OwedOf(bill[r]) \in Int /\ bill[r].returned \in Nat
    BY <1>1, BillFacts, 0 \in Nat
  <1>4. g = AtLeastZero(bill[r].charged - (OwedOf(bill[r]) - n)) /\ g \in Nat
    <2>1. Owed[r] = OwedOf(bill[r])
      BY FiguresAre DEF OwedTable
    <2>2. PICK z \in Int : z = bill[r].charged - (OwedOf(bill[r]) - n)
      BY <1>1, <1>3
    <2>3. g = AtLeastZero(z)
      BY <2>1, <2>2, MaxZero DEF Returned
    <2>4. AtLeastZero(z) \in Nat
      BY DEF AtLeastZero
    <2>5. QED BY <2>2, <2>3, <2>4
  <1> HIDE DEF g
  <1>5. /\ x \in Bill /\ x.corrected = bill[r].corrected + n /\ x.returned = g
        /\ x.actual = bill[r].actual /\ x.charged = bill[r].charged
        /\ x.overage = bill[r].overage
    <2>1. bill[r].corrected + n \in Nat
      BY <1>1, <1>3
    <2>2. QED BY <1>1, <1>4, <2>1 DEF Bill
  <1> HIDE DEF x
  <1>6. /\ credits + g - bill[r].returned \in Nat
        /\ g >= bill[r].returned /\ g <= bill[r].charged
        /\ Sound(status, [bill EXCEPT ![r] = x], credits + g - bill[r].returned)
    BY <1>1, <1>2, <1>4, <1>5, SoundCorrected
  <1>7. Sound(status', bill', credits') /\ credits' \in Nat
    BY <1>2, <1>6
  <1>8. bill' \in [Request -> Bill] /\ bill'[r] = x
    BY <1>1, <1>2, <1>5
  <1>9. correction' \in [Request -> [Correction -> Nat]]
    BY <1>1, <1>2
  <1>10. MInv'
    BY <1>7, <1>8, <1>9 DEF MInv, MoneyTyped
  <1>11. QED BY <1>5, <1>6, <1>8, <1>10

(* What a step can do to the states and the money.                         *)
Moves(r) == /\ status[r] \in Open
            /\ \E q \in Open \cup {"failed", "free"} : status' = [status EXCEPT ![r] = q]
            /\ UNCHANGED <<bill, credits, correction>>
Kinds ==
  \/ UNCHANGED <<status, bill, credits, correction>>
  \/ \E c \in Caller, r \in Request, i \in Input : AdmitNew(c, r, i)
  \/ \E r \in Request : Moves(r)
  \/ \E r \in Request, m \in Nat : Settle(r, m)
  \/ \E r \in Request, k \in Correction, n \in 1..MaxUse : CorrectCustomerCharge(r, k, n)

LEMMA StepKinds == ASSUME IInv, [Next]_vars PROVE Kinds
  <1>1. /\ \A c \in Caller : run[c].pc # "idle" => run[c].request \in Request
        /\ \A w \in Poller : poll[w].pc # "idle" => poll[w].request \in Request
        /\ \A n \in 0..MaxUse : n \in Nat
    BY LimitsAssumption DEF IInv, Sequence
  <1>2. CASE UNCHANGED vars \/ Tick
    BY <1>2 DEF vars, Tick, row, money, Kinds
  <1>3. ASSUME NEW c \in Caller, Execute(c) PROVE Kinds
    <2>1. CASE \E r \in Request, i \in Input : AdmitNew(c, r, i)
      BY <2>1 DEF Kinds
    <2>2. CASE \E r \in Request, i \in Input : AdmitAgain(c, r, i)
      BY <2>2 DEF AdmitAgain, Kinds, row, money
    <2>3. CASE ClaimExecution(c)
      BY <1>1, <2>3 DEF ClaimExecution, Claimable, Kinds, Moves, Open, money
    <2>4. CASE Dispatch(c) \/ RouteUnavailable(c) \/ EndLoop(c) \/ RecordAttempt(c) \/ Abandon(c)
      BY <2>4 DEF Dispatch, RouteUnavailable, EndLoop, RecordAttempt, Abandon, Kinds, row, money
    <2>5. CASE Call(c)
      BY <2>5 DEF Call, Kinds, row, money
    <2>6. CASE FailUndispatched(c)
      BY <1>1, <2>6 DEF FailUndispatched, IsOpen, End, Kinds, Moves, Open, money
    <2>7. CASE FinishSettled(c)
      BY <1>1, <2>7 DEF FinishSettled, Kinds
    <2>8. CASE FinishPending(c)
      <3>1. /\ run[c].request \in Request /\ UNCHANGED <<bill, credits, correction>>
        BY <1>1, <2>8 DEF FinishPending, money
      <3>2. CASE StillExecuting(run[c].request)
        BY <2>8, <3>1, <3>2 DEF FinishPending, StillExecuting, End, Kinds, Moves, Open
      <3>3. CASE ~StillExecuting(run[c].request)
        BY <2>8, <3>1, <3>3 DEF FinishPending, Kinds
      <3>4. QED BY <3>2, <3>3
    <2>9. QED BY <1>3, <2>1, <2>2, <2>3, <2>4, <2>5, <2>6, <2>7, <2>8 DEF Execute
  <1>4. ASSUME NEW w \in Poller, RefreshAsync(w) PROVE Kinds
    <2>1. CASE \E r \in Request : AskProvider(w, r)
      BY <2>1 DEF AskProvider, Kinds, row, money
    <2>2. CASE RecordPoll(w) \/ AbandonPoll(w)
      BY <2>2 DEF RecordPoll, AbandonPoll, Kinds, row, money
    <2>3. CASE SettlePoll(w)
      BY <1>1, <2>3 DEF SettlePoll, Kinds
    <2>4. QED BY <1>4, <2>1, <2>2, <2>3 DEF RefreshAsync
  <1>5. ASSUME NEW r \in Request, RequestCancellation(r) PROVE Kinds
    BY <1>5 DEF RequestCancellation, Kinds, money
  <1>6. ASSUME NEW r \in Request, ResolveTimeout(r) PROVE Kinds
    BY <1>6 DEF ResolveTimeout, Overdue, IsOpen, End, Kinds, Moves, money
  <1>7. ASSUME NEW r \in Request, NEW k \in Correction, NEW n \in 1..MaxUse,
               CorrectCustomerCharge(r, k, n)
        PROVE  Kinds
    BY <1>7 DEF Kinds
  <1>8. QED BY <1>2, <1>3, <1>4, <1>5, <1>6, <1>7 DEF Next

LEMMA NextMoney == IInv /\ MInv /\ [Next]_vars => MInv'
  <1> SUFFICES ASSUME IInv, MInv, [Next]_vars PROVE MInv'
    OBVIOUS
  <1>1. Kinds
    BY StepKinds
  <1>2. CASE UNCHANGED <<status, bill, credits, correction>>
    BY <1>2, MoneySame
  <1>3. ASSUME NEW c \in Caller, NEW r \in Request, NEW i \in Input, AdmitNew(c, r, i)
        PROVE  MInv'
    BY <1>3, AdmitNewMoney
  <1>4. ASSUME NEW r \in Request, Moves(r) PROVE MInv'
    <2>1. PICK q \in Open \cup {"failed", "free"} : status' = [status EXCEPT ![r] = q]
      BY <1>4 DEF Moves
    <2>2. status[r] \in Open /\ q # "completed" /\ UNCHANGED <<bill, credits, correction>>
      BY <1>4, <2>1 DEF Moves, Open
    <2>3. QED BY <2>1, <2>2, MoneyMoved
  <1>5. ASSUME NEW r \in Request, NEW m \in Nat, Settle(r, m) PROVE MInv'
    BY <1>5, SettleMoney
  <1>6. ASSUME NEW r \in Request, NEW k \in Correction, NEW n \in 1..MaxUse,
               CorrectCustomerCharge(r, k, n)
        PROVE  MInv'
    BY <1>6, CorrectMoney
  <1>7. QED BY <1>1, <1>2, <1>3, <1>4, <1>5, <1>6 DEF Kinds

(* MInv holds always: Admit, Settle, the ends and the corrections keep the *)
(* bill of every request, the balance, the holds and the budget in step.   *)
THEOREM SpecMoney == Spec => []MInv
  BY InitMoney, NextMoney, SpecInv, PTL DEF Spec

(* Settle and CorrectCustomerCharge: after any settlements and corrections *)
(* the customer has paid what is owed or what could be taken, no credit is *)
(* lost or made, and the holds of the open requests are covered.           *)
THEOREM CustomerPaysAsCorrected == Spec => []PaidAsCorrected
  <1>1. MInv => PaidAsCorrected
    <2> SUFFICES ASSUME MInv PROVE PaidAsCorrected
      OBVIOUS
    <2>1. Sound(status, bill, credits) /\ bill \in [Request -> Bill]
      BY DEF MInv, MoneyTyped
    <2>2. ASSUME NEW r \in Request PROVE Paid[r] = Min({bill[r].charged, Owed[r]})
      <3>1. BillSound(bill[r], status[r]) /\ bill[r] \in Bill
        BY <2>1 DEF Sound
      <3>2. Paid[r] = PaidOf(bill[r]) /\ Owed[r] = OwedOf(bill[r])
        BY FiguresAre DEF PaidTable, OwedTable
      <3>3. bill[r].charged \in Nat /\ OwedOf(bill[r]) \in Int
        BY <3>1, BillFacts, 0 \in Nat
      <3>4. bill[r].returned = AtLeastZero(bill[r].charged - OwedOf(bill[r]))
        BY <3>1 DEF BillSound
      <3>5. PICK z \in Int : z = OwedOf(bill[r])
        BY <3>3
      <3>6. Min({bill[r].charged, z}) = Less(bill[r].charged, z)
        BY <3>3, MinPair
      <3>7. bill[r].charged - AtLeastZero(bill[r].charged - z) = Less(bill[r].charged, z)
        BY <3>3 DEF AtLeastZero, Less
      <3>8. QED BY <3>2, <3>4, <3>5, <3>6, <3>7 DEF PaidOf
    <2>3. credits + SumFunctionOnSet(Paid, Request) = Credits /\ Held <= credits
      BY <2>1, FiguresAre DEF Sound, PaidIn
    <2>4. QED BY <2>2, <2>3 DEF PaidAsCorrected
  <1>2. QED BY <1>1, SpecMoney, PTL

(* Admit and Settle: what is spent and held exceeds the budget of the key  *)
(* by no more than was metered beyond the estimates, and the overages      *)
(* reported with the settlements are that excess until one is corrected.   *)
THEOREM BudgetIsKept == Spec => []BudgetKept
  <1>1. MInv => BudgetKept
    <2> SUFFICES ASSUME MInv PROVE BudgetKept
      OBVIOUS
    <2>1. Sound(status, bill, credits) /\ bill \in [Request -> Bill]
      BY DEF MInv, MoneyTyped
    <2>2. Max({0, Spent - BudgetLimit}) = AtLeastZero(OwedIn(bill) - BudgetLimit)
      <3>1. PICK z \in Int : z = OwedIn(bill) - BudgetLimit
        BY <2>1, SumsTyped, LimitsAssumption
      <3>2. Max({0, z}) = AtLeastZero(z)
        BY MaxZero
      <3>3. QED BY <3>1, <3>2, FiguresAre
    <2>3. BeyondEstimate = BeyondTable(bill)
      <3>1. ASSUME NEW r \in Request
            PROVE  Max({0, bill[r].actual - Estimate[r]}) = BeyondOf(bill[r], Estimate[r])
        <4>1. bill[r].actual \in Nat /\ Estimate[r] \in Nat
          BY <2>1, BillFacts, EstimateNat
        <4>2. PICK z \in Int : z = bill[r].actual - Estimate[r]
          BY <4>1
        <4>3. Max({0, z}) = AtLeastZero(z)
          BY MaxZero
        <4>4. QED BY <4>2, <4>3 DEF BeyondOf
      <3>2. QED BY <3>1 DEF BeyondEstimate, BeyondTable
    <2>4. SumFunctionOnSet(Reported, Request) = ReportedIn(bill)
      BY FiguresAre DEF ReportedIn
    <2>5. Spent + Held <= BudgetLimit + SumFunctionOnSet(BeyondEstimate, Request)
      BY <2>1, <2>3, FiguresAre DEF Sound, BeyondIn
    <2>6. QED BY <2>1, <2>2, <2>4, <2>5 DEF BudgetKept, Sound
  <1>2. QED BY <1>1, SpecMoney, PTL

-----------------------------------------------------------------------------
Clock == /\ cancelRequested \in [Request -> BOOLEAN] /\ deadline \in [Request -> Nat]
         /\ now \in Nat

LEMMA InitClock == Init => Clock
  BY DEF Init, Clock

LEMMA NextClock == IInv /\ Clock /\ [Next]_vars => Clock'
  <1> SUFFICES ASSUME IInv, Clock, [Next]_vars PROVE Clock'
    OBVIOUS
  <1>1. CASE UNCHANGED <<cancelRequested, deadline, now>>
    BY <1>1 DEF Clock
  <1>2. ASSUME NEW c \in Caller, NEW r \in Request, NEW i \in Input, AdmitNew(c, r, i)
        PROVE  Clock'
    <2>1. now + UsageTimeout \in Nat
      BY LimitsAssumption DEF Clock
    <2>2. /\ deadline' = [deadline EXCEPT ![r] = now + UsageTimeout]
          /\ UNCHANGED <<cancelRequested, now>>
      BY <1>2 DEF AdmitNew
    <2>3. QED BY <2>1, <2>2 DEF Clock
  <1>3. ASSUME NEW r \in Request, RequestCancellation(r) PROVE Clock'
    BY <1>3 DEF RequestCancellation, Clock
  <1>4. CASE Tick
    BY <1>4 DEF Tick, Clock, row
  <1>5. ASSUME NEW c \in Caller, Execute(c),
               ~ \E r \in Request, i \in Input : AdmitNew(c, r, i)
        PROVE  UNCHANGED <<cancelRequested, deadline, now>>
    BY <1>5, SettleStatus DEF Execute, AdmitAgain, ClaimExecution, Dispatch, RouteUnavailable,
       EndLoop, Call, RecordAttempt, FailUndispatched, FinishSettled, FinishPending, Abandon, row
  <1>6. ASSUME NEW w \in Poller, RefreshAsync(w)
        PROVE  UNCHANGED <<cancelRequested, deadline, now>>
    BY <1>6, SettleStatus DEF RefreshAsync, AskProvider, RecordPoll, SettlePoll, AbandonPoll, row
  <1>7. ASSUME NEW r \in Request,
               \/ ResolveTimeout(r)
               \/ \E k \in Correction, n \in 1..MaxUse : CorrectCustomerCharge(r, k, n)
        PROVE  UNCHANGED <<cancelRequested, deadline, now>>
    BY <1>7 DEF ResolveTimeout, CorrectCustomerCharge, row
  <1>8. QED BY <1>1, <1>2, <1>3, <1>4, <1>5, <1>6, <1>7 DEF Next, vars, row

(* Every row and every record in memory keeps its shape; balances, bills   *)
(* and corrections stay natural numbers.                                   *)
THEOREM Typing == Spec => []TypeOK
  <1>1. IInv /\ MInv /\ Clock => TypeOK
    BY DEF IInv, Rows, MInv, MoneyTyped, Clock, TypeOK, Status, Run, Poll
  <1>2. Spec => []Clock
    BY InitClock, NextClock, SpecInv, PTL DEF Spec
  <1>3. QED BY <1>1, <1>2, SpecInv, SpecMoney, PTL

-----------------------------------------------------------------------------
(* Usage implements MeteredCall.                                           *)
PhaseOf(s) == CASE s = "absent" -> "none"
                [] s \in Open -> "open"
                [] s = "completed" -> "charged"
                [] OTHER -> "free"
PhaseTable(s) == [r \in Request |-> PhaseOf(s[r])]

LEMMA PhasesAre ==
  /\ PhaseOf("absent") = "none" /\ PhaseOf("completed") = "charged"
  /\ PhaseOf("failed") = "free" /\ PhaseOf("free") = "free"
  /\ \A s \in Open : PhaseOf(s) = "open"
  BY DEF PhaseOf, Open

LEMMA PhaseChanged ==
  ASSUME NEW s \in [Request -> Status], NEW r \in Request, NEW q
  PROVE  PhaseTable([s EXCEPT ![r] = q]) = [PhaseTable(s) EXCEPT ![r] = PhaseOf(q)]
  <1>1. \A p \in Request : [s EXCEPT ![r] = q][p] = IF p = r THEN q ELSE s[p]
    OBVIOUS
  <1>2. QED BY <1>1 DEF PhaseTable

LEMMA PaidChanged ==
  ASSUME NEW B \in [Request -> Bill], NEW r \in Request, NEW C,
         C \in [Request -> Bill], \A q \in Request : q # r => C[q] = B[q]
  PROVE  PaidTable(C) = [PaidTable(B) EXCEPT ![r] = PaidOf(C[r])]
  BY DEF PaidTable

LEMMA PaidNat ==
  ASSUME NEW b \in Bill, NEW s, BillSound(b, s) PROVE PaidOf(b) \in Nat
  <1>1. /\ b.actual \in Nat /\ b.charged \in Nat /\ b.corrected \in Nat
        /\ b.corrected <= b.actual
        /\ b.returned = AtLeastZero(b.charged - (b.actual - b.corrected))
    BY BillFacts, 0 \in Nat DEF BillSound, OwedOf
  <1>2. QED BY <1>1 DEF PaidOf, AtLeastZero

(* The actions of the promise, on these tables.                            *)
LEMMA PromiseSteps ==
  ASSUME NEW r \in Request
  PROVE  /\ /\ PhaseTable(status)[r] = "none"
            /\ PhaseTable(status') = [PhaseTable(status) EXCEPT ![r] = "open"]
            /\ Paid' = Paid
            => Promise!Accept(r)
         /\ /\ PhaseTable(status)[r] = "open"
            /\ PhaseTable(status') = [PhaseTable(status) EXCEPT ![r] = "free"]
            /\ Paid' = Paid
            => Promise!Waive(r)
         /\ /\ PhaseTable(status)[r] = "open"
            /\ PhaseTable(status') = [PhaseTable(status) EXCEPT ![r] = "charged"]
            /\ Paid'[r] \in Nat /\ Paid' = [Paid EXCEPT ![r] = Paid'[r]]
            => Promise!Charge(r)
         /\ /\ PhaseTable(status)[r] = "charged"
            /\ PhaseTable(status') = PhaseTable(status)
            /\ Paid'[r] \in 0..Paid[r] /\ Paid' = [Paid EXCEPT ![r] = Paid'[r]]
            => Promise!Correct(r)
  BY DEF PhaseTable, PhaseOf, Promise!Accept, Promise!Waive, Promise!Charge, Promise!Correct

LEMMA PromiseInit == Init => Promise!Init
  <1> SUFFICES ASSUME Init PROVE Promise!Init
    OBVIOUS
  <1>1. \A r \in Request : Paid[r] = 0
    BY DEF Init, Paid
  <1>2. Paid = [r \in Request |-> 0]
    BY <1>1 DEF Paid
  <1>3. [r \in Request |-> CASE status[r] = "absent" -> "none"
                              [] status[r] \in Open -> "open"
                              [] status[r] = "completed" -> "charged"
                              [] OTHER -> "free"]
        = [r \in Request |-> "none"]
    <2>1. \A r \in Request : PhaseOf(status[r]) = "none"
      BY PhasesAre DEF Init
    <2>2. QED BY <2>1 DEF PhaseOf
  <1>4. QED BY <1>2, <1>3 DEF Promise!Init

LEMMA PromiseNext ==
  IInv /\ MInv /\ MInv' /\ [Next]_vars
  => [Promise!Next]_<<[r \in Request |->
        CASE status[r] = "absent" -> "none"
          [] status[r] \in Open -> "open"
          [] status[r] = "completed" -> "charged"
          [] OTHER -> "free"], Paid>>
  <1> SUFFICES ASSUME IInv, MInv, MInv', [Next]_vars,
                      ~ (PhaseTable(status') = PhaseTable(status) /\ Paid' = Paid)
               PROVE  Promise!Next
    BY DEF PhaseTable, PhaseOf
  <1>1. Kinds
    BY StepKinds
  <1>2. /\ status \in [Request -> Status] /\ bill \in [Request -> Bill]
        /\ bill' \in [Request -> Bill]
        /\ \A r \in Request : PaidOf(bill'[r]) \in Nat
    BY PaidNat DEF IInv, Rows, MInv, MoneyTyped, Sound
  <1>3. Paid = PaidTable(bill) /\ Paid' = PaidTable(bill')
    BY DEF Paid, PaidTable, PaidOf
  <1>4. CASE UNCHANGED <<status, bill, credits, correction>>
    BY <1>3, <1>4
  <1>5. ASSUME NEW c \in Caller, NEW r \in Request, NEW i \in Input, AdmitNew(c, r, i)
        PROVE  Promise!Next
    <2>1. /\ status[r] = "absent" /\ status' = [status EXCEPT ![r] = "accepted"]
          /\ UNCHANGED bill /\ "accepted" \in Open
      BY <1>5 DEF AdmitNew, money, Open
    <2>2. /\ PhaseTable(status)[r] = "none"
          /\ PhaseTable(status') = [PhaseTable(status) EXCEPT ![r] = "open"]
      BY <1>2, <2>1, PhaseChanged, PhasesAre DEF PhaseTable
    <2>3. Promise!Accept(r)
      BY <1>3, <2>1, <2>2, PromiseSteps
    <2>4. QED BY <2>3 DEF Promise!Next
  <1>6. ASSUME NEW r \in Request, Moves(r) PROVE Promise!Next
    <2>1. PICK q \in Open \cup {"failed", "free"} : status' = [status EXCEPT ![r] = q]
      BY <1>6 DEF Moves
    <2>2. status[r] \in Open /\ Paid' = Paid
      BY <1>3, <1>6 DEF Moves
    <2>3. /\ PhaseTable(status)[r] = "open"
          /\ PhaseTable(status') = [PhaseTable(status) EXCEPT ![r] = PhaseOf(q)]
      BY <1>2, <2>1, <2>2, PhaseChanged, PhasesAre DEF PhaseTable
    <2>4. CASE q \in Open
      <3>1. PhaseOf(q) = "open"
        BY <2>4, PhasesAre
      <3>2. PhaseTable(status') = PhaseTable(status)
        BY <2>3, <3>1 DEF PhaseTable
      <3>3. QED BY <2>2, <3>2
    <2>5. CASE q \in {"failed", "free"}
      <3>1. PhaseTable(status') = [PhaseTable(status) EXCEPT ![r] = "free"]
        BY <2>3, <2>5, PhasesAre
      <3>2. Promise!Waive(r)
        BY <2>2, <2>3, <3>1, PromiseSteps
      <3>3. QED BY <3>2 DEF Promise!Next
    <2>6. QED BY <2>1, <2>4, <2>5
  <1>7. ASSUME NEW r \in Request, NEW m \in Nat, Settle(r, m) PROVE Promise!Next
    <2>1. CASE ~Settleable(r)
      BY <1>3, <1>7, <2>1 DEF Settle, row, money
    <2>2. CASE Settleable(r) /\ now >= deadline[r]
      <3>1. /\ status[r] \in Open /\ status' = [status EXCEPT ![r] = "free"] /\ UNCHANGED bill
        BY <1>7, <2>2 DEF Settle, Settleable, IsOpen, End, money
      <3>2. /\ PhaseTable(status)[r] = "open"
            /\ PhaseTable(status') = [PhaseTable(status) EXCEPT ![r] = "free"]
        BY <1>2, <3>1, PhaseChanged, PhasesAre DEF PhaseTable
      <3>3. Promise!Waive(r)
        BY <1>3, <3>1, <3>2, PromiseSteps
      <3>4. QED BY <3>3 DEF Promise!Next
    <2>3. CASE Settleable(r) /\ ~(now >= deadline[r])
      <3>1. /\ status[r] \in Open /\ status' = [status EXCEPT ![r] = "completed"]
            /\ \A q \in Request : q # r => bill'[q] = bill[q]
        BY <1>2, <1>7, <2>3 DEF Settle, Settleable, IsOpen, End
      <3>2. /\ PhaseTable(status)[r] = "open"
            /\ PhaseTable(status') = [PhaseTable(status) EXCEPT ![r] = "charged"]
        BY <1>2, <3>1, PhaseChanged, PhasesAre DEF PhaseTable
      <3>3. Paid'[r] \in Nat /\ Paid' = [Paid EXCEPT ![r] = Paid'[r]]
        <4>1. Paid'[r] = PaidOf(bill'[r])
          BY <1>3 DEF PaidTable
        <4>2. QED BY <1>2, <1>3, <3>1, <4>1, PaidChanged
      <3>4. Promise!Charge(r)
        BY <3>2, <3>3, PromiseSteps
      <3>5. QED BY <3>4 DEF Promise!Next
    <2>4. QED BY <2>1, <2>2, <2>3
  <1>8. ASSUME NEW r \in Request, NEW k \in Correction, NEW n \in 1..MaxUse,
               CorrectCustomerCharge(r, k, n)
        PROVE  Promise!Next
    <2>1. /\ status[r] = "completed" /\ UNCHANGED status
          /\ \A q \in Request : q # r => bill'[q] = bill[q]
      BY <1>2, <1>8 DEF CorrectCustomerCharge, row
    <2>2. /\ PhaseTable(status)[r] = "charged" /\ PhaseTable(status') = PhaseTable(status)
      BY <2>1, PhasesAre DEF PhaseTable
    <2>3. Paid' = [Paid EXCEPT ![r] = Paid'[r]] /\ Paid'[r] = PaidOf(bill'[r])
      <3>1. Paid'[r] = PaidOf(bill'[r])
        BY <1>3 DEF PaidTable
      <3>2. QED BY <1>2, <1>3, <2>1, <3>1, PaidChanged
    <2>4. Paid'[r] \in 0..Paid[r]
      <3>1. /\ bill'[r].returned >= bill[r].returned /\ bill'[r].charged = bill[r].charged
        BY <1>8, CorrectMoney
      <3>2. Paid[r] = bill[r].charged - bill[r].returned
        BY DEF Paid
      <3>3. Paid'[r] = bill[r].charged - bill'[r].returned /\ Paid'[r] \in Nat
        BY <1>2, <2>3, <3>1 DEF PaidOf
      <3>4. /\ bill[r].charged \in Nat /\ bill[r].returned \in Nat /\ bill'[r].returned \in Nat
        BY <1>2, BillFacts, 0 \in Nat
      <3>5. QED BY <3>1, <3>2, <3>3, <3>4
    <2>5. Promise!Correct(r)
      BY <2>2, <2>3, <2>4, PromiseSteps
    <2>6. QED BY <2>5 DEF Promise!Next
  <1>9. QED BY <1>1, <1>4, <1>5, <1>6, <1>7, <1>8 DEF Kinds

(* Whoever executes, polls, settles or frees a request, and whatever       *)
(* corrections follow, it is charged at most once or ends free, and only   *)
(* corrections change the bill, downwards: Usage implements MeteredCall.   *)
THEOREM PromiseIsKept == Spec => KeepsPromise
  BY PromiseInit, PromiseNext, SpecInv, SpecMoney, PTL DEF Spec, KeepsPromise, Promise!Spec
=============================================================================
