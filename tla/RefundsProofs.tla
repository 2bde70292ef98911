---------------------------- MODULE RefundsProofs ---------------------------
(***************************************************************************)
(* Every refund, whatever the number of receipts, routes, transfers and    *)
(* queries, implements Debt, a debt that was paid is over, and the books   *)
(* of every refund and of every receipt agree.  The first part looks at    *)
(* one refund at a time, and at the payments that are booked for two; the  *)
(* last one at the sums over a receipt's refunds and disputes.             *)
(***************************************************************************)
EXTENDS Refunds, SumTheorems

Capacity ==
  [state : {"none", "reserved", "completed", "released"}, completed : Nat]

(* The case and its leg move together.                                     *)
Stage(l) ==
  \/ l.case = "none" /\ l.state = "none"
  \/ l.case = "pending_review" /\ l.state = "reserved"
  \/ l.case = "approved" /\ l.state = "approved"
  \/ l.case = "paying" /\ l.state \in {"approved", "executing", "unknown"}
  \/ l.case = "exception" /\ l.state = "exception"
  \/ l.case = "completed" /\ l.state = "completed"
  \/ l.case \in {"rejected", "cancelled"} /\ l.state = "cancelled"

(* Nothing is paid before the first instruction or after a withdrawal.     *)
NotInstructed(l) ==
  l.case \in {"none", "pending_review", "approved", "rejected", "cancelled"}

(* The leg of debt a and the capacity c of its receipt say the same.       *)
Books(l, c, a) ==
  /\ l.settled = c.completed /\ l.settled <= a
  /\ c.state = "reserved" => l.hold = a - l.settled
  /\ c.state /= "reserved" => l.hold = 0
  /\ c.state = "completed" <=> l.settled = a
  /\ c.state = "none" <=> l.case = "none"
  /\ c.state = "released" <=> l.state = "cancelled"

PaidHasEnded(l, a) ==
  l.settled = a =>
    \/ l.state = "completed" /\ l.case = "completed"
    \/ l.state = "exception" /\ l.case = "exception" /\ l.misdirected > 0

Sound(l, c, a) ==
  /\ Stage(l) /\ Books(l, c, a) /\ PaidHasEnded(l, a)
  /\ NotInstructed(l) => l.version = 1 /\ l.settled = 0

LegsSound ==
  /\ leg \in [Refund -> Leg] /\ capacity \in [Refund -> Capacity]
  /\ \A r \in Refund : Sound(leg[r], capacity[r], Amount[r])

(* A payment is counted for one refund.                                    *)
CountedOnce ==
  /\ booked \in [Refund -> SUBSET (Transfer \cup Refund)]
  /\ \A r, s \in Refund : r /= s => booked[r] \cap booked[s] = {}

(* A stored or received success is the provider's payment.                 *)
RealFact(rw, cl, rem, actual) ==
  /\ rem.state = "paid" => rem.value \in actual
  /\ rw.fact => rem.state = "paid"
  /\ \A c \in Caller : cl[c] = "succeeded" => rem.state = "paid"
  /\ rw.state = "none" =>
       rem.state = "none" /\ ~rw.fact /\ \A c \in Caller : cl[c] = "idle"

Calls == [Caller -> {"idle", "read", "asking"} \cup Answer]
Remote == [state : {"none", "sent", "accepted", "refused", "paid"}, value : Nat]
FactsAreReal ==
  /\ row \in [Refund -> Row] /\ call \in [Refund -> Calls]
  /\ remote \in [Refund -> Remote]
  /\ \A r \in Refund : RealFact(row[r], call[r], remote[r], Actual[r])

IInv == LegsSound /\ CountedOnce /\ FactsAreReal

LEMMA AmountIsPositive == ASSUME NEW r \in Refund PROVE Amount[r] \in Nat \ {0}
  BY AmountsAssumption

LEMMA InitInv == Init => IInv
  <1> SUFFICES ASSUME Init PROVE IInv
    OBVIOUS
  <1>1. LegsSound
    <2>1. [case |-> "none", state |-> "none", mode |-> "", version |-> 1, hold |-> 0,
           settled |-> 0, excess |-> 0, misdirected |-> 0] \in Leg
      BY DEF Leg, Version
    <2>2. leg \in [Refund -> Leg]
      BY <2>1 DEF Init
    <2>3. capacity \in [Refund -> Capacity]
      BY DEF Init, Capacity
    <2>4. ASSUME NEW r \in Refund PROVE Sound(leg[r], capacity[r], Amount[r])
      <3>1. /\ leg[r].case = "none" /\ leg[r].state = "none" /\ leg[r].version = 1
            /\ leg[r].hold = 0 /\ leg[r].settled = 0
            /\ capacity[r].state = "none" /\ capacity[r].completed = 0
        BY DEF Init
      <3>2. QED BY <3>1, AmountIsPositive DEF Sound, Stage, Books, PaidHasEnded
    <2>5. QED BY <2>2, <2>3, <2>4 DEF LegsSound
  <1>2. CountedOnce
    BY DEF Init, CountedOnce
  <1>3. FactsAreReal
    <2>1. row \in [Refund -> Row] /\ call \in [Refund -> Calls] /\ remote \in [Refund -> Remote]
      BY DEF Init, Row, Calls, Answer, Remote
    <2>2. ASSUME NEW r \in Refund PROVE RealFact(row[r], call[r], remote[r], Actual[r])
      BY DEF Init, RealFact
    <2>3. QED BY <2>1, <2>2 DEF FactsAreReal
  <1>4. QED BY <1>1, <1>2, <1>3 DEF IInv

-----------------------------------------------------------------------------
(* A step changes one refund.                                              *)
LEMMA LegStep ==
  ASSUME LegsSound, NEW r \in Refund, NEW l \in Leg, NEW c \in Capacity,
         leg' = [leg EXCEPT ![r] = l], capacity' = [capacity EXCEPT ![r] = c],
         Sound(l, c, Amount[r])
  PROVE  LegsSound'
  BY DEF LegsSound

LEMMA LegOnly ==
  ASSUME LegsSound, NEW r \in Refund, NEW l \in Leg,
         leg' = [leg EXCEPT ![r] = l], UNCHANGED capacity,
         Sound(l, capacity[r], Amount[r])
  PROVE  LegsSound'
  BY DEF LegsSound

LEMMA LegOf ==
  ASSUME LegsSound, NEW r \in Refund
  PROVE  /\ leg[r] \in Leg /\ capacity[r] \in Capacity
         /\ Sound(leg[r], capacity[r], Amount[r])
  BY DEF LegsSound

LEMMA FactsUnchanged ==
  ASSUME FactsAreReal, UNCHANGED callVars PROVE FactsAreReal'
  BY DEF FactsAreReal, callVars
LEMMA BookedUnchanged == ASSUME CountedOnce, UNCHANGED booked PROVE CountedOnce'
  BY DEF CountedOnce

LEMMA Numbers ==
  ASSUME NEW l \in Leg, NEW c \in Capacity
  PROVE  /\ l.settled \in Nat /\ l.hold \in Nat /\ l.excess \in Nat
         /\ l.misdirected \in Nat /\ l.version \in Nat \ {0} /\ c.completed \in Nat
  BY DEF Leg, Version, Capacity

(* What the actions make of a leg and its capacity, on records.            *)
LEMMA Requested ==
  ASSUME NEW l \in Leg, NEW c \in Capacity, NEW a \in Nat \ {0}, Sound(l, c, a),
         l.case = "none",
         NEW m, m = [l EXCEPT !.case = "pending_review", !.state = "reserved", !.hold = a],
         NEW d, d = [c EXCEPT !.state = "reserved"]
  PROVE  m \in Leg /\ d \in Capacity /\ Sound(m, d, a)
  <1>1. /\ m \in Leg /\ m.case = "pending_review" /\ m.state = "reserved" /\ m.hold = a
        /\ m.settled = l.settled /\ m.version = l.version
        /\ d \in Capacity /\ d.state = "reserved" /\ d.completed = c.completed
    BY DEF Leg, Capacity
  <1>2. l.settled = 0 /\ l.version = 1 /\ c.completed = 0
    BY DEF Sound, Books, NotInstructed
  <1>3. QED BY <1>1, <1>2 DEF Sound, Stage, Books, PaidHasEnded

LEMMA Approved ==
  ASSUME NEW l \in Leg, NEW c \in Capacity, NEW a \in Nat \ {0}, Sound(l, c, a),
         l.case = "pending_review",
         NEW m, m = [l EXCEPT !.case = "approved", !.state = "approved"]
  PROVE  m \in Leg /\ Sound(m, c, a)
  <1>1. /\ m \in Leg /\ m.case = "approved" /\ m.state = "approved" /\ m.hold = l.hold
        /\ m.settled = l.settled /\ m.version = l.version
    BY DEF Leg
  <1>2. QED BY <1>1, Numbers DEF Sound, Stage, Books, PaidHasEnded, NotInstructed

LEMMA Withdrawn ==
  ASSUME NEW l \in Leg, NEW c \in Capacity, NEW a \in Nat \ {0}, Sound(l, c, a),
         l.case \in {"pending_review", "approved"},
         NEW case \in {"rejected", "cancelled"},
         NEW m, m = [l EXCEPT !.case = case, !.state = "cancelled", !.hold = 0],
         NEW d, d = [c EXCEPT !.state = "released"]
  PROVE  m \in Leg /\ d \in Capacity /\ Sound(m, d, a)
  <1>1. /\ m \in Leg /\ m.case = case /\ m.state = "cancelled" /\ m.hold = 0
        /\ m.settled = l.settled /\ m.version = l.version
        /\ d \in Capacity /\ d.state = "released" /\ d.completed = c.completed
    BY DEF Leg, Capacity
  <1>2. l.settled = 0 /\ l.version = 1 /\ c.completed = 0
    BY DEF Sound, Books, NotInstructed
  <1>3. QED BY <1>1, <1>2 DEF Sound, Stage, Books, PaidHasEnded

(* An instruction is given, reported on or closed: nothing is booked, and  *)
(* the debt was not paid before.                                           *)
LEMMA Instructed ==
  ASSUME NEW l \in Leg, NEW c \in Capacity, NEW a \in Nat \ {0}, Sound(l, c, a),
         l.state \in {"approved", "executing", "unknown", "exception"}, l.settled < a,
         NEW m \in Leg, m.settled = l.settled, m.hold = l.hold,
         \/ m.case = "paying" /\ m.state \in {"approved", "executing", "unknown"}
         \/ m.case = "exception" /\ m.state = "exception"
  PROVE  Sound(m, c, a)
  BY Numbers DEF Sound, Stage, Books, PaidHasEnded, NotInstructed

LEMMA BegunFields ==
  ASSUME NEW r \in Refund, NEW mode \in {"manual", "provider"}, leg[r] \in Leg
  PROVE  LET m == Begun(r, mode) IN
         /\ m \in Leg /\ m.case = "paying" /\ m.state = "executing" /\ m.hold = leg[r].hold
         /\ m.settled = leg[r].settled /\ m.excess = leg[r].excess
         /\ m.misdirected = leg[r].misdirected /\ m.version = leg[r].version
  BY DEF Begun, Leg

-----------------------------------------------------------------------------
LEMMA RequestInv == ASSUME IInv, NEW r \in Refund, RequestRefund(r) PROVE IInv'
  <1> DEFINE m == [leg[r] EXCEPT !.case = "pending_review", !.state = "reserved",
                                 !.hold = Amount[r]]
             d == [capacity[r] EXCEPT !.state = "reserved"]
  <1>1. leg' = [leg EXCEPT ![r] = m] /\ capacity' = [capacity EXCEPT ![r] = d]
    BY DEF RequestRefund
  <1>2. m \in Leg /\ d \in Capacity /\ Sound(m, d, Amount[r])
    BY LegOf, Requested, AmountIsPositive DEF IInv, RequestRefund
  <1>3. LegsSound'
    BY <1>1, <1>2, LegStep DEF IInv
  <1>4. QED BY <1>3, FactsUnchanged, BookedUnchanged DEF IInv, RequestRefund

LEMMA ApproveInv == ASSUME IInv, NEW r \in Refund, ApproveRefund(r) PROVE IInv'
  <1> DEFINE m == [leg[r] EXCEPT !.case = "approved", !.state = "approved"]
  <1>1. leg' = [leg EXCEPT ![r] = m] /\ UNCHANGED capacity
    BY DEF ApproveRefund
  <1>2. m \in Leg /\ Sound(m, capacity[r], Amount[r])
    BY LegOf, Approved, AmountIsPositive DEF IInv, ApproveRefund
  <1>3. LegsSound'
    BY <1>1, <1>2, LegOnly DEF IInv
  <1>4. QED BY <1>3, FactsUnchanged, BookedUnchanged DEF IInv, ApproveRefund

LEMMA CancelInv ==
  ASSUME IInv, NEW r \in Refund, NEW state \in {"rejected", "cancelled"},
         CancelRefund(r, state)
  PROVE  IInv'
  <1> DEFINE m == [leg[r] EXCEPT !.case = state, !.state = "cancelled", !.hold = 0]
             d == [capacity[r] EXCEPT !.state = "released"]
  <1>1. leg' = [leg EXCEPT ![r] = m] /\ capacity' = [capacity EXCEPT ![r] = d]
    BY DEF CancelRefund
  <1>2. m \in Leg /\ d \in Capacity /\ Sound(m, d, Amount[r])
    BY LegOf, Withdrawn, AmountIsPositive DEF IInv, CancelRefund, Cancellable
  <1>3. LegsSound'
    BY <1>1, <1>2, LegStep DEF IInv
  <1>4. QED BY <1>3, FactsUnchanged, BookedUnchanged DEF IInv, CancelRefund

LEMMA BegunSound ==
  ASSUME IInv, NEW r \in Refund, NEW mode \in {"manual", "provider"},
         leg[r].state = "approved", capacity[r].state = "reserved"
  PROVE  /\ Begun(r, mode) \in Leg /\ Sound(Begun(r, mode), capacity[r], Amount[r])
         /\ leg[r].settled < Amount[r] /\ ~NotInstructed(Begun(r, mode))
  <1>1. /\ leg[r] \in Leg /\ capacity[r] \in Capacity
        /\ Sound(leg[r], capacity[r], Amount[r])
    BY LegOf DEF IInv
  <1>2. leg[r].settled < Amount[r]
    BY <1>1, Numbers, AmountIsPositive DEF Sound, Books
  <1>3. Begun(r, mode) \in Leg /\ Sound(Begun(r, mode), capacity[r], Amount[r])
    BY <1>1, <1>2, BegunFields, Instructed, AmountIsPositive
  <1>4. ~NotInstructed(Begun(r, mode))
    BY <1>1, BegunFields DEF NotInstructed
  <1>5. QED BY <1>2, <1>3, <1>4

LEMMA BeginInv == ASSUME IInv, NEW r \in Refund, BeginManualRefund(r) PROVE IInv'
  <1>1. leg[r].state = "approved" /\ capacity[r].state = "reserved"
    BY DEF BeginManualRefund, MayBegin, Executable
  <1>2. leg' = [leg EXCEPT ![r] = Begun(r, "manual")] /\ UNCHANGED capacity
    BY DEF BeginManualRefund
  <1>3. LegsSound'
    BY <1>1, <1>2, BegunSound, LegOnly DEF IInv
  <1>4. QED BY <1>3, FactsUnchanged, BookedUnchanged DEF IInv, BeginManualRefund

LEMMA UnknownInv == ASSUME IInv, NEW r \in Refund, MarkRefundUnknown(r) PROVE IInv'
  <1> DEFINE m == [leg[r] EXCEPT !.state = "unknown"]
  <1>1. leg' = [leg EXCEPT ![r] = m] /\ UNCHANGED capacity /\ leg[r].state = "executing"
    BY DEF MarkRefundUnknown
  <1>2. /\ leg[r] \in Leg /\ capacity[r] \in Capacity
        /\ Sound(leg[r], capacity[r], Amount[r])
    BY LegOf DEF IInv
  <1>3. /\ m \in Leg /\ m.case = leg[r].case /\ m.state = "unknown"
        /\ m.settled = leg[r].settled /\ m.hold = leg[r].hold
    BY <1>2 DEF Leg
  <1>4. leg[r].case = "paying" /\ leg[r].settled < Amount[r]
    BY <1>1, <1>2, Numbers, AmountIsPositive DEF Sound, Stage, Books, PaidHasEnded
  <1>5. Sound(m, capacity[r], Amount[r])
    BY <1>1, <1>2, <1>3, <1>4, Instructed, AmountIsPositive
  <1>6. LegsSound'
    BY <1>1, <1>3, <1>5, LegOnly DEF IInv
  <1>7. QED BY <1>6, FactsUnchanged, BookedUnchanged DEF IInv, MarkRefundUnknown

LEMMA FailureInv == ASSUME IInv, NEW r \in Refund, RecordManualRefundFailure(r) PROVE IInv'
  <1> DEFINE m == [leg[r] EXCEPT !.case = "exception", !.state = "exception"]
  <1>1. /\ leg' = [leg EXCEPT ![r] = m] /\ UNCHANGED capacity
        /\ leg[r].state \in {"executing", "unknown", "exception"}
        /\ leg[r].settled < Amount[r]
    BY DEF RecordManualRefundFailure, Owed
  <1>2. /\ leg[r] \in Leg /\ capacity[r] \in Capacity
        /\ Sound(leg[r], capacity[r], Amount[r])
    BY LegOf DEF IInv
  <1>3. /\ m \in Leg /\ m.case = "exception" /\ m.state = "exception"
        /\ m.settled = leg[r].settled /\ m.hold = leg[r].hold
    BY <1>2 DEF Leg
  <1>4. Sound(m, capacity[r], Amount[r])
    BY <1>1, <1>2, <1>3, Instructed, AmountIsPositive
  <1>5. LegsSound'
    BY <1>1, <1>3, <1>4, LegOnly DEF IInv
  <1>6. QED BY <1>5, FactsUnchanged, BookedUnchanged DEF IInv, RecordManualRefundFailure

LEMMA NextVersion ==
  ASSUME NEW l \in Leg, NEW n \in Version
  PROVE  LET m == [l EXCEPT !.case = "paying", !.state = "approved", !.mode = "",
                            !.version = n]
         IN
         /\ m \in Leg /\ m.case = "paying" /\ m.state = "approved"
         /\ m.settled = l.settled /\ m.hold = l.hold
         /\ m.excess = l.excess /\ m.misdirected = l.misdirected
  BY DEF Leg

LEMMA CloseInv == ASSUME IInv, NEW r \in Refund, CloseRefundExecution(r) PROVE IInv'
  <1> DEFINE m == [leg[r] EXCEPT !.case = "paying", !.state = "approved", !.mode = "",
                                 !.version = leg[r].version + 1]
  <1>1. /\ UNCHANGED capacity /\ leg[r].state \in {"executing", "exception"}
        /\ leg[r].settled < Amount[r]
    BY DEF CloseRefundExecution, Owed
  <1>0. leg' = [leg EXCEPT ![r] = m]
    BY DEF CloseRefundExecution
  <1>2. /\ leg[r] \in Leg /\ capacity[r] \in Capacity
        /\ Sound(leg[r], capacity[r], Amount[r])
    BY LegOf DEF IInv
  <1>3. /\ m \in Leg /\ m.case = "paying" /\ m.state = "approved"
        /\ m.settled = leg[r].settled /\ m.hold = leg[r].hold
    <2>1. leg[r].version + 1 \in Version
      BY <1>2, Numbers DEF Version
    <2>2. QED BY <1>2, <2>1, NextVersion, Zenon
  <1>4. Sound(m, capacity[r], Amount[r])
    BY <1>1, <1>2, <1>3, Instructed, AmountIsPositive
  <1>5. LegsSound'
    BY <1>0, <1>1, <1>3, <1>4, LegOnly DEF IInv
  <1>6. FactsAreReal'
    <2> DEFINE w == [row[r] EXCEPT !.sealed = @ \/ row[r].state /= "none"]
    <2>1. row' = [row EXCEPT ![r] = w] /\ UNCHANGED <<call, remote>>
      BY DEF CloseRefundExecution
    <2>2. w \in Row /\ w.state = row[r].state /\ w.fact = row[r].fact
      BY DEF IInv, FactsAreReal, Row
    <2>3. RealFact(w, call[r], remote[r], Actual[r])
      BY <2>2 DEF IInv, FactsAreReal, RealFact
    <2>4. QED BY <2>1, <2>2, <2>3 DEF IInv, FactsAreReal
  <1>7. QED BY <1>5, <1>6, BookedUnchanged DEF IInv, CloseRefundExecution

-----------------------------------------------------------------------------
(* Payments.  They reach the debt as far as it goes.                       *)
LEMMA Sums == \A a, n, q \in Nat : a - n - q = 0 <=> n + q = a
  OBVIOUS

LEMMA SettledLeg ==
  ASSUME NEW l \in Leg, NEW n \in Nat, NEW x \in Nat, NEW h \in Nat,
         NEW e \in {"exception", "completed"}
  PROVE  [l EXCEPT !.settled = n, !.excess = x, !.hold = h, !.state = e, !.case = e] \in Leg
  BY DEF Leg

Part(c, a, v) == Least(v, a - c.completed)
Open(c, a, v) == a - c.completed - Part(c, a, v)
AfterPayment(l, c, a, v) ==
  [l EXCEPT !.settled = l.settled + Part(c, a, v),
            !.excess = l.excess + v - Part(c, a, v),
            !.hold = IF Part(c, a, v) > 0 THEN Open(c, a, v) ELSE l.hold,
            !.state = IF Open(c, a, v) > 0 THEN "exception" ELSE "completed",
            !.case = IF Open(c, a, v) > 0 THEN "exception" ELSE "completed"]
Reduced(c, a, v) ==
  [state |-> IF Open(c, a, v) = 0 THEN "completed" ELSE c.state,
   completed |-> c.completed + Part(c, a, v)]

LEMMA SettledFacts ==
  ASSUME NEW l \in Leg, NEW c \in Capacity, NEW a \in Nat \ {0}, Sound(l, c, a),
         ~NotInstructed(l), NEW v \in Nat \ {0}
  PROVE  LET m == AfterPayment(l, c, a, v)
             d == Reduced(c, a, v)
             p == Part(c, a, v)
         IN  /\ m \in Leg /\ d \in Capacity /\ Sound(m, d, a)
             /\ m.settled = l.settled + p /\ m.case \in {"exception", "completed"}
             /\ m.excess + m.misdirected = l.excess + l.misdirected + v - p
  <1> DEFINE m == AfterPayment(l, c, a, v)
             d == Reduced(c, a, v)
             p == Part(c, a, v)
             open == Open(c, a, v)
  <1>1. l.settled = c.completed /\ l.settled <= a
    BY DEF Sound, Books
  <1>2. p \in Nat /\ open \in Nat /\ p <= v /\ open = a - l.settled - p /\ v - p \in Nat
    BY <1>1, Numbers DEF Least, Part, Open
  <1>3. /\ m.settled = l.settled + p /\ m.excess = l.excess + v - p
        /\ m.hold = (IF p > 0 THEN open ELSE l.hold) /\ m.misdirected = l.misdirected
        /\ m.state = (IF open > 0 THEN "exception" ELSE "completed")
        /\ m.case = (IF open > 0 THEN "exception" ELSE "completed")
        /\ d.completed = c.completed + p
        /\ d.state = (IF open = 0 THEN "completed" ELSE c.state)
    BY DEF Leg, AfterPayment, Reduced
  <1>4. m \in Leg
    <2> DEFINE end == IF open > 0 THEN "exception" ELSE "completed"
               held == IF p > 0 THEN open ELSE l.hold
    <2>1. /\ l.settled + p \in Nat /\ l.excess + v - p \in Nat /\ held \in Nat
          /\ end \in {"exception", "completed"}
      BY <1>2, Numbers
    <2>2. m = [l EXCEPT !.settled = l.settled + p, !.excess = l.excess + v - p,
                        !.hold = held, !.state = end, !.case = end]
      BY DEF AfterPayment
    <2> HIDE DEF end, held
    <2>3. [l EXCEPT !.settled = l.settled + p, !.excess = l.excess + v - p,
                    !.hold = held, !.state = end, !.case = end] \in Leg
      BY <2>1, SettledLeg, Zenon
    <2>4. QED BY <2>2, <2>3, Zenon
  <1>5. d \in Capacity
    BY <1>2, Numbers DEF Capacity, Reduced
  <1>6. p = 0 <=> l.settled = a
    BY <1>1, <1>2, Numbers DEF Least, Part
  <1> HIDE DEF m, d, p, open
  <1>7. c.state \notin {"none", "released"}
    BY DEF Sound, Stage, Books, NotInstructed
  <1>8. c.state \in {"reserved", "completed"}
    BY <1>7 DEF Capacity
  <1>9. Books(m, d, a)
    <2>1. m.settled = d.completed /\ m.settled <= a
      BY <1>1, <1>2, <1>3, Numbers
    <2>2. open = 0 <=> m.settled = a
      <3>1. a \in Nat /\ l.settled \in Nat /\ p \in Nat
        BY <1>2, Numbers
      <3>2. a - l.settled - p = 0 <=> l.settled + p = a
        BY <3>1, Sums, Zenon
      <3>3. open = a - l.settled - p /\ m.settled = l.settled + p
        BY <1>2, <1>3
      <3>4. QED BY <3>2, <3>3, Zenon
    <2>3. CASE open = 0
      BY <1>2, <1>3, <1>6, <1>8, <2>1, <2>2, <2>3, Numbers DEF Books, Sound
    <2>4. CASE open > 0
      BY <1>2, <1>3, <1>6, <1>8, <2>1, <2>2, <2>4, Numbers DEF Books, Sound
    <2>5. QED BY <1>2, <2>3, <2>4
  <1>10. Stage(m) /\ ~NotInstructed(m)
    BY <1>3 DEF Stage, NotInstructed
  <1>11. PaidHasEnded(m, a)
    BY <1>2, <1>3, Numbers DEF PaidHasEnded
  <1>12. m.excess + m.misdirected = l.excess + l.misdirected + v - p
    <2>1. /\ l.excess \in Nat /\ l.misdirected \in Nat /\ v \in Nat /\ p \in Nat
      BY <1>2, Numbers
    <2>2. (l.excess + v - p) + l.misdirected = l.excess + l.misdirected + v - p
      BY <2>1
    <2>3. m.excess = l.excess + v - p /\ m.misdirected = l.misdirected
      BY <1>3
    <2>4. QED BY <2>2, <2>3, Zenon
  <1>13. QED BY <1>3, <1>4, <1>5, <1>9, <1>10, <1>11, <1>12 DEF Sound, m, d, p

(* What booking payment e of value v does to a refund whose leg was l.     *)
LEMMA SettleInv ==
  ASSUME LegsSound, CountedOnce, NEW r \in Refund, NEW l \in Leg,
         Sound(l, capacity[r], Amount[r]), ~NotInstructed(l),
         NEW e \in Transfer \cup Refund, NotBooked(e), NEW v \in Nat \ {0},
         Settle(r, l, e, v)
  PROVE  /\ LegsSound' /\ CountedOnce'
         /\ booked' = [booked EXCEPT ![r] = @ \cup {e}]
         /\ \E p \in {0, Least(v, Amount[r] - l.settled)}, m \in Leg :
              /\ leg' = [leg EXCEPT ![r] = m] /\ m.case \in {"exception", "completed"}
              /\ m.settled = l.settled + p
              /\ m.excess + m.misdirected = l.excess + l.misdirected + v - p
  <1> DEFINE c == capacity[r]
             m == AfterPayment(l, c, Amount[r], v)
             d == Reduced(c, Amount[r], v)
             p == Part(c, Amount[r], v)
  <1>1. /\ leg' = [leg EXCEPT ![r] = m] /\ capacity' = [capacity EXCEPT ![r] = d]
        /\ booked' = [booked EXCEPT ![r] = @ \cup {e}]
    BY DEF Settle, SettledBy, AfterPayment, Reduced, Part, Open
  <1>2. l.settled = c.completed /\ p = Least(v, Amount[r] - l.settled)
    BY DEF Sound, Books, Part
  <1>3. /\ m \in Leg /\ d \in Capacity /\ Sound(m, d, Amount[r])
        /\ m.settled = l.settled + p /\ m.case \in {"exception", "completed"}
        /\ m.excess + m.misdirected = l.excess + l.misdirected + v - p
    BY LegOf, AmountIsPositive, SettledFacts
  <1> HIDE DEF m, d, p
  <1>4. LegsSound'
    BY <1>1, <1>3, LegStep
  <1>5. CountedOnce'
    BY <1>1 DEF CountedOnce, NotBooked
  <1>6. p \in {0, Least(v, Amount[r] - l.settled)}
    BY <1>2
  <1>7. QED BY <1>1, <1>3, <1>4, <1>5, <1>6

LEMMA TransferValue == ASSUME NEW t \in Transfer PROVE Value[t] \in Nat \ {0}
  BY AmountsAssumption

(* A leg in a state that payments may be booked for was instructed.        *)
LEMMA BookableFacts ==
  ASSUME NEW l \in Leg, NEW c, NEW a, Sound(l, c, a), NEW verified \in BOOLEAN,
         Bookable(l, verified)
  PROVE  ~NotInstructed(l)
  BY DEF Bookable, Sound, Stage, NotInstructed

LEMMA ManualInv ==
  ASSUME IInv, NEW r \in Refund, NEW t \in Transfer,
         RecordManualRefund(r, t) \/ RecordClosedRefund(r, t)
  PROVE  /\ IInv' /\ NotBooked(t)
         /\ \E l \in Leg :
              /\ l.settled = leg[r].settled /\ l.excess = leg[r].excess
              /\ l.misdirected = leg[r].misdirected /\ ~NotInstructed(l)
              /\ l.hold = leg[r].hold
              /\ Sound(l, capacity[r], Amount[r]) /\ Settle(r, l, t, Value[t])
              /\ leg[r].case \notin {"none", "rejected", "cancelled"}
  <1>1. NotBooked(t) /\ UNCHANGED callVars
    BY DEF RecordManualRefund, RecordClosedRefund
  <1>2. /\ leg[r] \in Leg /\ capacity[r] \in Capacity
        /\ Sound(leg[r], capacity[r], Amount[r])
    BY LegOf DEF IInv
  <1>3. PICK l \in Leg :
          /\ l.settled = leg[r].settled /\ l.excess = leg[r].excess
          /\ l.misdirected = leg[r].misdirected /\ ~NotInstructed(l)
          /\ l.hold = leg[r].hold
          /\ Sound(l, capacity[r], Amount[r]) /\ Settle(r, l, t, Value[t])
          /\ leg[r].case \notin {"none", "rejected", "cancelled"}
    <2>1. ASSUME NEW verified \in BOOLEAN, Bookable(leg[r], verified),
                 Settle(r, leg[r], t, Value[t])
          PROVE  /\ ~NotInstructed(leg[r]) /\ Settle(r, leg[r], t, Value[t])
                 /\ leg[r].case \notin {"none", "rejected", "cancelled"}
      BY <1>2, <2>1, BookableFacts DEF NotInstructed
    <2>2. ASSUME MayBegin(r), Settle(r, Begun(r, "manual"), t, Value[t])
          PROVE  LET l == Begun(r, "manual") IN
                 /\ l \in Leg /\ l.settled = leg[r].settled /\ l.excess = leg[r].excess
                 /\ l.misdirected = leg[r].misdirected /\ ~NotInstructed(l)
                 /\ l.hold = leg[r].hold
                 /\ Sound(l, capacity[r], Amount[r]) /\ Settle(r, l, t, Value[t])
                 /\ leg[r].case \notin {"none", "rejected", "cancelled"}
      <3>1. leg[r].state = "approved" /\ capacity[r].state = "reserved"
            /\ leg[r].case \notin {"none", "rejected", "cancelled"}
        BY <2>2 DEF MayBegin, Executable
      <3>2. QED BY <1>2, <2>2, <3>1, BegunSound, BegunFields
    <2>3. \/ \E verified \in BOOLEAN : Bookable(leg[r], verified)
                                        /\ Settle(r, leg[r], t, Value[t])
          \/ MayBegin(r) /\ Settle(r, Begun(r, "manual"), t, Value[t])
      BY DEF RecordManualRefund, RecordClosedRefund
    <2>4. QED BY <1>2, <2>1, <2>2, <2>3
  <1>4. LegsSound' /\ CountedOnce'
    BY <1>1, <1>3, TransferValue, SettleInv DEF IInv
  <1>5. IInv'
    BY <1>1, <1>4, FactsUnchanged DEF IInv
  <1>6. QED BY <1>1, <1>3, <1>5

(* A payment that went astray turns the leg into an exception.             *)
LEMMA MisdirectInv ==
  ASSUME LegsSound, CountedOnce, NEW r \in Refund, ~NotInstructed(leg[r]),
         NEW e \in Transfer \cup Refund, NotBooked(e), NEW v \in Nat \ {0},
         Misdirect(r, e, v)
  PROVE  /\ LegsSound' /\ CountedOnce'
         /\ booked' = [booked EXCEPT ![r] = @ \cup {e}]
         /\ \E m \in Leg :
              /\ leg' = [leg EXCEPT ![r] = m] /\ m.case = "exception"
              /\ m.settled = leg[r].settled
              /\ m.excess + m.misdirected = leg[r].excess + leg[r].misdirected + v
  <1> DEFINE m == [leg[r] EXCEPT !.case = "exception", !.state = "exception",
                                 !.misdirected = leg[r].misdirected + v]
  <1>1. /\ leg' = [leg EXCEPT ![r] = m] /\ UNCHANGED capacity
        /\ booked' = [booked EXCEPT ![r] = @ \cup {e}]
    BY DEF Misdirect
  <1>2. /\ leg[r] \in Leg /\ capacity[r] \in Capacity
        /\ Sound(leg[r], capacity[r], Amount[r])
    BY LegOf
  <1>3. /\ m.case = "exception" /\ m.state = "exception"
        /\ m.settled = leg[r].settled /\ m.hold = leg[r].hold
        /\ m.excess = leg[r].excess /\ m.misdirected = leg[r].misdirected + v
    BY <1>2 DEF Leg
  <1>4. m \in Leg
    <2>1. ASSUME NEW l \in Leg, NEW n \in Nat
          PROVE [l EXCEPT !.case = "exception", !.state = "exception",
                          !.misdirected = n] \in Leg
      BY DEF Leg
    <2>2. leg[r].misdirected + v \in Nat
      BY <1>2, Numbers
    <2>3. QED BY <1>2, <2>1, <2>2, Zenon
  <1> HIDE DEF m
  <1>5. Sound(m, capacity[r], Amount[r])
    <2>1. leg[r].misdirected + v > 0
      BY <1>2, Numbers
    <2>2. QED BY <1>2, <1>3, <2>1 DEF Sound, Stage, Books, PaidHasEnded, NotInstructed
  <1>6. LegsSound'
    BY <1>1, <1>4, <1>5, LegOnly
  <1>7. CountedOnce'
    BY <1>1 DEF CountedOnce, NotBooked
  <1>8. m.excess + m.misdirected = leg[r].excess + leg[r].misdirected + v
    BY <1>2, <1>3, Numbers
  <1>9. QED BY <1>1, <1>3, <1>4, <1>6, <1>7, <1>8

LEMMA ExternalInv ==
  ASSUME IInv, NEW r \in Refund, NEW t \in Transfer, RecordExternalRefund(r, t)
  PROVE  /\ IInv' /\ NotBooked(t) /\ ~NotInstructed(leg[r])
         /\ \/ Misdirect(r, t, Value[t])
            \/ Settle(r, leg[r], t, Value[t])
  <1>1. /\ NotBooked(t) /\ UNCHANGED callVars /\ Bookable(leg[r], TRUE)
        /\ \/ Misdirect(r, t, Value[t])
           \/ Settle(r, leg[r], t, Value[t])
    BY DEF RecordExternalRefund
  <1>2. /\ leg[r] \in Leg /\ Sound(leg[r], capacity[r], Amount[r])
    BY LegOf DEF IInv
  <1>3. ~NotInstructed(leg[r])
    BY <1>1, <1>2, BookableFacts
  <1>4. LegsSound' /\ CountedOnce'
    BY <1>1, <1>2, <1>3, TransferValue, SettleInv, MisdirectInv DEF IInv
  <1>5. QED BY <1>1, <1>3, <1>4, FactsUnchanged DEF IInv

-----------------------------------------------------------------------------
(* Calls.                                                                  *)
LEMMA CallFacts ==
  ASSUME FactsAreReal, NEW r \in Refund
  PROVE  /\ row[r] \in Row /\ call[r] \in Calls /\ remote[r] \in Remote
         /\ RealFact(row[r], call[r], remote[r], Actual[r])
  BY DEF FactsAreReal

LEMMA CallStepFacts ==
  ASSUME FactsAreReal, NEW r \in Refund, NEW w \in Row, NEW k \in Calls, NEW m \in Remote,
         row' = [row EXCEPT ![r] = w], call' = [call EXCEPT ![r] = k],
         remote' = [remote EXCEPT ![r] = m], RealFact(w, k, m, Actual[r])
  PROVE  FactsAreReal'
  BY DEF FactsAreReal

LEMMA Same ==
  ASSUME FactsAreReal, NEW r \in Refund
  PROVE  /\ row = [row EXCEPT ![r] = row[r]] /\ call = [call EXCEPT ![r] = call[r]]
         /\ remote = [remote EXCEPT ![r] = remote[r]]
  BY DEF FactsAreReal

LEMMA SubmitInv == ASSUME IInv, NEW r \in Refund, SubmitRefund(r) PROVE IInv'
  <1> DEFINE w == [row[r] EXCEPT !.state = "executing"]
             k == [call[r] EXCEPT !["submit"] = "asking"]
             m == [remote[r] EXCEPT !.state = "sent"]
  <1>1. /\ row' = [row EXCEPT ![r] = w] /\ call' = [call EXCEPT ![r] = k]
        /\ remote' = [remote EXCEPT ![r] = m]
    BY DEF SubmitRefund
  <1>2. /\ leg' = [leg EXCEPT ![r] = Begun(r, "provider")]
        /\ UNCHANGED <<capacity, booked>> /\ row[r].state = "none"
        /\ leg[r].state = "approved" /\ capacity[r].state = "reserved"
    BY DEF SubmitRefund, Executable
  <1>3. /\ row[r] \in Row /\ call[r] \in Calls /\ remote[r] \in Remote
        /\ RealFact(row[r], call[r], remote[r], Actual[r])
    BY CallFacts DEF IInv
  <1>4. w \in Row /\ w.state = "executing" /\ w.fact = row[r].fact
    BY <1>3 DEF Row
  <1>5. k \in Calls /\ \A c \in Caller : k[c] \in {call[r][c], "asking"}
    BY <1>3 DEF Calls
  <1>6. m \in Remote /\ m.state = "sent"
    BY <1>3 DEF Remote
  <1> HIDE DEF w, k, m
  <1>7. RealFact(w, k, m, Actual[r])
    BY <1>2, <1>3, <1>4, <1>5, <1>6 DEF RealFact
  <1>8. FactsAreReal'
    BY <1>1, <1>4, <1>5, <1>6, <1>7, CallStepFacts DEF IInv
  <1>9. LegsSound'
    BY <1>2, BegunSound, LegOnly DEF IInv
  <1>10. QED BY <1>2, <1>8, <1>9, BookedUnchanged DEF IInv

LEMMA LegsUnchanged == ASSUME LegsSound, UNCHANGED <<leg, capacity>> PROVE LegsSound'
  BY DEF LegsSound

LEMMA ProviderInv ==
  ASSUME IInv, NEW r \in Refund,
         \/ \E state \in {"accepted", "refused"} : ProviderDecides(r, state)
         \/ \E v \in Actual[r] : ProviderPays(r, v)
  PROVE  IInv'
  <1>1. /\ row[r] \in Row /\ call[r] \in Calls /\ remote[r] \in Remote
        /\ RealFact(row[r], call[r], remote[r], Actual[r])
    BY CallFacts DEF IInv
  <1>2. UNCHANGED <<legVars, row, call>>
    BY DEF ProviderDecides, ProviderPays
  <1>3. FactsAreReal'
    <2>1. ASSUME NEW state \in {"accepted", "refused"}, ProviderDecides(r, state)
          PROVE  FactsAreReal'
      <3> DEFINE m == [remote[r] EXCEPT !.state = state]
      <3>1. remote' = [remote EXCEPT ![r] = m] /\ remote[r].state = "sent"
        BY <2>1 DEF ProviderDecides
      <3>2. m \in Remote /\ m.state = state
        BY <1>1 DEF Remote
      <3> HIDE DEF m
      <3>3. RealFact(row[r], call[r], m, Actual[r])
        BY <1>1, <3>1, <3>2 DEF RealFact
      <3>4. QED BY <1>1, <1>2, <3>1, <3>2, <3>3, Same, CallStepFacts DEF IInv
    <2>2. ASSUME NEW v \in Actual[r], ProviderPays(r, v)
          PROVE  FactsAreReal'
      <3> DEFINE m == [state |-> "paid", value |-> v]
      <3>1. remote' = [remote EXCEPT ![r] = m] /\ remote[r].state = "accepted"
        BY <2>2 DEF ProviderPays
      <3>2. m \in Remote /\ m.state = "paid" /\ m.value = v
        BY <1>1, AmountsAssumption DEF Remote
      <3> HIDE DEF m
      <3>3. RealFact(row[r], call[r], m, Actual[r])
        BY <1>1, <3>1, <3>2 DEF RealFact
      <3>4. QED BY <1>1, <1>2, <3>1, <3>2, <3>3, Same, CallStepFacts DEF IInv
    <2>3. QED BY <2>1, <2>2
  <1>4. QED BY <1>2, <1>3, LegsUnchanged, BookedUnchanged DEF IInv, legVars

(* A call moves on: what it brings is the provider's payment or nothing.   *)
LEMMA CallMemory ==
  ASSUME IInv, NEW r \in Refund, NEW w \in Row, NEW k \in Calls,
         row' = [row EXCEPT ![r] = w], call' = [call EXCEPT ![r] = k],
         UNCHANGED <<legVars, remote>>,
         w.fact = row[r].fact,
         w.state = "none" => row[r].state = "none" /\ k = call[r],
         \A c \in Caller : k[c] = "succeeded" =>
           call[r][c] = "succeeded" \/ remote[r].state = "paid"
  PROVE  IInv'
  <1>1. RealFact(row[r], call[r], remote[r], Actual[r]) /\ remote[r] \in Remote
    BY CallFacts DEF IInv
  <1>2. RealFact(w, k, remote[r], Actual[r])
    BY <1>1 DEF RealFact
  <1>3. remote' = [remote EXCEPT ![r] = remote[r]]
    BY Same DEF IInv
  <1>4. FactsAreReal'
    BY <1>1, <1>2, <1>3, CallStepFacts DEF IInv
  <1>5. QED BY <1>4, LegsUnchanged, BookedUnchanged DEF IInv, legVars

LEMMA CallOnly ==
  ASSUME NEW k \in Calls, NEW c \in Caller, NEW a \in {"idle", "read", "asking"} \cup Answer
  PROVE  [k EXCEPT ![c] = a] \in Calls
         /\ \A b \in Caller : [k EXCEPT ![c] = a][b] = IF b = c THEN a ELSE k[b]
  BY DEF Calls

LEMMA NoneIdle ==
  ASSUME IInv, NEW r \in Refund, NEW c \in Caller, call[r][c] /= "idle"
  PROVE  row[r].state /= "none"
  BY CallFacts DEF IInv, RealFact

LEMMA MemoryInv ==
  ASSUME IInv, NEW r \in Refund, NEW c \in Caller,
         NEW a \in {"idle", "read", "asking"} \cup Answer,
         call' = [call EXCEPT ![r][c] = a], UNCHANGED <<legVars, row, remote>>,
         row[r].state /= "none", a = "succeeded" => remote[r].state = "paid"
  PROVE  IInv'
  <1> DEFINE k == [call[r] EXCEPT ![c] = a]
  <1>1. row[r] \in Row /\ call[r] \in Calls /\ row' = [row EXCEPT ![r] = row[r]]
    BY CallFacts, Same DEF IInv
  <1>2. k \in Calls /\ \A b \in Caller : k[b] = IF b = c THEN a ELSE call[r][b]
    BY <1>1, CallOnly
  <1>3. call' = [call EXCEPT ![r] = k]
    OBVIOUS
  <1> HIDE DEF k
  <1>4. \A b \in Caller : k[b] = "succeeded" =>
          call[r][b] = "succeeded" \/ remote[r].state = "paid"
    BY <1>2
  <1>5. row' = [row EXCEPT ![r] = row[r]]
    BY <1>1
  <1>6. QED BY <1>1, <1>2, <1>3, <1>4, <1>5, CallMemory

LEMMA ReadInv == ASSUME IInv, NEW r \in Refund, NEW q \in Query, ReadRefund(r, q) PROVE IInv'
  <1>1. q \in Caller
    BY DEF Caller
  <1>2. /\ call' = [call EXCEPT ![r][q] = "read"] /\ UNCHANGED <<legVars, row, remote>>
        /\ row[r].state /= "none"
    BY DEF ReadRefund
  <1>3. QED BY <1>1, <1>2, MemoryInv

LEMMA LoseInv == ASSUME IInv, NEW r \in Refund, NEW c \in Caller, LoseCall(r, c) PROVE IInv'
  <1>1. /\ call' = [call EXCEPT ![r][c] = "idle"] /\ UNCHANGED <<legVars, row, remote>>
        /\ row[r].state /= "none"
    BY NoneIdle DEF LoseCall
  <1>2. QED BY <1>1, MemoryInv

LEMMA AnswerInv ==
  ASSUME IInv, NEW r \in Refund, NEW c \in Caller, NEW a \in Answer, ReceiveAnswer(r, c, a)
  PROVE  IInv'
  <1>1. /\ call' = [call EXCEPT ![r][c] = a] /\ UNCHANGED <<legVars, row, remote>>
        /\ row[r].state /= "none" /\ a \in Answers(r, c)
    BY NoneIdle DEF ReceiveAnswer
  <1>2. a = "succeeded" => remote[r].state = "paid"
    BY <1>1 DEF Answers
  <1>3. QED BY <1>1, <1>2, MemoryInv

LEMMA ClaimInv ==
  ASSUME IInv, NEW r \in Refund, NEW q \in Query, ClaimRefundQuery(r, q)
  PROVE  IInv'
  <1>1. q \in Caller /\ row[r].state /= "none" /\ UNCHANGED <<legVars, remote>>
    BY NoneIdle DEF Caller, ClaimRefundQuery
  <1>2. CASE UNCHANGED row /\ call' = [call EXCEPT ![r][q] = "idle"]
    BY <1>1, <1>2, MemoryInv
  <1>3. CASE /\ row' = [row EXCEPT ![r].state = "querying", ![r].leased = TRUE]
             /\ call' = [call EXCEPT ![r][q] = "asking"]
    <2> DEFINE w == [row[r] EXCEPT !.state = "querying", !.leased = TRUE]
               k == [call[r] EXCEPT ![q] = "asking"]
    <2>1. row' = [row EXCEPT ![r] = w] /\ call' = [call EXCEPT ![r] = k]
      BY <1>3 DEF IInv, FactsAreReal
    <2>2. row[r] \in Row /\ call[r] \in Calls
      BY CallFacts DEF IInv
    <2>3. w \in Row /\ w.state = "querying" /\ w.fact = row[r].fact
      BY <2>2 DEF Row
    <2>4. k \in Calls /\ \A b \in Caller : k[b] = IF b = q THEN "asking" ELSE call[r][b]
      BY <1>1, <2>2, CallOnly
    <2> HIDE DEF w, k
    <2>5. QED BY <1>1, <2>1, <2>3, <2>4, CallMemory, ZenonT(60)
  <1>4. QED BY <1>2, <1>3 DEF ClaimRefundQuery

LEMMA LeaseInv == ASSUME IInv, NEW r \in Refund, LeaseExpires(r) PROVE IInv'
  <1> DEFINE w == [row[r] EXCEPT !.leased = FALSE]
  <1>1. row' = [row EXCEPT ![r] = w] /\ UNCHANGED <<legVars, call, remote>>
    BY DEF LeaseExpires
  <1>2. row[r] \in Row /\ call[r] \in Calls /\ call' = [call EXCEPT ![r] = call[r]]
    BY <1>1, CallFacts, Same DEF IInv
  <1>3. w \in Row /\ w.state = row[r].state /\ w.fact = row[r].fact
    BY <1>2 DEF Row
  <1> HIDE DEF w
  <1>4. QED BY <1>1, <1>2, <1>3, CallMemory

(* Booking the provider's payment, by a call's save or by a replay.        *)
LEMMA BookFacts ==
  ASSUME IInv, NEW r \in Refund, BookRefund(r), remote[r].state = "paid"
  PROVE  /\ LegsSound' /\ CountedOnce'
         /\ \/ UNCHANGED legVars
            \/ /\ NotBooked(r) /\ ~NotInstructed(leg[r])
               /\ remote[r].value \in Actual[r]
               /\ Settle(r, leg[r], r, remote[r].value)
  <1>1. /\ leg[r] \in Leg /\ Sound(leg[r], capacity[r], Amount[r])
        /\ RealFact(row[r], call[r], remote[r], Actual[r])
    BY LegOf, CallFacts DEF IInv
  <1>2. remote[r].value \in Actual[r] /\ remote[r].value \in Nat \ {0}
    BY <1>1, AmountsAssumption DEF RealFact
  <1>3. CASE UNCHANGED legVars
    BY <1>3, LegsUnchanged, BookedUnchanged DEF IInv, legVars
  <1>4. CASE /\ NotBooked(r) /\ Bookable(leg[r], TRUE)
             /\ Settle(r, leg[r], r, remote[r].value)
    <2>1. ~NotInstructed(leg[r])
      BY <1>1, <1>4, BookableFacts
    <2>2. r \in Transfer \cup Refund
      OBVIOUS
    <2>3. LegsSound' /\ CountedOnce'
      BY <1>1, <1>2, <1>4, <2>1, <2>2, SettleInv DEF IInv
    <2>4. QED BY <1>2, <1>4, <2>1, <2>3
  <1>5. QED BY <1>3, <1>4 DEF BookRefund

LEMMA NewStateKind ==
  ASSUME NEW r \in Refund, NEW a \in Answer
  PROVE  NewState(r, a) \in {"pending", "outcome_unknown", "failed", "succeeded",
                             "verified_pending_settlement"}
  BY DEF NewState, Answer

LEMMA SaveInv ==
  ASSUME IInv, NEW r \in Refund, NEW c \in Caller, SaveRefundResult(r, c)
  PROVE  IInv'
  <1> DEFINE a == call[r][c]
             k == [call[r] EXCEPT ![c] = "idle"]
             w == [row[r] EXCEPT !.state = NewState(r, a), !.leased = FALSE,
                                 !.fact = a = "succeeded"]
  <1>1. /\ a \in Answer /\ row' = [row EXCEPT ![r] = w] /\ call' = [call EXCEPT ![r] = k]
        /\ UNCHANGED remote
        /\ IF a = "succeeded" THEN BookRefund(r) ELSE UNCHANGED legVars
    BY DEF SaveRefundResult
  <1>2. /\ row[r] \in Row /\ call[r] \in Calls /\ remote[r] \in Remote
        /\ RealFact(row[r], call[r], remote[r], Actual[r])
        /\ remote' = [remote EXCEPT ![r] = remote[r]]
    BY <1>1, CallFacts, Same DEF IInv
  <1>3. w \in Row /\ w.fact = (a = "succeeded") /\ w.state /= "none"
    <2>1. NewState(r, a) \in {"pending", "outcome_unknown", "failed", "succeeded",
                              "verified_pending_settlement"}
      BY <1>1, NewStateKind
    <2>2. ASSUME NEW s \in {"pending", "outcome_unknown", "failed", "succeeded",
                            "verified_pending_settlement"}, NEW f \in BOOLEAN
          PROVE  LET v == [row[r] EXCEPT !.state = s, !.leased = FALSE, !.fact = f]
                 IN v \in Row /\ v.fact = f /\ v.state /= "none"
      BY <1>2 DEF Row
    <2>3. (a = "succeeded") \in BOOLEAN
      OBVIOUS
    <2> HIDE DEF a
    <2>4. QED BY <2>1, <2>2, <2>3, Zenon
  <1>4. k \in Calls /\ \A b \in Caller : k[b] = IF b = c THEN "idle" ELSE call[r][b]
    BY <1>2, CallOnly
  <1>5. a = "succeeded" => remote[r].state = "paid"
    BY <1>2 DEF RealFact
  <1> HIDE DEF a, k, w
  <1>6. RealFact(w, k, remote[r], Actual[r])
    BY <1>2, <1>3, <1>4, <1>5 DEF RealFact
  <1>7. FactsAreReal'
    BY <1>1, <1>2, <1>3, <1>4, <1>6, CallStepFacts DEF IInv
  <1>8. LegsSound' /\ CountedOnce'
    BY <1>1, <1>5, BookFacts, LegsUnchanged, BookedUnchanged DEF IInv, legVars
  <1>9. QED BY <1>7, <1>8 DEF IInv

LEMMA ReplayInv == ASSUME IInv, NEW r \in Refund, ReplayFact(r) PROVE IInv'
  <1> DEFINE w == [row[r] EXCEPT !.state = NewState(r, "succeeded"), !.leased = FALSE]
  <1>1. /\ row' = [row EXCEPT ![r] = w] /\ UNCHANGED <<call, remote>> /\ row[r].fact
        /\ BookRefund(r)
    BY DEF ReplayFact, Final
  <1>2. /\ row[r] \in Row /\ call[r] \in Calls /\ remote[r] \in Remote
        /\ RealFact(row[r], call[r], remote[r], Actual[r])
        /\ remote' = [remote EXCEPT ![r] = remote[r]]
        /\ call' = [call EXCEPT ![r] = call[r]]
    BY <1>1, CallFacts, Same DEF IInv
  <1>3. w \in Row /\ w.fact = row[r].fact /\ w.state /= "none"
    <2>1. NewState(r, "succeeded") \in {"pending", "outcome_unknown", "failed",
                                        "succeeded", "verified_pending_settlement"}
      BY NewStateKind DEF Answer
    <2>2. QED BY <1>2, <2>1 DEF Row
  <1> HIDE DEF w
  <1>4. remote[r].state = "paid"
    BY <1>1, <1>2 DEF RealFact
  <1>5. RealFact(w, call[r], remote[r], Actual[r])
    BY <1>2, <1>3 DEF RealFact
  <1>6. FactsAreReal'
    BY <1>1, <1>2, <1>3, <1>5, CallStepFacts DEF IInv
  <1>7. QED BY <1>1, <1>4, <1>6, BookFacts DEF IInv

LEMMA StillInv ==
  ASSUME IInv, UNCHANGED <<leg, capacity, booked, callVars>> PROVE IInv'
  BY LegsUnchanged, BookedUnchanged, FactsUnchanged DEF IInv

LEMMA NextInv == ASSUME IInv, [Next]_vars PROVE IInv'
  <1>1. ASSUME NEW r \in Refund, CaseStep(r) PROVE IInv'
    <2>1. CASE AuthorizeRefundDestination(r)
      BY <2>1, StillInv DEF AuthorizeRefundDestination, legVars
    <2>2. CASE RequestRefund(r)
      BY <2>2, RequestInv
    <2>3. CASE ApproveRefund(r)
      BY <2>3, ApproveInv
    <2>4. CASE BeginManualRefund(r) \/ MarkRefundUnknown(r)
      BY <2>4, BeginInv, UnknownInv
    <2>5. CASE RecordManualRefundFailure(r) \/ CloseRefundExecution(r)
      BY <2>5, FailureInv, CloseInv
    <2>6. CASE \E state \in {"rejected", "cancelled"} : CancelRefund(r, state)
      BY <2>6, CancelInv
    <2>7. CASE \E t \in Transfer : \/ RecordManualRefund(r, t) \/ RecordClosedRefund(r, t)
                                   \/ RecordExternalRefund(r, t)
      BY <2>7, ManualInv, ExternalInv
    <2>8. QED BY <1>1, <2>1, <2>2, <2>3, <2>4, <2>5, <2>6, <2>7 DEF CaseStep
  <1>2. ASSUME NEW r \in Refund, CallStep(r) PROVE IInv'
    <2>1. CASE SubmitRefund(r) \/ LeaseExpires(r) \/ ReplayFact(r)
      BY <2>1, SubmitInv, LeaseInv, ReplayInv
    <2>2. CASE \/ \E state \in {"accepted", "refused"} : ProviderDecides(r, state)
               \/ \E v \in Actual[r] : ProviderPays(r, v)
      BY <2>2, ProviderInv
    <2>3. CASE \E q \in Query : ReadRefund(r, q) \/ ClaimRefundQuery(r, q)
      BY <2>3, ReadInv, ClaimInv
    <2>4. CASE \E c \in Caller : \/ \E a \in Answer : ReceiveAnswer(r, c, a)
                                 \/ SaveRefundResult(r, c) \/ LoseCall(r, c)
      BY <2>4, AnswerInv, SaveInv, LoseInv
    <2>5. QED BY <1>2, <2>1, <2>2, <2>3, <2>4 DEF CallStep
  <1>3. ASSUME NEW d \in Dispute, DisputeStep(d) PROVE UNCHANGED <<leg, capacity, booked, callVars>>
    BY <1>3 DEF DisputeStep, RecordChargeback, RestrictChargeback, RecoverChargeback,
                ResolveChargeback, legVars
  <1>4. CASE UNCHANGED vars
    BY <1>4, StillInv DEF vars, legVars
  <1>5. QED BY <1>1, <1>2, <1>3, <1>4, StillInv DEF Next

(* IInv holds always: the leg, the capacity of its receipt and its hold    *)
(* agree, a payment is counted once, and a stored success is real.         *)
THEOREM Invariant == Spec => []IInv
  BY InitInv, NextInv, PTL DEF Spec

(* A debt that was paid in full is over, whatever arrives late: PaidDebt-  *)
(* HasEnded for any number of refunds, routes, payments and queries.       *)
THEOREM PaidDebtAlwaysEnds == Spec => []PaidDebtHasEnded
  <1>1. IInv => PaidDebtHasEnded
    BY DEF IInv, LegsSound, Sound, PaidHasEnded, PaidDebtHasEnded
  <1>2. QED BY <1>1, Invariant, PTL

(* No payment, by hand, from outside or by the provider, is booked for two *)
(* refunds.                                                                *)
THEOREM PaymentsAreCountedOnce ==
  Spec => [](\A r, s \in Refund : r /= s => booked[r] \cap booked[s] = {})
  <1>1. IInv => \A r, s \in Refund : r /= s => booked[r] \cap booked[s] = {}
    BY DEF IInv, CountedOnce
  <1>2. QED BY <1>1, Invariant, PTL

(* What the executions wrote down as the provider's payment is one: a row  *)
(* with a stored fact belongs to a refund the provider has paid.           *)
THEOREM StoredFactsAreReal ==
  Spec => [](\A r \in Refund : row[r].fact => remote[r].state = "paid")
  <1>1. IInv => \A r \in Refund : row[r].fact => remote[r].state = "paid"
    BY DEF IInv, FactsAreReal, RealFact
  <1>2. QED BY <1>1, Invariant, PTL

-----------------------------------------------------------------------------
(* Refunds implement Debt.  First what the mapping makes of a changed leg. *)
StateOf(l) ==
  CASE l.case = "none" -> "none"
    [] l.case \in {"rejected", "cancelled"} -> "withdrawn"
    [] OTHER -> IF l.case \in {"pending_review", "approved"} THEN "promised" ELSE "due"
State == [r \in Refund |-> StateOf(leg[r])]
PaidUp == [r \in Refund |-> leg[r].settled]
Lost == [r \in Refund |-> leg[r].excess + leg[r].misdirected]

LEMMA Mapped ==
  ASSUME NEW r \in Refund, NEW m, leg \in [Refund -> Leg], leg' = [leg EXCEPT ![r] = m]
  PROVE  /\ State' = [State EXCEPT ![r] = StateOf(m)]
         /\ PaidUp' = [PaidUp EXCEPT ![r] = m.settled]
         /\ Lost' = [Lost EXCEPT ![r] = m.excess + m.misdirected]
  BY DEF State, PaidUp, Lost

LEMMA StillMapped ==
  ASSUME UNCHANGED <<leg, booked>> PROVE UNCHANGED Debt!vars
  BY DEF Debt!vars

(* A step of a leg that books nothing.                                     *)
LEMMA Unpaid ==
  ASSUME LegsSound, NEW r \in Refund, NEW m, leg' = [leg EXCEPT ![r] = m],
         m.settled = leg[r].settled, m.excess = leg[r].excess,
         m.misdirected = leg[r].misdirected
  PROVE  UNCHANGED <<PaidUp, Lost>>
  <1>1. leg \in [Refund -> Leg]
    BY DEF LegsSound
  <1>2. PaidUp = [PaidUp EXCEPT ![r] = m.settled]
    BY DEF PaidUp
  <1>3. Lost = [Lost EXCEPT ![r] = m.excess + m.misdirected]
    BY DEF Lost
  <1>4. QED BY <1>1, <1>2, <1>3, Mapped

LEMMA Moves ==
  ASSUME LegsSound, NEW r \in Refund, NEW m, leg' = [leg EXCEPT ![r] = m],
         UNCHANGED <<PaidUp, Lost, booked>>,
         \/ StateOf(m) = StateOf(leg[r])
         \/ StateOf(leg[r]) = "none" /\ StateOf(m) = "promised"
         \/ StateOf(leg[r]) = "promised" /\ StateOf(m) \in {"withdrawn", "due"}
  PROVE  [Debt!Next]_(Debt!vars)
  <1>1. State' = [State EXCEPT ![r] = StateOf(m)] /\ State[r] = StateOf(leg[r])
    BY Mapped DEF LegsSound, State
  <1>2. CASE StateOf(m) = StateOf(leg[r])
    <2>1. UNCHANGED State
      BY <1>1, <1>2 DEF State
    <2>2. QED BY <2>1 DEF Debt!vars, State, StateOf, PaidUp, Lost
  <1>3. CASE StateOf(leg[r]) = "none" /\ StateOf(m) = "promised"
    <2>1. State[r] = "none" /\ State' = [State EXCEPT ![r] = "promised"]
      BY <1>1, <1>3
    <2>2. Debt!Promise(r)
      BY <2>1 DEF Debt!Promise, State, StateOf, PaidUp, Lost
    <2>3. QED BY <2>2 DEF Debt!Next
  <1>4. CASE StateOf(leg[r]) = "promised" /\ StateOf(m) = "withdrawn"
    <2>1. State[r] = "promised" /\ State' = [State EXCEPT ![r] = "withdrawn"]
      BY <1>1, <1>4
    <2>2. Debt!Withdraw(r)
      BY <2>1 DEF Debt!Withdraw, State, StateOf, PaidUp, Lost
    <2>3. QED BY <2>2 DEF Debt!Next
  <1>5. CASE StateOf(leg[r]) = "promised" /\ StateOf(m) = "due"
    <2>1. State[r] = "promised" /\ State' = [State EXCEPT ![r] = "due"]
      BY <1>1, <1>5
    <2>2. Debt!Instruct(r)
      BY <2>1 DEF Debt!Instruct, State, StateOf, PaidUp, Lost
    <2>3. QED BY <2>2 DEF Debt!Next
  <1>6. QED BY <1>2, <1>3, <1>4, <1>5

Worth == [e \in Transfer \cup Refund |-> IF e \in Refund THEN Actual[e] ELSE {Value[e]}]

(* A step that books payment e.                                            *)
LEMMA Pays ==
  ASSUME LegsSound, NEW r \in Refund, NEW m, NEW e \in Transfer \cup Refund, NotBooked(e),
         leg' = [leg EXCEPT ![r] = m], booked' = [booked EXCEPT ![r] = @ \cup {e}],
         leg[r].case \notin {"none", "rejected", "cancelled"},
         m.case \in {"exception", "completed"},
         NEW v \in Worth[e], NEW p \in {0, Least(v, Amount[r] - leg[r].settled)},
         m.settled = leg[r].settled + p,
         m.excess + m.misdirected = leg[r].excess + leg[r].misdirected + v - p
  PROVE  Debt!Pay(r, e)
  <1>1. leg \in [Refund -> Leg]
    BY DEF LegsSound
  <1>2. /\ State[r] \in {"promised", "due"} /\ State' = [State EXCEPT ![r] = "due"]
    BY <1>1, Mapped DEF State, StateOf
  <1>3. /\ PaidUp[r] = leg[r].settled /\ PaidUp' = [PaidUp EXCEPT ![r] = @ + p]
        /\ Lost[r] = leg[r].excess + leg[r].misdirected
    BY <1>1, Mapped DEF PaidUp, Lost
  <1>4. Lost' = [Lost EXCEPT ![r] = @ + v - p]
    <2>1. Lost' = [Lost EXCEPT ![r] = m.excess + m.misdirected]
      BY <1>1, Mapped
    <2>2. m.excess + m.misdirected = Lost[r] + v - p
      BY <1>3
    <2>3. [Lost EXCEPT ![r] = @ + v - p] = [Lost EXCEPT ![r] = Lost[r] + v - p]
      BY DEF Lost
    <2>4. QED BY <2>1, <2>2, <2>3, Zenon
  <1>5. p \in {0, Debt!Least(v, Amount[r] - PaidUp[r])}
    BY <1>3 DEF Least, Debt!Least
  <1>6. /\ \A s \in Refund : e \notin booked[s]
        /\ booked' = [booked EXCEPT ![r] = @ \cup {e}]
    BY DEF NotBooked
  <1>7. \E w \in Worth[e] : \E q \in {0, Debt!Least(w, Amount[r] - PaidUp[r])} :
          /\ PaidUp' = [PaidUp EXCEPT ![r] = @ + q]
          /\ Lost' = [Lost EXCEPT ![r] = @ + w - q]
    BY <1>3, <1>4, <1>5, Zenon
  <1>8. QED
    BY <1>2, <1>6, <1>7, Zenon DEF Debt!Pay, State, StateOf, PaidUp, Lost, Worth

(* An instruction is given, reported on or closed.                         *)
LEMMA Instructs ==
  ASSUME LegsSound, NEW r \in Refund, NEW m, leg' = [leg EXCEPT ![r] = m], UNCHANGED booked,
         m.settled = leg[r].settled, m.excess = leg[r].excess,
         m.misdirected = leg[r].misdirected, m.case \in {"paying", "exception"},
         leg[r].state \in {"approved", "executing", "unknown", "exception"}
  PROVE  [Debt!Next]_(Debt!vars)
  <1>1. Stage(leg[r])
    BY DEF LegsSound, Sound
  <1>2. leg[r].case \in {"approved", "paying", "exception"}
    BY <1>1 DEF Stage
  <1>3. StateOf(m) = "due" /\ StateOf(leg[r]) \in {"promised", "due"}
    BY <1>2 DEF StateOf
  <1>4. UNCHANGED <<PaidUp, Lost>>
    BY Unpaid
  <1>5. QED BY <1>3, <1>4, Moves

LEMMA RequestDebt ==
  ASSUME IInv, NEW r \in Refund,
         \/ RequestRefund(r) \/ ApproveRefund(r)
         \/ \E state \in {"rejected", "cancelled"} : CancelRefund(r, state)
  PROVE  [Debt!Next]_(Debt!vars)
  <1>1. leg[r] \in Leg /\ LegsSound
    BY LegOf DEF IInv
  <1>2. ASSUME NEW m \in Leg, leg' = [leg EXCEPT ![r] = m], UNCHANGED booked,
               m.settled = leg[r].settled, m.excess = leg[r].excess,
               m.misdirected = leg[r].misdirected,
               \/ leg[r].case = "none" /\ m.case = "pending_review"
               \/ leg[r].case = "pending_review" /\ m.case = "approved"
               \/ /\ leg[r].case \in {"pending_review", "approved"}
                  /\ m.case \in {"rejected", "cancelled"}
        PROVE  [Debt!Next]_(Debt!vars)
    <2>1. \/ StateOf(m) = StateOf(leg[r])
          \/ StateOf(leg[r]) = "none" /\ StateOf(m) = "promised"
          \/ StateOf(leg[r]) = "promised" /\ StateOf(m) \in {"withdrawn", "due"}
      BY <1>2 DEF StateOf
    <2>2. UNCHANGED <<PaidUp, Lost>>
      BY <1>1, <1>2, Unpaid
    <2>3. QED BY <1>1, <1>2, <2>1, <2>2, Moves
  <1>3. CASE RequestRefund(r)
    <2> DEFINE m == [leg[r] EXCEPT !.case = "pending_review", !.state = "reserved",
                                   !.hold = Amount[r]]
    <2>1. leg' = [leg EXCEPT ![r] = m] /\ UNCHANGED booked /\ leg[r].case = "none"
      BY <1>3 DEF RequestRefund
    <2>2. /\ m \in Leg /\ m.case = "pending_review" /\ m.settled = leg[r].settled
          /\ m.excess = leg[r].excess /\ m.misdirected = leg[r].misdirected
      BY <1>1, AmountIsPositive DEF Leg
    <2> HIDE DEF m
    <2>3. QED BY <1>2, <2>1, <2>2
  <1>4. CASE ApproveRefund(r)
    <2> DEFINE m == [leg[r] EXCEPT !.case = "approved", !.state = "approved"]
    <2>1. leg' = [leg EXCEPT ![r] = m] /\ UNCHANGED booked /\ leg[r].case = "pending_review"
      BY <1>4 DEF ApproveRefund
    <2>2. /\ m \in Leg /\ m.case = "approved" /\ m.settled = leg[r].settled
          /\ m.excess = leg[r].excess /\ m.misdirected = leg[r].misdirected
      BY <1>1 DEF Leg
    <2> HIDE DEF m
    <2>3. QED BY <1>2, <2>1, <2>2
  <1>5. ASSUME NEW state \in {"rejected", "cancelled"}, CancelRefund(r, state)
        PROVE  [Debt!Next]_(Debt!vars)
    <2> DEFINE m == [leg[r] EXCEPT !.case = state, !.state = "cancelled", !.hold = 0]
    <2>1. /\ leg' = [leg EXCEPT ![r] = m] /\ UNCHANGED booked
          /\ leg[r].case \in {"pending_review", "approved"}
      BY <1>5 DEF CancelRefund, Cancellable
    <2>2. /\ m \in Leg /\ m.case = state /\ m.settled = leg[r].settled
          /\ m.excess = leg[r].excess /\ m.misdirected = leg[r].misdirected
      BY <1>1 DEF Leg
    <2> HIDE DEF m
    <2>3. QED BY <1>2, <2>1, <2>2
  <1>6. QED BY <1>3, <1>4, <1>5

LEMMA InstructDebt ==
  ASSUME IInv, NEW r \in Refund,
         \/ BeginManualRefund(r) \/ SubmitRefund(r) \/ MarkRefundUnknown(r)
         \/ RecordManualRefundFailure(r) \/ CloseRefundExecution(r)
  PROVE  [Debt!Next]_(Debt!vars)
  <1>1. leg[r] \in Leg /\ LegsSound /\ Sound(leg[r], capacity[r], Amount[r])
    BY LegOf DEF IInv
  <1>2. ASSUME NEW mode \in {"manual", "provider"}, leg[r].state = "approved",
               leg' = [leg EXCEPT ![r] = Begun(r, mode)], UNCHANGED booked
        PROVE  [Debt!Next]_(Debt!vars)
    BY <1>1, <1>2, BegunFields, Instructs
  <1>3. CASE BeginManualRefund(r) \/ SubmitRefund(r)
    BY <1>2, <1>3 DEF BeginManualRefund, MayBegin, SubmitRefund
  <1>4. CASE MarkRefundUnknown(r)
    <2> DEFINE m == [leg[r] EXCEPT !.state = "unknown"]
    <2>1. leg' = [leg EXCEPT ![r] = m] /\ UNCHANGED booked /\ leg[r].state = "executing"
      BY <1>4 DEF MarkRefundUnknown
    <2>2. /\ m.case = leg[r].case /\ m.settled = leg[r].settled
          /\ m.excess = leg[r].excess /\ m.misdirected = leg[r].misdirected
      BY <1>1 DEF Leg
    <2>3. leg[r].case = "paying"
      BY <1>1, <2>1 DEF Sound, Stage
    <2> HIDE DEF m
    <2>4. QED BY <1>1, <2>1, <2>2, <2>3, Instructs
  <1>5. CASE RecordManualRefundFailure(r)
    <2> DEFINE m == [leg[r] EXCEPT !.case = "exception", !.state = "exception"]
    <2>1. /\ leg' = [leg EXCEPT ![r] = m] /\ UNCHANGED booked
          /\ leg[r].state \in {"executing", "unknown", "exception"}
      BY <1>5 DEF RecordManualRefundFailure
    <2>2. /\ m.case = "exception" /\ m.settled = leg[r].settled
          /\ m.excess = leg[r].excess /\ m.misdirected = leg[r].misdirected
      BY <1>1 DEF Leg
    <2> HIDE DEF m
    <2>3. QED BY <1>1, <2>1, <2>2, Instructs
  <1>6. CASE CloseRefundExecution(r)
    <2> DEFINE m == [leg[r] EXCEPT !.case = "paying", !.state = "approved", !.mode = "",
                                   !.version = leg[r].version + 1]
    <2>1. /\ UNCHANGED booked /\ leg[r].state \in {"executing", "exception"}
      BY <1>6 DEF CloseRefundExecution
    <2>2. leg' = [leg EXCEPT ![r] = m]
      BY <1>6 DEF CloseRefundExecution
    <2>3. leg[r].version + 1 \in Version
      BY <1>1, Numbers, LegOf DEF Version
    <2>4. /\ m.case = "paying" /\ m.settled = leg[r].settled
          /\ m.excess = leg[r].excess /\ m.misdirected = leg[r].misdirected
      BY <1>1, <2>3, NextVersion, Zenon
    <2> HIDE DEF m
    <2>5. QED BY <1>1, <2>1, <2>2, <2>4, Instructs
  <1>7. QED BY <1>3, <1>4, <1>5, <1>6

LEMMA SettleDebt ==
  ASSUME IInv, NEW r \in Refund, NEW l \in Leg, NEW e \in Transfer \cup Refund,
         l.settled = leg[r].settled, l.excess = leg[r].excess,
         l.misdirected = leg[r].misdirected, ~NotInstructed(l),
         leg[r].case \notin {"none", "rejected", "cancelled"},
         Sound(l, capacity[r], Amount[r]), NotBooked(e),
         NEW v \in Nat \ {0}, v \in Worth[e], Settle(r, l, e, v)
  PROVE  [Debt!Next]_(Debt!vars)
  <1>1. LegsSound /\ CountedOnce
    BY DEF IInv
  <1>2. /\ booked' = [booked EXCEPT ![r] = @ \cup {e}]
        /\ \E p \in {0, Least(v, Amount[r] - l.settled)}, m \in Leg :
             /\ leg' = [leg EXCEPT ![r] = m] /\ m.case \in {"exception", "completed"}
             /\ m.settled = l.settled + p
             /\ m.excess + m.misdirected = l.excess + l.misdirected + v - p
    BY <1>1, SettleInv
  <1>3. PICK p \in {0, Least(v, Amount[r] - l.settled)}, m \in Leg :
             /\ leg' = [leg EXCEPT ![r] = m] /\ m.case \in {"exception", "completed"}
             /\ m.settled = l.settled + p
             /\ m.excess + m.misdirected = l.excess + l.misdirected + v - p
    BY <1>2
  <1>4. /\ p \in {0, Least(v, Amount[r] - leg[r].settled)}
        /\ m.settled = leg[r].settled + p
        /\ m.excess + m.misdirected = leg[r].excess + leg[r].misdirected + v - p
    BY <1>3
  <1>5. Debt!Pay(r, e)
    <2>1. LegsSound /\ leg' = [leg EXCEPT ![r] = m] /\ m.case \in {"exception", "completed"}
      BY <1>1, <1>3
    <2>2. booked' = [booked EXCEPT ![r] = @ \cup {e}]
      BY <1>2
    <2>3. QED BY <1>4, <2>1, <2>2, Pays
  <1>6. QED BY <1>5 DEF Debt!Next

LEMMA ManualDebt ==
  ASSUME IInv, NEW r \in Refund, NEW t \in Transfer,
         RecordManualRefund(r, t) \/ RecordClosedRefund(r, t)
  PROVE  [Debt!Next]_(Debt!vars)
  <1>1. PICK l \in Leg :
              /\ l.settled = leg[r].settled /\ l.excess = leg[r].excess
              /\ l.misdirected = leg[r].misdirected /\ ~NotInstructed(l)
              /\ Sound(l, capacity[r], Amount[r]) /\ Settle(r, l, t, Value[t])
              /\ leg[r].case \notin {"none", "rejected", "cancelled"}
    BY ManualInv
  <1>2. NotBooked(t) /\ Value[t] \in Nat \ {0} /\ Value[t] \in Worth[t]
    BY ManualInv, TransferValue, RefundsAssumption DEF Worth
  <1>3. QED BY <1>1, <1>2, SettleDebt

LEMMA ExternalDebt ==
  ASSUME IInv, NEW r \in Refund, NEW t \in Transfer, RecordExternalRefund(r, t)
  PROVE  [Debt!Next]_(Debt!vars)
  <1>1. /\ NotBooked(t) /\ ~NotInstructed(leg[r])
        /\ Misdirect(r, t, Value[t]) \/ Settle(r, leg[r], t, Value[t])
    BY ExternalInv
  <1>2. /\ Value[t] \in Nat \ {0} /\ Value[t] \in Worth[t] /\ t \in Transfer \cup Refund
    BY TransferValue, RefundsAssumption DEF Worth
  <1>3. /\ leg[r] \in Leg /\ capacity[r] \in Capacity
        /\ Sound(leg[r], capacity[r], Amount[r]) /\ LegsSound /\ CountedOnce
    BY LegOf DEF IInv
  <1>4. leg[r].case \notin {"none", "rejected", "cancelled"}
    BY <1>1 DEF NotInstructed
  <1>5. CASE Settle(r, leg[r], t, Value[t])
    BY <1>1, <1>2, <1>3, <1>4, <1>5, SettleDebt
  <1>6. CASE Misdirect(r, t, Value[t])
    <2>1. PICK m \in Leg :
              /\ leg' = [leg EXCEPT ![r] = m] /\ m.case = "exception"
              /\ m.settled = leg[r].settled
              /\ m.excess + m.misdirected = leg[r].excess + leg[r].misdirected + Value[t]
      BY <1>1, <1>2, <1>3, <1>6, MisdirectInv
    <2>2. booked' = [booked EXCEPT ![r] = @ \cup {t}]
      BY <1>6 DEF Misdirect
    <2>3. /\ m.settled = leg[r].settled + 0
          /\ m.excess + m.misdirected = leg[r].excess + leg[r].misdirected + Value[t] - 0
      BY <1>2, <1>3, <2>1, Numbers
    <2>4. Debt!Pay(r, t)
      BY <1>1, <1>2, <1>3, <1>4, <2>1, <2>2, <2>3, Pays
    <2>5. QED BY <2>4 DEF Debt!Next
  <1>7. QED BY <1>1, <1>5, <1>6

LEMMA BookDebt ==
  ASSUME IInv, NEW r \in Refund, BookRefund(r), remote[r].state = "paid"
  PROVE  [Debt!Next]_(Debt!vars)
  <1>1. \/ UNCHANGED legVars
        \/ /\ NotBooked(r) /\ ~NotInstructed(leg[r]) /\ remote[r].value \in Actual[r]
           /\ Settle(r, leg[r], r, remote[r].value)
    BY BookFacts
  <1>2. CASE UNCHANGED legVars
    BY <1>2, StillMapped DEF legVars
  <1>3. CASE /\ NotBooked(r) /\ ~NotInstructed(leg[r]) /\ remote[r].value \in Actual[r]
             /\ Settle(r, leg[r], r, remote[r].value)
    <2>1. /\ remote[r].value \in Nat \ {0} /\ remote[r].value \in Worth[r]
          /\ r \in Transfer \cup Refund
      BY <1>3, AmountsAssumption DEF Worth
    <2>2. leg[r] \in Leg /\ Sound(leg[r], capacity[r], Amount[r])
      BY LegOf DEF IInv
    <2>3. leg[r].case \notin {"none", "rejected", "cancelled"}
      BY <1>3 DEF NotInstructed
    <2>4. QED BY <1>3, <2>1, <2>2, <2>3, SettleDebt
  <1>4. QED BY <1>1, <1>2, <1>3

LEMMA NextDebt == ASSUME IInv, [Next]_vars PROVE [Debt!Next]_(Debt!vars)
  <1>1. ASSUME NEW r \in Refund, CaseStep(r) PROVE [Debt!Next]_(Debt!vars)
    <2>1. CASE AuthorizeRefundDestination(r)
      BY <2>1, StillMapped DEF AuthorizeRefundDestination, legVars
    <2>2. CASE \/ RequestRefund(r) \/ ApproveRefund(r)
               \/ \E state \in {"rejected", "cancelled"} : CancelRefund(r, state)
      BY <2>2, RequestDebt
    <2>3. CASE \/ BeginManualRefund(r) \/ MarkRefundUnknown(r)
               \/ RecordManualRefundFailure(r) \/ CloseRefundExecution(r)
      BY <2>3, InstructDebt
    <2>4. CASE \E t \in Transfer : \/ RecordManualRefund(r, t) \/ RecordClosedRefund(r, t)
                                   \/ RecordExternalRefund(r, t)
      BY <2>4, ManualDebt, ExternalDebt
    <2>5. QED BY <1>1, <2>1, <2>2, <2>3, <2>4 DEF CaseStep
  <1>2. ASSUME NEW r \in Refund, CallStep(r) PROVE [Debt!Next]_(Debt!vars)
    <2>1. RealFact(row[r], call[r], remote[r], Actual[r])
      BY CallFacts DEF IInv
    <2>2. CASE SubmitRefund(r)
      BY <2>2, InstructDebt
    <2>3. CASE ReplayFact(r)
      BY <2>1, <2>3, BookDebt DEF ReplayFact, Final, RealFact
    <2>4. ASSUME NEW c \in Caller, SaveRefundResult(r, c) PROVE [Debt!Next]_(Debt!vars)
      BY <2>1, <2>4, BookDebt, StillMapped DEF SaveRefundResult, RealFact, legVars
    <2>5. CASE \/ LeaseExpires(r)
               \/ \E state \in {"accepted", "refused"} : ProviderDecides(r, state)
               \/ \E v \in Actual[r] : ProviderPays(r, v)
               \/ \E q \in Query : ReadRefund(r, q) \/ ClaimRefundQuery(r, q)
               \/ \E c \in Caller : \/ \E a \in Answer : ReceiveAnswer(r, c, a)
                                    \/ LoseCall(r, c)
      BY <2>5, StillMapped DEF LeaseExpires, ProviderDecides, ProviderPays, ReadRefund,
                               ClaimRefundQuery, ReceiveAnswer, LoseCall, legVars
    <2>6. QED BY <1>2, <2>2, <2>3, <2>4, <2>5 DEF CallStep
  <1>3. ASSUME NEW d \in Dispute, DisputeStep(d) PROVE UNCHANGED <<leg, booked>>
    BY <1>3 DEF DisputeStep, RecordChargeback, RestrictChargeback, RecoverChargeback,
                ResolveChargeback, legVars
  <1>4. CASE UNCHANGED vars
    BY <1>4, StillMapped DEF vars, legVars
  <1>5. QED BY <1>1, <1>2, <1>3, <1>4, StillMapped DEF Next

(* RefinesDebt for any number of refunds, payments, routes and queries: a  *)
(* refund is reduced by payments that happened, each counted once, and by  *)
(* nothing else, however the calls and the people who pay overtake each    *)
(* other.                                                                  *)
THEOREM ImplementsDebt == Spec => RefinesDebt
  <1>1. Init => Debt!Init
    <2>1. ASSUME Init
          PROVE  /\ State = [r \in Refund |-> "none"] /\ PaidUp = [r \in Refund |-> 0]
                 /\ Lost = [r \in Refund |-> 0] /\ booked = [r \in Refund |-> {}]
      <3>1. ASSUME NEW r \in Refund
            PROVE  /\ leg[r].case = "none" /\ leg[r].settled = 0
                   /\ leg[r].excess + leg[r].misdirected = 0
        <4>1. /\ leg[r].case = "none" /\ leg[r].settled = 0
              /\ leg[r].excess = 0 /\ leg[r].misdirected = 0
          BY <2>1 DEF Init
        <4>2. QED BY <4>1
      <3>2. State = [r \in Refund |-> "none"]
        BY <3>1 DEF State, StateOf
      <3>3. PaidUp = [r \in Refund |-> 0] /\ Lost = [r \in Refund |-> 0]
        BY <3>1 DEF PaidUp, Lost
      <3>4. QED BY <2>1, <3>2, <3>3 DEF Init
    <2>2. QED BY <2>1, Zenon DEF Debt!Init, State, StateOf, PaidUp, Lost
  <1>2. QED BY <1>1, InitInv, NextInv, NextDebt, PTL DEF Spec, RefinesDebt, Debt!Spec

-----------------------------------------------------------------------------
(* The books agree.  Every payment of a refund is in its sums, and what a  *)
(* receipt covers is a sum of what each refund holds and was promised and  *)
(* of what each dispute froze or declared invalid.                         *)
PaymentsSplit(r) ==
  /\ booked[r] \subseteq Transfer \cup {r} /\ IsFiniteSet(booked[r])
  /\ r \in booked[r] => remote[r].state = "paid"
  /\ SumFunctionOnSet(Payments(r), booked[r])
       = leg[r].settled + leg[r].excess + leg[r].misdirected

DisputeRow ==
  [state : {"none", "disputed", "invalid_payment", "merchant_collection_risk", "reversed"},
   restricted : BOOLEAN, recovered : BOOLEAN, frozen : Nat]
DisputesSound ==
  /\ dispute \in [Dispute -> DisputeRow]
  /\ \A d \in Dispute :
       /\ dispute[d].state /= "disputed" => ~dispute[d].restricted
       /\ ~dispute[d].restricted => dispute[d].frozen = 0

ReceiptsCovered ==
  /\ balance \in [Receipt -> Int]
  /\ \A x \in Receipt : Available(x) >= 0 /\ Promised(x) + Invalid(x) <= Gross[x]

BooksInv == /\ \A r \in Refund : PaymentsSplit(r)
            /\ DisputesSound /\ ReceiptsCovered

(* What one refund, or one dispute, contributes to its receipt.            *)
PromisedBy == [r \in Refund |->
  IF capacity[r].state \in {"reserved", "completed"} THEN Amount[r] ELSE 0]
OpenBy == [r \in Refund |->
  IF capacity[r].state = "reserved" THEN Amount[r] - capacity[r].completed ELSE 0]
FrozenBy == [d \in Dispute |->
  IF dispute[d].state = "disputed" THEN dispute[d].frozen ELSE 0]
InvalidBy == [d \in Dispute |->
  IF dispute[d].state = "invalid_payment" THEN Claim[d] ELSE 0]
AtReceipt(x) == {d \in Dispute : At[d] = x}

LEMMA ReceiptSets ==
  ASSUME NEW x
  PROVE  IsFiniteSet(OfReceipt(x)) /\ IsFiniteSet(AtReceipt(x))
  BY TablesAssumption, FS_Subset, OfReceipt(x) \subseteq Refund, AtReceipt(x) \subseteq Dispute
  DEF OfReceipt, AtReceipt

(* A sum over the rows in some state is a sum over all rows in which the   *)
(* others count nothing.                                                   *)
LEMMA SumOfSome ==
  ASSUME NEW f, NEW g, NEW S, IsFiniteSet(S), NEW R, R \subseteq S,
         \A i \in R : f[i] = g[i] /\ g[i] \in Int, \A i \in S \ R : g[i] = 0
  PROVE  SumFunctionOnSet(f, R) = SumFunctionOnSet(g, S)
  <1>1. IsFiniteSet(R)
    BY FS_Subset
  <1>2. SumFunctionOnSet(f, R) = SumFunctionOnSet(g, R)
    BY <1>1, SumSame
  <1>3. SumFunctionOnSet(g, R) = SumFunctionOnSet(g, S)
    BY SumWithoutZeros
  <1>4. QED BY <1>2, <1>3

LEMMA ContributionTypes ==
  ASSUME LegsSound, DisputesSound
  PROVE  /\ \A r \in Refund : /\ leg[r].hold \in Nat /\ LegHold[r] = leg[r].hold
                              /\ PromisedBy[r] \in Nat /\ OpenBy[r] \in Int
                              /\ CompletedOf[r] = capacity[r].completed
                              /\ capacity[r].completed \in Nat
                              /\ OpenBy[r] + CompletedOf[r] = PromisedBy[r]
         /\ \A d \in Dispute : FrozenBy[d] \in Nat /\ InvalidBy[d] \in Nat
  <1>1. ASSUME NEW r \in Refund
        PROVE  /\ leg[r].hold \in Nat /\ LegHold[r] = leg[r].hold
               /\ PromisedBy[r] \in Nat /\ OpenBy[r] \in Int
               /\ CompletedOf[r] = capacity[r].completed /\ capacity[r].completed \in Nat
               /\ OpenBy[r] + CompletedOf[r] = PromisedBy[r]
    <2>1. /\ leg[r] \in Leg /\ capacity[r] \in Capacity
          /\ Sound(leg[r], capacity[r], Amount[r]) /\ Amount[r] \in Nat \ {0}
      BY LegOf, AmountIsPositive
    <2>2. leg[r].hold \in Nat /\ capacity[r].completed \in Nat
      BY <2>1, Numbers
    <2>3. capacity[r].state = "completed" => capacity[r].completed = Amount[r]
      BY <2>1 DEF Sound, Books
    <2>4. capacity[r].state \in {"none", "released"} => capacity[r].completed = 0
      BY <2>1 DEF Sound, Books, Stage, NotInstructed
    <2>5. capacity[r].state \in {"none", "reserved", "completed", "released"}
      BY <2>1 DEF Capacity
    <2>6. /\ LegHold[r] = leg[r].hold /\ CompletedOf[r] = capacity[r].completed
          /\ PromisedBy[r] = (IF capacity[r].state \in {"reserved", "completed"}
                              THEN Amount[r] ELSE 0)
          /\ OpenBy[r] = (IF capacity[r].state = "reserved"
                          THEN Amount[r] - capacity[r].completed ELSE 0)
      BY DEF LegHold, CompletedOf, PromisedBy, OpenBy
    <2>7. QED BY <2>1, <2>2, <2>3, <2>4, <2>5, <2>6
  <1>2. ASSUME NEW d \in Dispute PROVE FrozenBy[d] \in Nat /\ InvalidBy[d] \in Nat
    BY AmountsAssumption DEF FrozenBy, InvalidBy, DisputesSound, DisputeRow
  <1>3. QED BY <1>1, <1>2

Covers(x) ==
  /\ Available(x) = balance[x] - SumFunctionOnSet(LegHold, OfReceipt(x))
                               - SumFunctionOnSet(FrozenBy, AtReceipt(x))
  /\ Promised(x) = SumFunctionOnSet(PromisedBy, OfReceipt(x))
  /\ Invalid(x) = SumFunctionOnSet(InvalidBy, AtReceipt(x))
  /\ Reserved(x) + Completed(x) = Promised(x)
  /\ SumFunctionOnSet(LegHold, OfReceipt(x)) \in Nat
  /\ SumFunctionOnSet(FrozenBy, AtReceipt(x)) \in Nat
  /\ Promised(x) \in Nat /\ Invalid(x) \in Nat
  /\ Reserved(x) \in Int /\ Completed(x) \in Int

LEMMA SumsOfReceipts == LegsSound /\ DisputesSound => \A x \in Receipt : Covers(x)
  <1> SUFFICES ASSUME LegsSound, DisputesSound, NEW x \in Receipt PROVE Covers(x)
    OBVIOUS
  <1> DEFINE R == OfReceipt(x)
             D == AtReceipt(x)
  <1>1. IsFiniteSet(R) /\ IsFiniteSet(D) /\ R \subseteq Refund /\ D \subseteq Dispute
    BY ReceiptSets DEF OfReceipt, AtReceipt
  <1>2. /\ \A r \in R : /\ LegHold[r] \in Nat /\ PromisedBy[r] \in Nat /\ OpenBy[r] \in Int
                        /\ CompletedOf[r] \in Int
                        /\ PromisedBy[r] = OpenBy[r] + CompletedOf[r]
        /\ \A d \in D : FrozenBy[d] \in Nat /\ InvalidBy[d] \in Nat
    BY <1>1, ContributionTypes
  <1>3. SumFunctionOnSet(Frozen, Disputes(x, {"disputed"})) = SumFunctionOnSet(FrozenBy, D)
    <2> DEFINE S == Disputes(x, {"disputed"})
    <2>1. S \subseteq D
      BY DEF Disputes, AtReceipt
    <2>2. /\ \A d \in S : Frozen[d] = FrozenBy[d] /\ FrozenBy[d] \in Int
          /\ \A d \in D \ S : FrozenBy[d] = 0
      BY <1>2 DEF Frozen, FrozenBy, Disputes, AtReceipt
    <2>3. QED BY <1>1, <2>1, <2>2, SumOfSome
  <1>4. Invalid(x) = SumFunctionOnSet(InvalidBy, D)
    <2> DEFINE S == Disputes(x, {"invalid_payment"})
    <2>1. S \subseteq D
      BY DEF Disputes, AtReceipt
    <2>2. /\ \A d \in S : Claim[d] = InvalidBy[d] /\ InvalidBy[d] \in Int
          /\ \A d \in D \ S : InvalidBy[d] = 0
      BY <1>2 DEF InvalidBy, Disputes, AtReceipt
    <2>3. SumFunctionOnSet(Claim, S) = SumFunctionOnSet(InvalidBy, D)
      BY <1>1, <2>1, <2>2, SumOfSome
    <2>4. QED BY <2>3 DEF Invalid
  <1>5. Promised(x) = SumFunctionOnSet(PromisedBy, R)
    <2> DEFINE S == {r \in R : capacity[r].state \in {"reserved", "completed"}}
    <2>1. S \subseteq R
      OBVIOUS
    <2>2. /\ \A r \in S : Amount[r] = PromisedBy[r] /\ PromisedBy[r] \in Int
          /\ \A r \in R \ S : PromisedBy[r] = 0
      BY <1>1, <1>2 DEF PromisedBy
    <2>3. SumFunctionOnSet(Amount, S) = SumFunctionOnSet(PromisedBy, R)
      BY <1>1, <2>1, <2>2, SumOfSome
    <2>4. QED BY <2>3 DEF Promised
  <1>6. Reserved(x) = SumFunctionOnSet(OpenBy, R)
    <2> DEFINE S == {r \in R : capacity[r].state = "reserved"}
    <2>1. S \subseteq R
      OBVIOUS
    <2>2. /\ \A r \in S : OpenOf[r] = OpenBy[r] /\ OpenBy[r] \in Int
          /\ \A r \in R \ S : OpenBy[r] = 0
      BY <1>1, <1>2 DEF OpenBy, OpenOf
    <2>3. SumFunctionOnSet(OpenOf, S) = SumFunctionOnSet(OpenBy, R)
      BY <1>1, <2>1, <2>2, SumOfSome
    <2>4. QED BY <2>3 DEF Reserved
  <1>7. /\ SumFunctionOnSet(LegHold, R) \in Nat /\ SumFunctionOnSet(FrozenBy, D) \in Nat
        /\ SumFunctionOnSet(PromisedBy, R) \in Nat /\ SumFunctionOnSet(InvalidBy, D) \in Nat
    BY <1>1, <1>2, SumNat
  <1>8. SumFunctionOnSet(OpenBy, R) \in Int /\ Completed(x) \in Int
    BY <1>1, <1>2, SumInt DEF Completed
  <1>9. SumFunctionOnSet(PromisedBy, R) = SumFunctionOnSet(OpenBy, R) + Completed(x)
    <2>1. \A r \in R : /\ OpenBy[r] \in Int /\ CompletedOf[r] \in Int
                       /\ PromisedBy[r] = OpenBy[r] + CompletedOf[r]
      BY <1>2
    <2>2. QED BY <1>1, <2>1, SumPlus DEF Completed
  <1>10. Available(x) = balance[x] - SumFunctionOnSet(LegHold, R) - SumFunctionOnSet(FrozenBy, D)
    BY <1>3 DEF Available
  <1>11. QED BY <1>4, <1>5, <1>6, <1>7, <1>8, <1>9, <1>10 DEF Covers

LEMMA SumsOfReceiptsNext ==
  (LegsSound /\ DisputesSound => \A x \in Receipt : Covers(x))'
  BY SumsOfReceipts, PTL

Contributions ==
  /\ \A r \in Refund : LegHold[r] \in Nat /\ PromisedBy[r] \in Nat
  /\ \A d \in Dispute : FrozenBy[d] \in Nat /\ InvalidBy[d] \in Nat
LEMMA ContributionsTyped == LegsSound /\ DisputesSound => Contributions
  BY ContributionTypes DEF Contributions
LEMMA ContributionsTypedNext == (LegsSound /\ DisputesSound => Contributions)'
  BY ContributionsTyped, PTL

(* One refund moves: its hold and what it paid out of the receipt stay     *)
(* within what is available, and a new promise within what remains.        *)
LEMMA RefundMoves ==
  ASSUME LegsSound, LegsSound', DisputesSound, ReceiptsCovered, UNCHANGED dispute,
         NEW r \in Refund, NEW p \in Nat,
         balance' = [balance EXCEPT ![On[r]] = @ - p],
         \A s \in Refund \ {r} : LegHold'[s] = LegHold[s] /\ PromisedBy'[s] = PromisedBy[s],
         LegHold'[r] + p <= LegHold[r] + Available(On[r]),
         PromisedBy'[r] + Promised(On[r]) + Invalid(On[r]) <= PromisedBy[r] + Gross[On[r]]
  PROVE  ReceiptsCovered'
  <1>1. DisputesSound'
    BY DEF DisputesSound
  <1>2. On[r] \in Receipt /\ balance \in [Receipt -> Int]
    BY RefundsAssumption DEF ReceiptsCovered
  <1>3. Contributions /\ Contributions'
    BY <1>1, ContributionsTyped, ContributionsTypedNext
  <1>4. UNCHANGED <<FrozenBy, InvalidBy>>
    BY DEF FrozenBy, InvalidBy
  <1>5. ASSUME NEW x \in Receipt
        PROVE  Available(x)' >= 0 /\ (Promised(x) + Invalid(x) <= Gross[x])'
    <2> DEFINE R == OfReceipt(x)
               D == AtReceipt(x)
               held == SumFunctionOnSet(LegHold, R)
               promised == SumFunctionOnSet(PromisedBy, R)
               frozen == SumFunctionOnSet(FrozenBy, D)
               invalid == SumFunctionOnSet(InvalidBy, D)
    <2>1. IsFiniteSet(R) /\ R \subseteq Refund /\ UNCHANGED <<R, D>>
      BY ReceiptSets DEF OfReceipt, AtReceipt
    <2>2. /\ Available(x) = balance[x] - held - frozen /\ Promised(x) = promised
          /\ Invalid(x) = invalid /\ held \in Nat /\ frozen \in Nat
          /\ promised \in Nat /\ invalid \in Nat
      BY SumsOfReceipts DEF Covers
    <2>3. /\ Available(x)' = balance'[x] - held' - frozen' /\ Promised(x)' = promised'
          /\ Invalid(x)' = invalid' /\ held' \in Nat /\ promised' \in Nat
      BY <1>1, SumsOfReceiptsNext DEF Covers
    <2>4. frozen' = frozen /\ invalid' = invalid
      BY <1>4, <2>1
    <2>5. \A s \in R : /\ LegHold[s] \in Int /\ LegHold'[s] \in Int
                       /\ PromisedBy[s] \in Int /\ PromisedBy'[s] \in Int
      BY <1>3, <2>1 DEF Contributions
    <2>6. CASE On[r] = x
      <3>1. r \in R
        BY <2>6 DEF OfReceipt
      <3>2. /\ held' = held + LegHold'[r] - LegHold[r]
            /\ promised' = promised + PromisedBy'[r] - PromisedBy[r]
        <4>1. /\ SumFunctionOnSet(LegHold', R) = held + LegHold'[r] - LegHold[r]
              /\ SumFunctionOnSet(PromisedBy', R) = promised + PromisedBy'[r] - PromisedBy[r]
          BY <2>1, <2>5, <3>1, SumChange
        <4>2. QED BY <2>1, <4>1
      <3>3. balance'[x] = balance[x] - p /\ balance[x] \in Int
        BY <1>2, <2>6
      <3>4. Available(x) >= 0 /\ Promised(x) + Invalid(x) <= Gross[x] /\ Gross[x] \in Nat
        BY AmountsAssumption DEF ReceiptsCovered
      <3>5. /\ LegHold[r] \in Nat /\ LegHold'[r] \in Nat
            /\ PromisedBy[r] \in Nat /\ PromisedBy'[r] \in Nat
        BY <1>3 DEF Contributions
      <3> HIDE DEF held, promised, frozen, invalid
      <3>6. Available(x)' >= 0
        BY <2>2, <2>3, <2>4, <2>6, <3>2, <3>3, <3>4, <3>5
      <3>7. Promised(x)' + Invalid(x)' <= Gross[x]
        BY <2>2, <2>3, <2>4, <2>6, <3>2, <3>4, <3>5
      <3>8. QED BY <3>6, <3>7
    <2>7. CASE On[r] /= x
      <3>1. r \notin R
        BY <2>7 DEF OfReceipt
      <3>2. held' = held /\ promised' = promised
        <4>1. \A s \in R : LegHold'[s] = LegHold[s] /\ PromisedBy'[s] = PromisedBy[s]
          BY <2>1, <3>1
        <4>2. /\ SumFunctionOnSet(LegHold', R) = held
              /\ SumFunctionOnSet(PromisedBy', R) = promised
          BY <2>1, <4>1, SumSame
        <4>3. QED BY <2>1, <4>2
      <3>3. balance'[x] = balance[x]
        BY <1>2, <2>7
      <3>4. Available(x) >= 0 /\ Promised(x) + Invalid(x) <= Gross[x]
        BY DEF ReceiptsCovered
      <3> HIDE DEF held, promised, frozen, invalid
      <3>5. QED BY <2>2, <2>3, <2>4, <3>2, <3>3, <3>4
    <2>8. QED BY <2>6, <2>7
  <1>6. QED BY <1>2, <1>5 DEF ReceiptsCovered

(* One dispute moves.                                                      *)
LEMMA DisputeMoves ==
  ASSUME LegsSound, DisputesSound, DisputesSound', ReceiptsCovered,
         UNCHANGED <<leg, capacity>>,
         NEW d \in Dispute, NEW p \in Nat,
         balance' = [balance EXCEPT ![At[d]] = @ - p],
         \A e \in Dispute \ {d} : FrozenBy'[e] = FrozenBy[e] /\ InvalidBy'[e] = InvalidBy[e],
         FrozenBy'[d] + p <= FrozenBy[d] + Available(At[d]),
         InvalidBy'[d] + Promised(At[d]) + Invalid(At[d]) <= InvalidBy[d] + Gross[At[d]]
  PROVE  ReceiptsCovered'
  <1>1. LegsSound'
    BY DEF LegsSound
  <1>2. At[d] \in Receipt /\ balance \in [Receipt -> Int]
    BY RefundsAssumption DEF ReceiptsCovered
  <1>3. Contributions /\ Contributions'
    BY <1>1, ContributionsTyped, ContributionsTypedNext
  <1>4. UNCHANGED <<LegHold, PromisedBy>>
    BY DEF LegHold, PromisedBy
  <1>5. ASSUME NEW x \in Receipt
        PROVE  Available(x)' >= 0 /\ (Promised(x) + Invalid(x) <= Gross[x])'
    <2> DEFINE R == OfReceipt(x)
               D == AtReceipt(x)
               held == SumFunctionOnSet(LegHold, R)
               promised == SumFunctionOnSet(PromisedBy, R)
               frozen == SumFunctionOnSet(FrozenBy, D)
               invalid == SumFunctionOnSet(InvalidBy, D)
    <2>1. IsFiniteSet(D) /\ D \subseteq Dispute /\ UNCHANGED <<R, D>>
      BY ReceiptSets DEF OfReceipt, AtReceipt
    <2>2. /\ Available(x) = balance[x] - held - frozen /\ Promised(x) = promised
          /\ Invalid(x) = invalid /\ held \in Nat /\ frozen \in Nat
          /\ promised \in Nat /\ invalid \in Nat
      BY SumsOfReceipts DEF Covers
    <2>3. /\ Available(x)' = balance'[x] - held' - frozen' /\ Promised(x)' = promised'
          /\ Invalid(x)' = invalid' /\ frozen' \in Nat /\ invalid' \in Nat
      BY <1>1, SumsOfReceiptsNext DEF Covers
    <2>4. held' = held /\ promised' = promised
      BY <1>4, <2>1
    <2>5. \A e \in D : /\ FrozenBy[e] \in Int /\ FrozenBy'[e] \in Int
                       /\ InvalidBy[e] \in Int /\ InvalidBy'[e] \in Int
      BY <1>3, <2>1 DEF Contributions
    <2>6. CASE At[d] = x
      <3>1. d \in D
        BY <2>6 DEF AtReceipt
      <3>2. /\ frozen' = frozen + FrozenBy'[d] - FrozenBy[d]
            /\ invalid' = invalid + InvalidBy'[d] - InvalidBy[d]
        <4>1. /\ SumFunctionOnSet(FrozenBy', D) = frozen + FrozenBy'[d] - FrozenBy[d]
              /\ SumFunctionOnSet(InvalidBy', D) = invalid + InvalidBy'[d] - InvalidBy[d]
          BY <2>1, <2>5, <3>1, SumChange
        <4>2. QED BY <2>1, <4>1
      <3>3. balance'[x] = balance[x] - p /\ balance[x] \in Int
        BY <1>2, <2>6
      <3>4. Available(x) >= 0 /\ Promised(x) + Invalid(x) <= Gross[x] /\ Gross[x] \in Nat
        BY AmountsAssumption DEF ReceiptsCovered
      <3>5. /\ FrozenBy[d] \in Nat /\ FrozenBy'[d] \in Nat
            /\ InvalidBy[d] \in Nat /\ InvalidBy'[d] \in Nat
        BY <1>3 DEF Contributions
      <3> HIDE DEF held, promised, frozen, invalid
      <3>6. Available(x)' >= 0
        BY <2>2, <2>3, <2>4, <2>6, <3>2, <3>3, <3>4, <3>5
      <3>7. Promised(x)' + Invalid(x)' <= Gross[x]
        BY <2>2, <2>3, <2>4, <2>6, <3>2, <3>4, <3>5
      <3>8. QED BY <3>6, <3>7
    <2>7. CASE At[d] /= x
      <3>1. d \notin D
        BY <2>7 DEF AtReceipt
      <3>2. frozen' = frozen /\ invalid' = invalid
        <4>1. \A e \in D : FrozenBy'[e] = FrozenBy[e] /\ InvalidBy'[e] = InvalidBy[e]
          BY <2>1, <3>1
        <4>2. /\ SumFunctionOnSet(FrozenBy', D) = frozen
              /\ SumFunctionOnSet(InvalidBy', D) = invalid
          BY <2>1, <4>1, SumSame
        <4>3. QED BY <2>1, <4>2
      <3>3. balance'[x] = balance[x]
        BY <1>2, <2>7
      <3>4. Available(x) >= 0 /\ Promised(x) + Invalid(x) <= Gross[x]
        BY DEF ReceiptsCovered
      <3> HIDE DEF held, promised, frozen, invalid
      <3>5. QED BY <2>2, <2>3, <2>4, <3>2, <3>3, <3>4
    <2>8. QED BY <2>6, <2>7
  <1>6. QED BY <1>2, <1>5 DEF ReceiptsCovered

(* The steps of a dispute.                                                 *)
LEMMA DisputeStepBooks ==
  ASSUME IInv, DisputesSound, ReceiptsCovered, NEW d \in Dispute, DisputeStep(d)
  PROVE  DisputesSound' /\ ReceiptsCovered'
  <1> DEFINE x == At[d]
  <1>1. /\ LegsSound /\ UNCHANGED <<leg, capacity>> /\ balance \in [Receipt -> Int]
        /\ x \in Receipt /\ dispute[d] \in DisputeRow /\ Claim[d] \in Nat \ {0}
    BY AmountsAssumption, RefundsAssumption
    DEF IInv, DisputesSound, ReceiptsCovered, DisputeStep, RecordChargeback,
        RestrictChargeback, RecoverChargeback, ResolveChargeback, legVars
  <1>2. /\ Available(x) \in Int /\ Available(x) >= 0 /\ Promised(x) \in Nat
        /\ Invalid(x) \in Nat /\ Promised(x) + Invalid(x) <= Gross[x] /\ Gross[x] \in Nat
        /\ FrozenBy[d] \in Nat /\ InvalidBy[d] \in Nat
    <2>1. /\ Available(x) \in Int /\ Promised(x) \in Nat /\ Invalid(x) \in Nat
      BY <1>1, SumsOfReceipts DEF Covers
    <2>2. Available(x) >= 0 /\ Promised(x) + Invalid(x) <= Gross[x] /\ Gross[x] \in Nat
      BY <1>1, AmountsAssumption DEF ReceiptsCovered
    <2>3. QED BY <1>1, <2>1, <2>2, ContributionTypes
  \* what every kind of step has to show of the dispute it changes
  <1>3. ASSUME NEW w \in DisputeRow, dispute' = [dispute EXCEPT ![d] = w], NEW p \in Nat,
               balance' = [balance EXCEPT ![x] = @ - p],
               w.state /= "disputed" => ~w.restricted, ~w.restricted => w.frozen = 0,
               (IF w.state = "disputed" THEN w.frozen ELSE 0) + p
                 <= FrozenBy[d] + Available(x),
               (IF w.state = "invalid_payment" THEN Claim[d] ELSE 0)
                 + Promised(x) + Invalid(x) <= InvalidBy[d] + Gross[x]
        PROVE  DisputesSound' /\ ReceiptsCovered'
    <2>1. DisputesSound'
      BY <1>3 DEF DisputesSound
    <2>2. /\ \A e \in Dispute \ {d} : FrozenBy'[e] = FrozenBy[e] /\ InvalidBy'[e] = InvalidBy[e]
          /\ FrozenBy'[d] = IF w.state = "disputed" THEN w.frozen ELSE 0
          /\ InvalidBy'[d] = IF w.state = "invalid_payment" THEN Claim[d] ELSE 0
      BY <1>3 DEF FrozenBy, InvalidBy, DisputesSound
    <2>3. /\ FrozenBy'[d] + p <= FrozenBy[d] + Available(x)
          /\ InvalidBy'[d] + Promised(x) + Invalid(x) <= InvalidBy[d] + Gross[x]
      BY <1>3, <2>2
    <2>4. QED BY <1>1, <1>3, <2>1, <2>2, <2>3, DisputeMoves
  <1>4. /\ FrozenBy[d] = IF dispute[d].state = "disputed" THEN dispute[d].frozen ELSE 0
        /\ InvalidBy[d] = IF dispute[d].state = "invalid_payment" THEN Claim[d] ELSE 0
        /\ dispute[d].frozen \in Nat
    BY <1>1 DEF FrozenBy, InvalidBy, DisputeRow
  <1>5. UNCHANGED balance => balance' = [balance EXCEPT ![x] = @ - 0]
    BY <1>1
  <1>6. CASE RecordChargeback(d)
    <2> DEFINE w == [dispute[d] EXCEPT !.state = "disputed"]
    <2>1. /\ dispute[d].state = "none" /\ dispute' = [dispute EXCEPT ![d] = w]
          /\ UNCHANGED balance
      BY <1>6 DEF RecordChargeback, legVars
    <2>2. /\ w \in DisputeRow /\ w.state = "disputed" /\ w.restricted = dispute[d].restricted
          /\ w.frozen = dispute[d].frozen
      BY <1>1 DEF DisputeRow
    <2>3. ~dispute[d].restricted /\ dispute[d].frozen = 0
      BY <2>1 DEF DisputesSound
    <2> HIDE DEF w
    <2>4. /\ (IF w.state = "disputed" THEN w.frozen ELSE 0) + 0 <= FrozenBy[d] + Available(x)
          /\ (IF w.state = "invalid_payment" THEN Claim[d] ELSE 0)
               + Promised(x) + Invalid(x) <= InvalidBy[d] + Gross[x]
      <3>1. FrozenBy[d] = w.frozen
        BY <1>4, <2>1, <2>2, <2>3
      <3>2. QED BY <1>2, <2>2, <3>1
    <2>5. balance' = [balance EXCEPT ![x] = @ - 0]
      BY <1>5, <2>1
    <2>6. (w.state /= "disputed" => ~w.restricted) /\ (~w.restricted => w.frozen = 0)
      BY <2>2, <2>3
    <2>7. QED BY <1>3, <2>1, <2>2, <2>4, <2>5, <2>6
  <1>7. CASE RecoverChargeback(d)
    <2> DEFINE w == [dispute[d] EXCEPT !.recovered = TRUE]
    <2>1. /\ dispute[d].state = "disputed" /\ dispute' = [dispute EXCEPT ![d] = w]
          /\ UNCHANGED balance
      BY <1>7 DEF RecoverChargeback, legVars
    <2>2. /\ w \in DisputeRow /\ w.state = "disputed" /\ w.restricted = dispute[d].restricted
          /\ w.frozen = dispute[d].frozen
      BY <1>1, <2>1 DEF DisputeRow
    <2>3. ~dispute[d].restricted => dispute[d].frozen = 0
      BY DEF DisputesSound
    <2> HIDE DEF w
    <2>4. /\ (IF w.state = "disputed" THEN w.frozen ELSE 0) + 0 <= FrozenBy[d] + Available(x)
          /\ (IF w.state = "invalid_payment" THEN Claim[d] ELSE 0)
               + Promised(x) + Invalid(x) <= InvalidBy[d] + Gross[x]
      <3>1. FrozenBy[d] = w.frozen
        BY <1>4, <2>1, <2>2, <2>3
      <3>2. QED BY <1>2, <2>2, <3>1
    <2>5. balance' = [balance EXCEPT ![x] = @ - 0]
      BY <1>5, <2>1
    <2>6. QED BY <1>3, <2>1, <2>2, <2>3, <2>4, <2>5
  <1>8. CASE RestrictChargeback(d)
    <2> DEFINE n == (Available(x) * Claim[d]) \div Basis(x)
               w == [dispute[d] EXCEPT !.restricted = TRUE, !.frozen = n]
    <2>1. /\ dispute[d].state = "disputed" /\ ~dispute[d].restricted
          /\ 0 < Basis(x) /\ Claim[d] <= Basis(x) /\ UNCHANGED balance
          /\ dispute' = [dispute EXCEPT ![d] = w]
      BY <1>8 DEF RestrictChargeback, legVars
    <2>2. n \in Nat /\ n <= Available(x)
      <3>1. Basis(x) \in Int
        <4>1. Restricted(x) \subseteq AtReceipt(x) /\ AtReceipt(x) \subseteq Dispute
          BY DEF Restricted, Disputes, AtReceipt
        <4>2. IsFiniteSet(Restricted(x)) /\ \A e \in Restricted(x) : Claim[e] \in Int
          BY <4>1, ReceiptSets, FS_Subset, AmountsAssumption
        <4>3. SumFunctionOnSet(Claim, Restricted(x)) \in Int
          BY <4>2, SumInt
        <4>4. Completed(x) \in Int
          BY <1>1, SumsOfReceipts DEF Covers
        <4>5. QED BY <1>2, <4>3, <4>4 DEF Basis
      <3>2. \A a, c, b \in Int : 0 <= a /\ 0 < c /\ c <= b =>
              (a * c) \div b \in Nat /\ (a * c) \div b <= a
        <4>1. ASSUME NEW a \in Int, NEW c \in Int, NEW b \in Int, 0 <= a, 0 < c, c <= b
              PROVE  (a * c) \div b \in Nat /\ (a * c) \div b <= a
          <5>1. a * c <= a * b /\ 0 <= a * c
            BY <4>1
          <5>2. QED BY <4>1, <5>1
        <4>2. QED BY <4>1
      <3>3. QED BY <1>1, <1>2, <2>1, <3>1, <3>2
    <2> HIDE DEF n
    <2>3. /\ w \in DisputeRow /\ w.state = "disputed" /\ w.restricted = TRUE /\ w.frozen = n
      BY <1>1, <2>1, <2>2 DEF DisputeRow
    <2>4. dispute[d].frozen = 0
      BY <2>1 DEF DisputesSound
    <2> HIDE DEF w
    <2>5. /\ (IF w.state = "disputed" THEN w.frozen ELSE 0) + 0 <= FrozenBy[d] + Available(x)
          /\ (IF w.state = "invalid_payment" THEN Claim[d] ELSE 0)
               + Promised(x) + Invalid(x) <= InvalidBy[d] + Gross[x]
      BY <1>2, <2>2, <2>3
    <2>6. balance' = [balance EXCEPT ![x] = @ - 0]
      BY <1>5, <2>1
    <2>7. QED BY <1>3, <2>1, <2>3, <2>5, <2>6
  <1>9. ASSUME NEW as \in {"invalid_payment", "merchant_collection_risk", "reversed"},
               ResolveChargeback(d, as)
        PROVE  DisputesSound' /\ ReceiptsCovered'
    <2> DEFINE w == [state |-> as, restricted |-> FALSE, recovered |-> FALSE, frozen |-> 0]
               p == IF as = "invalid_payment" THEN dispute[d].frozen ELSE 0
    <2>1. /\ dispute[d].state = "disputed" /\ dispute' = [dispute EXCEPT ![d] = w]
          /\ balance' = [balance EXCEPT ![x] = @ - p]
          /\ as = "invalid_payment" => Promised(x) + Invalid(x) + Claim[d] <= Gross[x]
      BY <1>9 DEF ResolveChargeback
    <2>2. /\ w \in DisputeRow /\ w.state = as /\ w.state /= "disputed"
          /\ ~w.restricted /\ w.frozen = 0
      BY DEF DisputeRow
    <2>3. p \in Nat /\ p <= FrozenBy[d]
      <3>1. FrozenBy[d] = dispute[d].frozen
        BY <1>4, <2>1
      <3> HIDE DEF w
      <3>2. CASE as = "invalid_payment"
        BY <1>4, <3>1, <3>2
      <3>3. CASE as /= "invalid_payment"
        BY <1>2, <3>3
      <3>4. QED BY <3>2, <3>3
    <2>4. (IF w.state = "invalid_payment" THEN Claim[d] ELSE 0)
            + Promised(x) + Invalid(x) <= InvalidBy[d] + Gross[x]
      <3> HIDE DEF w, p
      <3>1. Claim[d] \in Nat
        BY <1>1
      <3>2. CASE as = "invalid_payment"
        BY <1>2, <2>1, <2>2, <3>1, <3>2
      <3>3. CASE as /= "invalid_payment"
        BY <1>2, <2>2, <3>3
      <3>4. QED BY <3>2, <3>3
    <2> HIDE DEF w, p
    <2>5. (IF w.state = "disputed" THEN w.frozen ELSE 0) + p <= FrozenBy[d] + Available(x)
      BY <1>2, <2>2, <2>3
    <2>6. QED BY <1>3, <2>1, <2>2, <2>3, <2>4, <2>5
  <1>10. QED BY <1>6, <1>7, <1>8, <1>9 DEF DisputeStep

(* The steps of a refund.  What its receipt still covers changes with its  *)
(* hold, its capacity and the balance alone.                               *)
LEMMA CoverStays ==
  ASSUME ReceiptsCovered, UNCHANGED <<LegHold, capacity, balance, dispute>>
  PROVE  ReceiptsCovered'
  BY DEF ReceiptsCovered, Available, Promised, Invalid, OfReceipt, Disputes, Frozen

LEMMA HoldStays ==
  ASSUME LegsSound, ReceiptsCovered, NEW r \in Refund, NEW m, m.hold = leg[r].hold,
         leg' = [leg EXCEPT ![r] = m], UNCHANGED <<capacity, balance, dispute>>
  PROVE  ReceiptsCovered'
  <1>1. UNCHANGED LegHold
    BY DEF LegHold, LegsSound
  <1>2. QED BY <1>1, CoverStays

LEMMA RefundBooks ==
  ASSUME LegsSound, LegsSound', DisputesSound, ReceiptsCovered, UNCHANGED dispute,
         NEW r \in Refund, NEW p \in Nat, NEW m, NEW d,
         leg' = [leg EXCEPT ![r] = m], capacity' = [capacity EXCEPT ![r] = d],
         balance' = [balance EXCEPT ![On[r]] = @ - p],
         m.hold + p <= leg[r].hold + Available(On[r]),
         \/ d.state \notin {"reserved", "completed"}
         \/ capacity[r].state \in {"reserved", "completed"}
         \/ Amount[r] + Promised(On[r]) + Invalid(On[r]) <= Gross[On[r]]
  PROVE  ReceiptsCovered'
  <1> DEFINE x == On[r]
  <1>1. /\ leg \in [Refund -> Leg] /\ capacity \in [Refund -> Capacity] /\ x \in Receipt
    BY RefundsAssumption DEF LegsSound
  <1>2. /\ \A s \in Refund \ {r} : LegHold'[s] = LegHold[s] /\ PromisedBy'[s] = PromisedBy[s]
        /\ LegHold'[r] = m.hold /\ LegHold[r] = leg[r].hold
        /\ PromisedBy'[r] = IF d.state \in {"reserved", "completed"} THEN Amount[r] ELSE 0
        /\ PromisedBy[r] = IF capacity[r].state \in {"reserved", "completed"}
                           THEN Amount[r] ELSE 0
    BY <1>1 DEF LegHold, PromisedBy
  <1>3. /\ Promised(x) \in Nat /\ Invalid(x) \in Nat /\ Gross[x] \in Nat
        /\ Promised(x) + Invalid(x) <= Gross[x] /\ Amount[r] \in Nat
    BY <1>1, SumsOfReceipts, AmountsAssumption DEF Covers, ReceiptsCovered
  <1>4. PromisedBy'[r] + Promised(x) + Invalid(x) <= PromisedBy[r] + Gross[x]
    <2>1. CASE d.state \notin {"reserved", "completed"}
      <3>1. PromisedBy'[r] = 0 /\ PromisedBy[r] \in Nat
        BY <1>2, <1>3, <2>1
      <3>2. QED BY <1>3, <3>1
    <2>2. CASE capacity[r].state \in {"reserved", "completed"}
      <3>1. PromisedBy'[r] \in {0, Amount[r]} /\ PromisedBy[r] = Amount[r]
        BY <1>2, <2>2
      <3>2. QED BY <1>3, <3>1
    <2>3. CASE Amount[r] + Promised(x) + Invalid(x) <= Gross[x]
      <3>1. PromisedBy'[r] \in {0, Amount[r]} /\ PromisedBy[r] \in Nat
        BY <1>2, <1>3
      <3>2. QED BY <1>3, <2>3, <3>1
    <2>4. QED BY <2>1, <2>2, <2>3
  <1>5. LegHold'[r] + p <= LegHold[r] + Available(x)
    BY <1>2
  <1>6. QED BY <1>2, <1>4, <1>5, RefundMoves

LEMMA RequestBooks ==
  ASSUME IInv, IInv', DisputesSound, ReceiptsCovered, NEW r \in Refund, RequestRefund(r)
  PROVE  ReceiptsCovered'
  <1> DEFINE x == On[r]
             m == [leg[r] EXCEPT !.case = "pending_review", !.state = "reserved",
                                 !.hold = Amount[r]]
             d == [capacity[r] EXCEPT !.state = "reserved"]
  <1>1. /\ leg' = [leg EXCEPT ![r] = m] /\ capacity' = [capacity EXCEPT ![r] = d]
        /\ UNCHANGED <<balance, dispute>>
        /\ Amount[r] <= Remaining(x) /\ Amount[r] <= Available(x)
    BY DEF RequestRefund
  <1>2. /\ LegsSound /\ LegsSound' /\ x \in Receipt /\ leg[r] \in Leg
        /\ balance \in [Receipt -> Int]
    BY RefundsAssumption DEF IInv, LegsSound, ReceiptsCovered
  <1>3. m.hold = Amount[r] /\ leg[r].hold \in Nat
    BY <1>2 DEF Leg
  <1>4. /\ Promised(x) \in Nat /\ Invalid(x) \in Nat /\ Gross[x] \in Nat
        /\ Reserved(x) + Completed(x) = Promised(x) /\ Available(x) \in Int
        /\ Reserved(x) \in Int /\ Completed(x) \in Int /\ Amount[r] \in Nat
    BY <1>2, SumsOfReceipts, AmountsAssumption DEF Covers
  <1> HIDE DEF m, d
  <1>5. Amount[r] + Promised(x) + Invalid(x) <= Gross[x]
    <2>1. Amount[r] <= Gross[x] - Reserved(x) - Completed(x) - Invalid(x)
      BY <1>1 DEF Remaining
    <2>2. QED BY <1>4, <2>1
  <1>6. m.hold + 0 <= leg[r].hold + Available(x)
    BY <1>1, <1>3, <1>4
  <1>7. balance' = [balance EXCEPT ![x] = @ - 0]
    BY <1>1, <1>2
  <1>8. QED BY <1>1, <1>2, <1>5, <1>6, <1>7, RefundBooks

LEMMA CancelBooks ==
  ASSUME IInv, IInv', DisputesSound, ReceiptsCovered, NEW r \in Refund,
         NEW state \in {"rejected", "cancelled"}, CancelRefund(r, state)
  PROVE  ReceiptsCovered'
  <1> DEFINE x == On[r]
             m == [leg[r] EXCEPT !.case = state, !.state = "cancelled", !.hold = 0]
             d == [capacity[r] EXCEPT !.state = "released"]
  <1>1. /\ leg' = [leg EXCEPT ![r] = m] /\ capacity' = [capacity EXCEPT ![r] = d]
        /\ UNCHANGED <<balance, dispute>>
    BY DEF CancelRefund
  <1>2. /\ LegsSound /\ LegsSound' /\ x \in Receipt /\ leg[r] \in Leg
        /\ capacity[r] \in Capacity
        /\ balance \in [Receipt -> Int] /\ Available(x) >= 0
    BY RefundsAssumption DEF IInv, LegsSound, ReceiptsCovered
  <1>3. m.hold = 0 /\ leg[r].hold \in Nat /\ d.state = "released"
    BY <1>2 DEF Leg, Capacity
  <1>4. Available(x) \in Int
    BY <1>2, SumsOfReceipts DEF Covers
  <1> HIDE DEF m, d
  <1>5. m.hold + 0 <= leg[r].hold + Available(x) /\ d.state \notin {"reserved", "completed"}
    BY <1>2, <1>3, <1>4
  <1>6. balance' = [balance EXCEPT ![x] = @ - 0]
    BY <1>1, <1>2
  <1>7. QED BY <1>1, <1>2, <1>5, <1>6, RefundBooks

(* What a payment settles leaves the hold and the balance together, and    *)
(* the whole of it is in the sums of the leg.                              *)
LEMMA PaymentMoves ==
  ASSUME NEW l \in Leg, NEW c \in Capacity, NEW a \in Nat \ {0}, Sound(l, c, a),
         ~NotInstructed(l), NEW v \in Nat \ {0}
  PROVE  LET m == AfterPayment(l, c, a, v)
             d == Reduced(c, a, v)
             p == Part(c, a, v)
         IN  /\ p \in Nat /\ m.hold + p = l.hold /\ c.state \in {"reserved", "completed"}
             /\ m.settled + m.excess + m.misdirected
                  = l.settled + l.excess + l.misdirected + v
  <1> DEFINE m == AfterPayment(l, c, a, v)
             d == Reduced(c, a, v)
             p == Part(c, a, v)
  <1>1. /\ m \in Leg /\ d \in Capacity /\ Sound(m, d, a) /\ m.settled = l.settled + p
        /\ m.excess + m.misdirected = l.excess + l.misdirected + v - p
    BY SettledFacts
  <1>2. l.settled = c.completed /\ l.settled <= a
    BY DEF Sound, Books
  <1>3. p \in Nat
    BY <1>2, Numbers DEF Part, Least
  <1>4. c.state \notin {"none", "released"}
    BY DEF Sound, Stage, Books, NotInstructed
  <1>5. c.state \in {"reserved", "completed"}
    BY <1>4 DEF Capacity
  <1>6. d.state \in {"completed", c.state}
    BY DEF Reduced
  <1> HIDE DEF m, d, p
  <1>7. m.hold = a - m.settled
    <2>1. CASE d.state = "reserved"
      BY <1>1, <2>1 DEF Sound, Books
    <2>2. CASE d.state = "completed"
      BY <1>1, <2>2, Numbers DEF Sound, Books
    <2>3. QED BY <1>5, <1>6, <2>1, <2>2
  <1>8. l.hold = a - l.settled
    <2>1. CASE c.state = "reserved"
      BY <2>1 DEF Sound, Books
    <2>2. CASE c.state = "completed"
      BY <2>2, Numbers DEF Sound, Books
    <2>3. QED BY <1>5, <2>1, <2>2
  <1>9. m.hold + p = l.hold
    BY <1>1, <1>3, <1>7, <1>8, Numbers
  <1>10. m.settled + m.excess + m.misdirected = l.settled + l.excess + l.misdirected + v
    BY <1>1, <1>3, Numbers
  <1>11. QED BY <1>3, <1>5, <1>9, <1>10 DEF m, d, p

(* The payments of a refund.                                               *)
LEMMA PaymentsStay ==
  ASSUME \A s \in Refund : PaymentsSplit(s), UNCHANGED booked,
         \A s \in Refund : /\ leg'[s].settled = leg[s].settled
                           /\ leg'[s].excess = leg[s].excess
                           /\ leg'[s].misdirected = leg[s].misdirected
                           /\ remote[s].state = "paid" => remote'[s] = remote[s]
  PROVE  \A s \in Refund : PaymentsSplit(s)'
  <1> SUFFICES ASSUME NEW s \in Refund PROVE PaymentsSplit(s)'
    OBVIOUS
  <1>1. /\ booked[s] \subseteq Transfer \cup {s} /\ IsFiniteSet(booked[s])
        /\ s \in booked[s] => remote[s].state = "paid" /\ remote'[s] = remote[s]
    BY DEF PaymentsSplit
  <1>2. SumFunctionOnSet(Payments(s), booked[s]) = SumFunctionOnSet(Payments(s)', booked[s])
    <2>1. \A e \in booked[s] : Payments(s)[e] = Payments(s)'[e]
      BY <1>1 DEF Payments
    <2>2. QED BY <1>1, <2>1, SumSame
  <1>3. SumFunctionOnSet(Payments(s)', booked'[s])
          = leg'[s].settled + leg'[s].excess + leg'[s].misdirected
    BY <1>2 DEF PaymentsSplit
  <1>4. QED BY <1>1, <1>3 DEF PaymentsSplit

LEMMA PaymentValues ==
  ASSUME FactsAreReal, NEW s \in Refund, NEW B, B \subseteq Transfer \cup {s},
         s \in B => remote[s].state = "paid"
  PROVE  \A e \in B : Payments(s)[e] \in Nat
  BY AmountsAssumption DEF Payments, FactsAreReal, Remote

LEMMA PaymentAdded ==
  ASSUME \A s \in Refund : PaymentsSplit(s), LegsSound, FactsAreReal, UNCHANGED remote,
         NEW r \in Refund, NEW e \in Transfer \cup {r}, NotBooked(e),
         e = r => remote[r].state = "paid",
         booked \in [Refund -> SUBSET (Transfer \cup Refund)],
         booked' = [booked EXCEPT ![r] = @ \cup {e}],
         NEW m, leg' = [leg EXCEPT ![r] = m],
         m.settled + m.excess + m.misdirected
           = leg[r].settled + leg[r].excess + leg[r].misdirected + Payments(r)[e]
  PROVE  \A s \in Refund : PaymentsSplit(s)'
  <1>1. \A s : Payments(s)' = Payments(s)
    BY DEF Payments
  <1>2. ASSUME NEW s \in Refund \ {r} PROVE PaymentsSplit(s)'
    <2>1. /\ booked'[s] = booked[s] /\ leg'[s] = leg[s] /\ remote'[s] = remote[s]
          /\ Payments(s)' = Payments(s) /\ PaymentsSplit(s)
      BY <1>1, <1>2 DEF LegsSound
    <2>2. QED BY <2>1 DEF PaymentsSplit
  <1>3. PaymentsSplit(r)'
    <2> DEFINE B == booked[r]
    <2>1. /\ B \subseteq Transfer \cup {r} /\ IsFiniteSet(B) /\ e \notin B
          /\ r \in B => remote[r].state = "paid"
          /\ booked'[r] = B \cup {e} /\ leg'[r] = m
          /\ SumFunctionOnSet(Payments(r), B)
               = leg[r].settled + leg[r].excess + leg[r].misdirected
      BY DEF PaymentsSplit, NotBooked, LegsSound
    <2>2. /\ B \cup {e} \subseteq Transfer \cup {r} /\ IsFiniteSet(B \cup {e})
          /\ r \in B \cup {e} => remote[r].state = "paid"
      BY <2>1, FS_AddElement
    <2>3. \A i \in B \cup {e} : Payments(r)[i] \in Nat
      BY <2>2, PaymentValues
    <2>4. SumFunctionOnSet(Payments(r), B \cup {e})
            = Payments(r)[e] + SumFunctionOnSet(Payments(r), B)
      <3>1. \A i \in B \cup {e} : Payments(r)[i] \in Int
        BY <2>3
      <3>2. QED BY <2>1, <3>1, SumAdd
    <2>5. /\ leg[r].settled \in Nat /\ leg[r].excess \in Nat /\ leg[r].misdirected \in Nat
          /\ Payments(r)[e] \in Nat
      BY <2>3, LegOf, Numbers
    <2>6. SumFunctionOnSet(Payments(r), B \cup {e}) = m.settled + m.excess + m.misdirected
      BY <2>1, <2>4, <2>5
    <2>7. /\ SumFunctionOnSet(Payments(r)', booked'[r])
               = leg'[r].settled + leg'[r].excess + leg'[r].misdirected
          /\ booked'[r] = B \cup {e} /\ remote'[r] = remote[r]
      BY <1>1, <2>1, <2>6
    <2> HIDE DEF B
    <2>8. QED BY <2>2, <2>7 DEF PaymentsSplit
  <1>4. QED BY <1>2, <1>3

(* A payment is booked, for the leg or astray.                             *)
LEMMA SettleBooks ==
  ASSUME IInv, LegsSound', BooksInv, UNCHANGED <<remote, dispute>>,
         NEW r \in Refund, NEW l \in Leg, l.settled = leg[r].settled,
         l.excess = leg[r].excess, l.misdirected = leg[r].misdirected, l.hold = leg[r].hold,
         Sound(l, capacity[r], Amount[r]), ~NotInstructed(l),
         NEW e \in Transfer \cup {r}, NotBooked(e), e = r => remote[r].state = "paid",
         NEW v \in Nat \ {0}, v = Payments(r)[e], Settle(r, l, e, v)
  PROVE  (\A s \in Refund : PaymentsSplit(s)') /\ ReceiptsCovered'
  <1> DEFINE x == On[r]
             c == capacity[r]
             m == AfterPayment(l, c, Amount[r], v)
             d == Reduced(c, Amount[r], v)
             p == Part(c, Amount[r], v)
  <1>1. /\ leg' = [leg EXCEPT ![r] = m] /\ capacity' = [capacity EXCEPT ![r] = d]
        /\ booked' = [booked EXCEPT ![r] = @ \cup {e}]
        /\ balance' = [balance EXCEPT ![x] = @ - p]
    BY DEF Settle, SettledBy, AfterPayment, Reduced, Part, Open
  <1>2. /\ LegsSound /\ x \in Receipt /\ c \in Capacity /\ Amount[r] \in Nat \ {0}
        /\ booked \in [Refund -> SUBSET (Transfer \cup Refund)]
        /\ DisputesSound /\ ReceiptsCovered /\ FactsAreReal
        /\ \A s \in Refund : PaymentsSplit(s)
    BY RefundsAssumption, AmountIsPositive DEF IInv, BooksInv, LegsSound, CountedOnce
  <1>3. /\ p \in Nat /\ m.hold + p = l.hold /\ c.state \in {"reserved", "completed"}
        /\ m.settled + m.excess + m.misdirected
             = l.settled + l.excess + l.misdirected + v
    BY <1>2, PaymentMoves
  <1> HIDE DEF m, d, p
  <1>4. m.hold + p <= leg[r].hold + Available(x)
    <2>1. Available(x) \in Int /\ Available(x) >= 0 /\ leg[r].hold \in Nat
      BY <1>2, SumsOfReceipts, LegOf, Numbers DEF Covers, ReceiptsCovered
    <2>2. QED BY <1>3, <2>1
  <1>5. ReceiptsCovered'
    BY <1>1, <1>2, <1>3, <1>4, RefundBooks
  <1>6. \A s \in Refund : PaymentsSplit(s)'
    <2>1. m.settled + m.excess + m.misdirected
            = leg[r].settled + leg[r].excess + leg[r].misdirected + Payments(r)[e]
      BY <1>3
    <2>2. QED BY <1>1, <1>2, <2>1, PaymentAdded
  <1>7. QED BY <1>5, <1>6

LEMMA MisdirectBooks ==
  ASSUME IInv, BooksInv, UNCHANGED <<remote, dispute>>,
         NEW r \in Refund, NEW e \in Transfer, NotBooked(e), Misdirect(r, e, Value[e])
  PROVE  (\A s \in Refund : PaymentsSplit(s)') /\ ReceiptsCovered'
  <1> DEFINE m == [leg[r] EXCEPT !.case = "exception", !.state = "exception",
                                 !.misdirected = leg[r].misdirected + Value[e]]
  <1>1. /\ leg' = [leg EXCEPT ![r] = m] /\ UNCHANGED <<capacity, balance>>
        /\ booked' = [booked EXCEPT ![r] = @ \cup {e}]
    BY DEF Misdirect
  <1>2. /\ LegsSound /\ leg[r] \in Leg /\ Value[e] \in Nat \ {0}
        /\ booked \in [Refund -> SUBSET (Transfer \cup Refund)]
        /\ ReceiptsCovered /\ FactsAreReal /\ \A s \in Refund : PaymentsSplit(s)
    BY LegOf, TransferValue DEF IInv, BooksInv, CountedOnce
  <1>3. /\ m.settled = leg[r].settled /\ m.hold = leg[r].hold /\ m.excess = leg[r].excess
        /\ m.misdirected = leg[r].misdirected + Value[e]
    BY <1>2 DEF Leg
  <1>4. e /= r /\ Payments(r)[e] = Value[e]
    BY RefundsAssumption DEF Payments
  <1> HIDE DEF m
  <1>5. ReceiptsCovered'
    BY <1>1, <1>2, <1>3, HoldStays
  <1>6. m.settled + m.excess + m.misdirected
          = leg[r].settled + leg[r].excess + leg[r].misdirected + Payments(r)[e]
    BY <1>2, <1>3, <1>4, LegOf, Numbers
  <1>7. \A s \in Refund : PaymentsSplit(s)'
    BY <1>1, <1>2, <1>4, <1>6, PaymentAdded
  <1>8. QED BY <1>5, <1>7

(* A refund is instructed, reported on or closed.                          *)
LEMMA InstructBooks ==
  ASSUME IInv, BooksInv, NEW r \in Refund, NEW m, leg' = [leg EXCEPT ![r] = m],
         m.hold = leg[r].hold, m.settled = leg[r].settled, m.excess = leg[r].excess,
         m.misdirected = leg[r].misdirected,
         UNCHANGED <<capacity, booked, balance, dispute>>,
         \A s \in Refund : remote[s].state = "paid" => remote'[s] = remote[s]
  PROVE  BooksInv'
  <1>1. ReceiptsCovered' /\ DisputesSound'
    BY HoldStays DEF IInv, BooksInv, DisputesSound
  <1>2. \A s \in Refund : /\ leg'[s].settled = leg[s].settled
                          /\ leg'[s].excess = leg[s].excess
                          /\ leg'[s].misdirected = leg[s].misdirected
    BY DEF IInv, LegsSound
  <1>3. \A s \in Refund : PaymentsSplit(s)'
    BY <1>2, PaymentsStay DEF BooksInv
  <1>4. QED BY <1>1, <1>3 DEF BooksInv

(* A call goes on, and nothing is booked.                                  *)
LEMMA CallsBooks ==
  ASSUME BooksInv, UNCHANGED <<legVars, dispute>>,
         \A s \in Refund : remote[s].state = "paid" => remote'[s] = remote[s]
  PROVE  BooksInv'
  <1>1. ReceiptsCovered' /\ DisputesSound'
    BY CoverStays DEF BooksInv, DisputesSound, legVars, LegHold
  <1>2. \A s \in Refund : PaymentsSplit(s)'
    BY PaymentsStay DEF BooksInv, legVars
  <1>3. QED BY <1>1, <1>2 DEF BooksInv

LEMMA CaseBooks ==
  ASSUME IInv, IInv', BooksInv, NEW r \in Refund, CaseStep(r) PROVE BooksInv'
  <1>1. /\ LegsSound /\ leg[r] \in Leg /\ DisputesSound /\ ReceiptsCovered
        /\ \A s \in Refund : PaymentsSplit(s)
    BY LegOf DEF IInv, BooksInv
  <1>2. UNCHANGED <<remote, dispute>>
    BY DEF CaseStep, RequestRefund, ApproveRefund, CancelRefund, AuthorizeRefundDestination,
           BeginManualRefund, MarkRefundUnknown, RecordManualRefundFailure,
           CloseRefundExecution, RecordManualRefund, RecordClosedRefund,
           RecordExternalRefund, callVars
  <1>3. DisputesSound'
    BY <1>1, <1>2 DEF DisputesSound
  <1>4. CASE RequestRefund(r)
    <2>1. UNCHANGED booked
      BY <1>4 DEF RequestRefund
    <2>2. ReceiptsCovered'
      BY <1>1, <1>4, RequestBooks
    <2>3. \A s \in Refund : /\ leg'[s].settled = leg[s].settled
                            /\ leg'[s].excess = leg[s].excess
                            /\ leg'[s].misdirected = leg[s].misdirected
      <3> DEFINE m == [leg[r] EXCEPT !.case = "pending_review", !.state = "reserved", !.hold = Amount[r]]
      <3>1. leg' = [leg EXCEPT ![r] = m] /\ leg \in [Refund -> Leg]
        BY <1>1, <1>4 DEF RequestRefund, LegsSound
      <3>2. /\ m.settled = leg[r].settled /\ m.excess = leg[r].excess
            /\ m.misdirected = leg[r].misdirected
        BY <1>1 DEF Leg
      <3> HIDE DEF m
      <3>3. QED BY <3>1, <3>2
    <2>4. QED BY <1>1, <1>2, <1>3, <2>1, <2>2, <2>3, PaymentsStay DEF BooksInv
  <1>5. ASSUME NEW state \in {"rejected", "cancelled"}, CancelRefund(r, state)
        PROVE  BooksInv'
    <2>1. UNCHANGED booked
      BY <1>5 DEF CancelRefund
    <2>2. ReceiptsCovered'
      BY <1>1, <1>5, CancelBooks
    <2>3. \A s \in Refund : /\ leg'[s].settled = leg[s].settled
                            /\ leg'[s].excess = leg[s].excess
                            /\ leg'[s].misdirected = leg[s].misdirected
      <3> DEFINE m == [leg[r] EXCEPT !.case = state, !.state = "cancelled", !.hold = 0]
      <3>1. leg' = [leg EXCEPT ![r] = m] /\ leg \in [Refund -> Leg]
        BY <1>1, <1>5 DEF CancelRefund, LegsSound
      <3>2. /\ m.settled = leg[r].settled /\ m.excess = leg[r].excess
            /\ m.misdirected = leg[r].misdirected
        BY <1>1 DEF Leg
      <3> HIDE DEF m
      <3>3. QED BY <3>1, <3>2
    <2>4. QED BY <1>1, <1>2, <1>3, <2>1, <2>2, <2>3, PaymentsStay DEF BooksInv
  <1>6. CASE AuthorizeRefundDestination(r)
    <2>1. UNCHANGED legVars
      BY <1>6 DEF AuthorizeRefundDestination
    <2>2. QED BY <1>2, <2>1, CallsBooks
  <1>7. CASE ApproveRefund(r)
    <2> DEFINE m == [leg[r] EXCEPT !.case = "approved", !.state = "approved"]
    <2>1. leg' = [leg EXCEPT ![r] = m] /\ UNCHANGED <<capacity, booked, balance>>
      BY <1>7 DEF ApproveRefund
    <2>2. /\ m.hold = leg[r].hold /\ m.settled = leg[r].settled
          /\ m.excess = leg[r].excess /\ m.misdirected = leg[r].misdirected
      BY <1>1 DEF Leg
    <2> HIDE DEF m
    <2>3. QED BY <1>2, <2>1, <2>2, InstructBooks
  <1>8. CASE BeginManualRefund(r)
    <2>1. /\ leg' = [leg EXCEPT ![r] = Begun(r, "manual")]
          /\ UNCHANGED <<capacity, booked, balance>>
      BY <1>8 DEF BeginManualRefund
    <2>2. QED BY <1>1, <1>2, <2>1, BegunFields, InstructBooks
  <1>9. CASE MarkRefundUnknown(r)
    <2> DEFINE m == [leg[r] EXCEPT !.state = "unknown"]
    <2>1. leg' = [leg EXCEPT ![r] = m] /\ UNCHANGED <<capacity, booked, balance>>
      BY <1>9 DEF MarkRefundUnknown
    <2>2. /\ m.hold = leg[r].hold /\ m.settled = leg[r].settled
          /\ m.excess = leg[r].excess /\ m.misdirected = leg[r].misdirected
      BY <1>1 DEF Leg
    <2> HIDE DEF m
    <2>3. QED BY <1>2, <2>1, <2>2, InstructBooks
  <1>10. CASE RecordManualRefundFailure(r)
    <2> DEFINE m == [leg[r] EXCEPT !.case = "exception", !.state = "exception"]
    <2>1. leg' = [leg EXCEPT ![r] = m] /\ UNCHANGED <<capacity, booked, balance>>
      BY <1>10 DEF RecordManualRefundFailure
    <2>2. /\ m.hold = leg[r].hold /\ m.settled = leg[r].settled
          /\ m.excess = leg[r].excess /\ m.misdirected = leg[r].misdirected
      BY <1>1 DEF Leg
    <2> HIDE DEF m
    <2>3. QED BY <1>2, <2>1, <2>2, InstructBooks
  <1>11. CASE CloseRefundExecution(r)
    <2> DEFINE m == [leg[r] EXCEPT !.case = "paying", !.state = "approved", !.mode = "",
                                   !.version = leg[r].version + 1]
    <2>1. leg' = [leg EXCEPT ![r] = m]
      BY <1>11 DEF CloseRefundExecution
    <2>2. UNCHANGED <<capacity, booked, balance>>
      BY <1>11 DEF CloseRefundExecution
    <2>3. /\ m.hold = leg[r].hold /\ m.settled = leg[r].settled
          /\ m.excess = leg[r].excess /\ m.misdirected = leg[r].misdirected
      BY <1>1 DEF Leg
    <2> HIDE DEF m
    <2>4. QED BY <1>2, <2>1, <2>2, <2>3, InstructBooks
  <1>12. ASSUME NEW t \in Transfer, RecordManualRefund(r, t) \/ RecordClosedRefund(r, t)
         PROVE  BooksInv'
    <2>1. PICK l \in Leg :
              /\ l.settled = leg[r].settled /\ l.excess = leg[r].excess
              /\ l.misdirected = leg[r].misdirected /\ ~NotInstructed(l)
              /\ l.hold = leg[r].hold
              /\ Sound(l, capacity[r], Amount[r]) /\ Settle(r, l, t, Value[t])
      BY <1>12, ManualInv
    <2>2. /\ NotBooked(t) /\ Value[t] \in Nat \ {0} /\ Value[t] = Payments(r)[t] /\ t /= r
          /\ LegsSound'
      BY <1>12, ManualInv, TransferValue, RefundsAssumption DEF Payments, IInv
    <2>3. (\A s \in Refund : PaymentsSplit(s)') /\ ReceiptsCovered'
      BY <1>2, <2>1, <2>2, SettleBooks
    <2>4. QED BY <1>3, <2>3 DEF BooksInv
  <1>13. ASSUME NEW t \in Transfer, RecordExternalRefund(r, t) PROVE BooksInv'
    <2>1. /\ NotBooked(t) /\ ~NotInstructed(leg[r])
          /\ Misdirect(r, t, Value[t]) \/ Settle(r, leg[r], t, Value[t])
      BY <1>13, ExternalInv
    <2>2. CASE Misdirect(r, t, Value[t])
      <3>1. (\A s \in Refund : PaymentsSplit(s)') /\ ReceiptsCovered'
        BY <1>2, <2>1, <2>2, MisdirectBooks
      <3>2. QED BY <1>3, <3>1 DEF BooksInv
    <2>3. CASE Settle(r, leg[r], t, Value[t])
      <3>1. /\ Value[t] \in Nat \ {0} /\ Value[t] = Payments(r)[t] /\ t /= r
            /\ LegsSound' /\ Sound(leg[r], capacity[r], Amount[r])
        BY LegOf, TransferValue, RefundsAssumption DEF Payments, IInv
      <3>2. (\A s \in Refund : PaymentsSplit(s)') /\ ReceiptsCovered'
        BY <1>1, <1>2, <2>1, <2>3, <3>1, SettleBooks
      <3>3. QED BY <1>3, <3>2 DEF BooksInv
    <2>4. QED BY <2>1, <2>2, <2>3
  <1>14. QED
    BY <1>4, <1>5, <1>6, <1>7, <1>8, <1>9, <1>10, <1>11, <1>12, <1>13 DEF CaseStep

LEMMA BookingBooks ==
  ASSUME IInv, IInv', BooksInv, NEW r \in Refund, BookRefund(r), remote[r].state = "paid",
         UNCHANGED <<remote, dispute>>
  PROVE  BooksInv'
  <1>1. \/ UNCHANGED legVars
        \/ /\ NotBooked(r) /\ ~NotInstructed(leg[r]) /\ remote[r].value \in Actual[r]
           /\ Settle(r, leg[r], r, remote[r].value)
    BY BookFacts
  <1>2. CASE UNCHANGED legVars
    BY <1>2, CallsBooks
  <1>3. CASE /\ NotBooked(r) /\ ~NotInstructed(leg[r]) /\ remote[r].value \in Actual[r]
             /\ Settle(r, leg[r], r, remote[r].value)
    <2>1. remote[r].value \in Nat \ {0} /\ remote[r].value = Payments(r)[r]
      BY <1>3, AmountsAssumption DEF Payments
    <2>2. leg[r] \in Leg /\ Sound(leg[r], capacity[r], Amount[r]) /\ LegsSound'
      BY LegOf DEF IInv
    <2>3. (\A s \in Refund : PaymentsSplit(s)') /\ ReceiptsCovered'
      BY <1>3, <2>1, <2>2, SettleBooks
    <2>4. DisputesSound'
      BY DEF BooksInv, DisputesSound
    <2>5. QED BY <2>3, <2>4 DEF BooksInv
  <1>4. QED BY <1>1, <1>2, <1>3

LEMMA CallBooks ==
  ASSUME IInv, IInv', BooksInv, NEW r \in Refund, CallStep(r) PROVE BooksInv'
  <1>1. RealFact(row[r], call[r], remote[r], Actual[r]) /\ remote \in [Refund -> Remote]
    BY CallFacts DEF IInv, FactsAreReal
  <1>2. CASE SubmitRefund(r)
    <2>1. /\ leg' = [leg EXCEPT ![r] = Begun(r, "provider")] /\ row[r].state = "none"
          /\ UNCHANGED <<capacity, booked, balance, dispute>>
          /\ remote' = [remote EXCEPT ![r].state = "sent"]
      BY <1>2 DEF SubmitRefund
    <2>2. remote[r].state = "none"
      BY <1>1, <2>1 DEF RealFact
    <2>3. \A s \in Refund : remote[s].state = "paid" => remote'[s] = remote[s]
      BY <1>1, <2>1, <2>2
    <2>4. leg[r] \in Leg
      BY LegOf DEF IInv
    <2>5. QED BY <2>1, <2>3, <2>4, BegunFields, InstructBooks
  <1>3. CASE ReplayFact(r)
    <2>1. BookRefund(r) /\ row[r].fact /\ UNCHANGED <<remote, dispute>>
      BY <1>3 DEF ReplayFact, Final
    <2>2. QED BY <1>1, <2>1, BookingBooks DEF RealFact
  <1>4. ASSUME NEW c \in Caller, SaveRefundResult(r, c) PROVE BooksInv'
    <2>1. /\ UNCHANGED <<remote, dispute>>
          /\ IF call[r][c] = "succeeded" THEN BookRefund(r) ELSE UNCHANGED legVars
      BY <1>4 DEF SaveRefundResult
    <2>2. CASE call[r][c] = "succeeded"
      BY <1>1, <2>1, <2>2, BookingBooks DEF RealFact
    <2>3. CASE call[r][c] /= "succeeded"
      BY <2>1, <2>3, CallsBooks
    <2>4. QED BY <2>2, <2>3
  <1>5. CASE \/ \E state \in {"accepted", "refused"} : ProviderDecides(r, state)
             \/ \E v \in Actual[r] : ProviderPays(r, v)
    <2>1. /\ UNCHANGED <<legVars, dispute>>
          /\ \A s \in Refund : remote[s].state = "paid" => remote'[s] = remote[s]
      BY <1>1, <1>5 DEF ProviderDecides, ProviderPays
    <2>2. QED BY <2>1, CallsBooks
  <1>6. CASE \/ LeaseExpires(r)
             \/ \E q \in Query : ReadRefund(r, q) \/ ClaimRefundQuery(r, q)
             \/ \E c \in Caller : \/ \E a \in Answer : ReceiveAnswer(r, c, a)
                                  \/ LoseCall(r, c)
    <2>1. UNCHANGED <<legVars, dispute, remote>>
      BY <1>6 DEF LeaseExpires, ReadRefund, ClaimRefundQuery, ReceiveAnswer, LoseCall
    <2>2. QED BY <2>1, CallsBooks
  <1>7. QED BY <1>2, <1>3, <1>4, <1>5, <1>6 DEF CallStep

LEMMA NextBooks == ASSUME IInv, BooksInv, [Next]_vars PROVE BooksInv'
  <1>1. IInv'
    BY NextInv
  <1>2. ASSUME NEW r \in Refund, CaseStep(r) \/ CallStep(r) PROVE BooksInv'
    BY <1>1, <1>2, CaseBooks, CallBooks
  <1>3. ASSUME NEW d \in Dispute, DisputeStep(d) PROVE BooksInv'
    <2>1. DisputesSound' /\ ReceiptsCovered'
      BY <1>3, DisputeStepBooks DEF BooksInv
    <2>2. UNCHANGED <<leg, booked, remote>>
      BY <1>3 DEF DisputeStep, RecordChargeback, RestrictChargeback, RecoverChargeback,
                  ResolveChargeback, legVars, callVars
    <2>3. \A s \in Refund : PaymentsSplit(s)'
      BY <2>2, PaymentsStay DEF BooksInv
    <2>4. QED BY <2>1, <2>3 DEF BooksInv
  <1>4. CASE UNCHANGED vars
    BY <1>4, CallsBooks DEF vars, callVars
  <1>5. QED BY <1>2, <1>3, <1>4 DEF Next

LEMMA InitBooks == Init => BooksInv
  <1> SUFFICES ASSUME Init PROVE BooksInv
    OBVIOUS
  <1>1. DisputesSound
    <2>1. dispute \in [Dispute -> DisputeRow]
      BY DEF Init, DisputeRow
    <2>2. QED BY <2>1 DEF Init, DisputesSound
  <1>2. ASSUME NEW r \in Refund PROVE PaymentsSplit(r)
    <2>1. /\ booked[r] = {} /\ leg[r].settled = 0 /\ leg[r].excess = 0
          /\ leg[r].misdirected = 0
      BY DEF Init
    <2>2. QED BY <2>1, SumEmpty, FS_EmptySet DEF PaymentsSplit
  <1>3. ReceiptsCovered
    <2>1. LegsSound /\ balance = Gross /\ Gross \in [Receipt -> Nat]
      BY InitInv, AmountsAssumption DEF IInv, Init
    <2>2. ASSUME NEW x \in Receipt
          PROVE  Available(x) >= 0 /\ Promised(x) + Invalid(x) <= Gross[x]
      <3>1. IsFiniteSet(OfReceipt(x)) /\ IsFiniteSet(AtReceipt(x))
        BY ReceiptSets
      <3>2. /\ \A r \in OfReceipt(x) : LegHold[r] = 0 /\ PromisedBy[r] = 0
            /\ \A d \in AtReceipt(x) : FrozenBy[d] = 0 /\ InvalidBy[d] = 0
        BY DEF Init, LegHold, PromisedBy, FrozenBy, InvalidBy, OfReceipt, AtReceipt
      <3>3. /\ SumFunctionOnSet(LegHold, OfReceipt(x)) = 0
            /\ SumFunctionOnSet(PromisedBy, OfReceipt(x)) = 0
            /\ SumFunctionOnSet(FrozenBy, AtReceipt(x)) = 0
            /\ SumFunctionOnSet(InvalidBy, AtReceipt(x)) = 0
        BY <3>1, <3>2, SumZero
      <3>4. /\ Available(x) = balance[x] - SumFunctionOnSet(LegHold, OfReceipt(x))
                                         - SumFunctionOnSet(FrozenBy, AtReceipt(x))
            /\ Promised(x) = SumFunctionOnSet(PromisedBy, OfReceipt(x))
            /\ Invalid(x) = SumFunctionOnSet(InvalidBy, AtReceipt(x))
        BY <1>1, <2>1, SumsOfReceipts DEF Covers
      <3>5. QED BY <2>1, <3>3, <3>4
    <2>3. QED BY <2>1, <2>2 DEF ReceiptsCovered
  <1>4. QED BY <1>1, <1>2, <1>3 DEF BooksInv

(* BooksAgree for any number of refunds, disputes and receipts: a leg, the *)
(* capacity of its receipt, its hold and the payments booked for it tell   *)
(* one story, and no receipt gives, or declares invalid, more than it      *)
(* brought.                                                                *)
THEOREM BooksAlwaysAgree == Spec => []BooksAgree
  <1>1. Spec => [](IInv /\ BooksInv)
    <2>1. Init => IInv /\ BooksInv
      BY InitInv, InitBooks
    <2>2. IInv /\ BooksInv /\ [Next]_vars => (IInv /\ BooksInv)'
      BY NextInv, NextBooks
    <2>3. QED BY <2>1, <2>2, PTL DEF Spec
  <1>2. IInv /\ BooksInv => BooksAgree
    <2> SUFFICES ASSUME IInv, BooksInv PROVE BooksAgree
      OBVIOUS
    <2>1. ASSUME NEW r \in Refund
          PROVE  LET l == leg[r]
                 IN /\ l.settled = capacity[r].completed /\ l.settled <= Amount[r]
                    /\ SumFunctionOnSet(Payments(r), booked[r])
                         = l.settled + l.excess + l.misdirected
                    /\ (capacity[r].state = "reserved") => (l.hold = Amount[r] - l.settled)
                    /\ (capacity[r].state /= "reserved") => (l.hold = 0)
                    /\ (capacity[r].state = "completed") <=> (l.settled = Amount[r])
      <3>1. Books(leg[r], capacity[r], Amount[r])
        BY LegOf DEF IInv, Sound
      <3>2. PaymentsSplit(r)
        BY DEF BooksInv
      <3>3. QED BY <3>1, <3>2, Zenon DEF Books, PaymentsSplit
    <2>2. \A r, s \in Refund : r /= s => booked[r] \cap booked[s] = {}
      BY DEF IInv, CountedOnce
    <2>3. \A x \in Receipt : Available(x) >= 0 /\ Promised(x) + Invalid(x) <= Gross[x]
      BY DEF BooksInv, ReceiptsCovered
    <2>4. QED BY <2>1, <2>2, <2>3, Zenon DEF BooksAgree
  <1>3. QED BY <1>1, <1>2, PTL
=============================================================================
