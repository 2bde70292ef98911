-------------------------------- MODULE Debt --------------------------------
(***************************************************************************)
(* What a refund promises, whichever way it is executed.  A debt is        *)
(* promised, may be withdrawn until an instruction to pay it was given,    *)
(* and is from then on reduced by payments that really happened and by     *)
(* nothing else.  Every payment counts once, for one debt; what it brings  *)
(* beyond the debt, or brings to somebody else, is lost to the payer and   *)
(* never taken from the receiver.                                          *)
(***************************************************************************)
EXTENDS Integers

CONSTANTS
  Debtor, Payment,
  Amount,   \* Amount[r]: the debt
  Worth     \* Worth[e]: what payment e may turn out to be worth

VARIABLES
  state,    \* state[r]: none, promised, due or withdrawn
  paid,     \* paid[r]: what reached the receiver of the debt
  lost,     \* lost[r]: what was paid beyond it
  counted   \* counted[r]: the payments that were counted for r
vars == <<state, paid, lost, counted>>

Init ==
  /\ state = [r \in Debtor |-> "none"]
  /\ paid = [r \in Debtor |-> 0] /\ lost = [r \in Debtor |-> 0]
  /\ counted = [r \in Debtor |-> {}]

Promise(r) ==
  /\ state[r] = "none" /\ state' = [state EXCEPT ![r] = "promised"]
  /\ UNCHANGED <<paid, lost, counted>>
Withdraw(r) ==
  /\ state[r] = "promised" /\ state' = [state EXCEPT ![r] = "withdrawn"]
  /\ UNCHANGED <<paid, lost, counted>>
Instruct(r) ==
  /\ state[r] = "promised" /\ state' = [state EXCEPT ![r] = "due"]
  /\ UNCHANGED <<paid, lost, counted>>

Least(a, b) == IF a < b THEN a ELSE b

(* The payment counts for the debt as far as the debt goes, or it went to  *)
(* somebody else and is lost.                                              *)
Pay(r, e) ==
  /\ \A s \in Debtor : e \notin counted[s]
  /\ counted' = [counted EXCEPT ![r] = @ \cup {e}]
  /\ state[r] \in {"promised", "due"}
  /\ state' = [state EXCEPT ![r] = "due"]
  /\ \E v \in Worth[e] : \E p \in {0, Least(v, Amount[r] - paid[r])} :
       /\ paid' = [paid EXCEPT ![r] = @ + p]
       /\ lost' = [lost EXCEPT ![r] = @ + v - p]

Next == \E r \in Debtor :
  Promise(r) \/ Withdraw(r) \/ Instruct(r) \/ \E e \in Payment : Pay(r, e)
Spec == Init /\ [][Next]_vars
=============================================================================
