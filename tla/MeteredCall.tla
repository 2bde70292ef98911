---------------------------- MODULE MeteredCall ----------------------------
(***************************************************************************)
(* What a customer is promised about a model request: once accepted it     *)
(* ends exactly once, either with a bill or free of charge.  A bill is     *)
(* written once; afterwards corrections may only lower it.  Who executes   *)
(* the request, how often it is retried and who settles it do not matter.  *)
(***************************************************************************)
EXTENDS Integers

CONSTANTS Request
VARIABLES phase, bill

TypeOK == /\ phase \in [Request -> {"none", "open", "charged", "free"}]
          /\ bill \in [Request -> Nat]

Init == /\ phase = [r \in Request |-> "none"]
        /\ bill = [r \in Request |-> 0]

Accept(r) == /\ phase[r] = "none"
             /\ phase' = [phase EXCEPT ![r] = "open"]
             /\ UNCHANGED bill
Charge(r) == /\ phase[r] = "open"
             /\ phase' = [phase EXCEPT ![r] = "charged"]
             /\ bill'[r] \in Nat /\ bill' = [bill EXCEPT ![r] = bill'[r]]
Waive(r) == /\ phase[r] = "open"
            /\ phase' = [phase EXCEPT ![r] = "free"]
            /\ UNCHANGED bill
Correct(r) == /\ phase[r] = "charged"
              /\ bill'[r] \in 0..bill[r] /\ bill' = [bill EXCEPT ![r] = bill'[r]]
              /\ UNCHANGED phase

Next == \E r \in Request : Accept(r) \/ Charge(r) \/ Waive(r) \/ Correct(r)
Spec == Init /\ [][Next]_<<phase, bill>>
=============================================================================
