--------------------------- MODULE MCCommissions ---------------------------
(***************************************************************************)
(* Commissions for TLC: two events of one order, a commission of a half    *)
(* that has fractions to carry, two chargebacks that together claim more   *)
(* than one event, one withdrawal and one order paid from commission.      *)
(***************************************************************************)
EXTENDS Commissions

MCPaid   == <<3, 3>>
MCClaim  == <<3, 2>>
MCFix    == <<[event |-> 1, amount |-> 3]>>
MCAmount == [u \in Use |-> IF u \in Withdrawal THEN 2 ELSE 1]
=============================================================================
