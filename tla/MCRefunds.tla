------------------------------ MODULE MCRefunds -----------------------------
EXTENDS Refunds

CONSTANTS r1, r2, x1, t1, t2, d1

MCOn == [r \in Refund |-> x1]
MCAmount == [r \in Refund |-> IF r = r1 THEN 2 ELSE 1]
MCRoutes == [r \in Refund |-> IF r = r1 THEN 2 ELSE 1]
MCGross == [x \in Receipt |-> 3]
MCActual == [r \in Refund |-> IF r \in Api THEN {1, 3} ELSE {}]
MCValue == [t \in Transfer |-> IF t = t1 THEN 2 ELSE 1]
MCAt == [d \in Dispute |-> x1]
MCClaim == [d \in Dispute |-> 1]
=============================================================================
