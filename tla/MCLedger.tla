------------------------------ MODULE MCLedger ------------------------------
(* A small ledger for TLC: one operator with a customer wallet, a credit   *)
(* grant and their control accounts.                                       *)
EXTENDS Ledger, TLC

CONSTANTS opA, opB, money, atg,
          cash, wallet, credits, grant,
          k1, k2, k3, k4

MCOperator == {opA, opB}
MCUnit == {money, atg}
MCKey == {k1, k2, k3, k4}
MCAccount == {cash, wallet, credits, grant}
MCControl == {cash, credits}
MCOverdraw == {grant}
MCOperatorOf == [a \in MCAccount |-> opA]
MCUnitOf == [a \in MCAccount |-> IF a \in {cash, wallet} THEN money ELSE atg]

Line(a, x, b, y) == [c \in MCAccount |-> IF c = a THEN x ELSE IF c = b THEN y ELSE 0]
P(k, lines) == [operator |-> opA, key |-> k, lines |-> lines, original |-> {}]

MCPosting ==
  { P(k1, Line(wallet, 2, cash, -2)),
    P(k1, Line(grant, 2, credits, -2)),              \* same key, other lines
    P(k2, Line(grant, 2, credits, -2)),
    P(k3, Line(wallet, -1, cash, 1)),
    P(k3, Line(wallet, -2, cash, 2)),                \* beyond a hold of 1
    P(k4, Line(grant, -2, credits, 2)),              \* beyond a hold of 1
    P(k4, Line(grant, -1, credits, 1)),
    P(k4, Line(wallet, -1, grant, 1)),               \* unbalanced per unit
    [P(k4, Line(wallet, -1, cash, 1)) EXCEPT !.operator = opB],   \* out of scope
    [P(k4, Line(wallet, 1, cash, -1)) EXCEPT !.original = {<<opA, k3>>}] }

R(k, e, a, n) == [operator |-> opA, key |-> k, expires |-> e,
                  amounts |-> [c \in MCAccount |-> IF c = a THEN n ELSE 0]]
MCReservation == { R(k1, 1, wallet, 1), R(k2, 1, wallet, 1), R(k3, 2, grant, 1),
                   R(k3, 2, grant, 2) }
=============================================================================
