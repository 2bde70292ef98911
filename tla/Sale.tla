-------------------------------- MODULE Sale --------------------------------
(***************************************************************************)
(* What a customer is promised about an order, whichever way it is paid    *)
(* and whoever stops half way.  An order is paid at most once; what was    *)
(* paid lies with the order until it is delivered or owed back, whole and  *)
(* once.  A cancelled order comes back with a payment only, a delivered or *)
(* refunded one never.  The customer's purse pays for deliveries only, and *)
(* never more than it has.                                                 *)
(***************************************************************************)
EXTENDS Integers

CONSTANTS
  Order,
  Offers,   \* Offers[o]: the terms o may be made for
  Wallet,   \* what the customer has at the start
  None

VARIABLES
  deal,     \* the terms of each order
  state,    \* none, open, paid, delivered, cancelled or refunded
  purse,    \* what the customer has
  earned,   \* what was sold
  escrow,   \* escrow[o]: what was paid for o and lies with it
  owed      \* owed[o]: what goes back to the payer
saleVars == <<deal, state, purse, earned, escrow, owed>>

SaleInit ==
  /\ deal = [o \in Order |-> None] /\ state = [o \in Order |-> "none"]
  /\ purse = Wallet /\ earned = 0
  /\ escrow = [o \in Order |-> 0] /\ owed = [o \in Order |-> 0]

Move(o, from, to) == state[o] \in from /\ state' = [state EXCEPT ![o] = to]

Ask(o, t) ==
  /\ Move(o, {"none"}, "open") /\ t.external > 0
  /\ deal' = [deal EXCEPT ![o] = t]
  /\ UNCHANGED <<purse, earned, escrow, owed>>

(* Paid from the purse alone, an order is delivered as it is made.         *)
Buy(o, t) ==
  /\ Move(o, {"none"}, "delivered") /\ t.external = 0 /\ t.internal <= purse
  /\ deal' = [deal EXCEPT ![o] = t]
  /\ purse' = purse - t.internal /\ earned' = earned + t.internal
  /\ UNCHANGED <<escrow, owed>>

Pay(o) ==
  /\ Move(o, {"open", "cancelled"}, "paid")
  /\ escrow' = [escrow EXCEPT ![o] = deal[o].external]
  /\ UNCHANGED <<deal, purse, earned, owed>>

Deliver(o) ==
  /\ Move(o, {"paid"}, "delivered")
  /\ escrow' = [escrow EXCEPT ![o] = 0]
  /\ IF deal[o].kind = "topup"
     THEN purse' = purse + escrow[o] /\ earned' = earned
     ELSE /\ deal[o].internal <= purse /\ purse' = purse - deal[o].internal
          /\ earned' = earned + (deal[o].internal + escrow[o])
  /\ UNCHANGED <<deal, owed>>

Cancel(o) ==
  /\ Move(o, {"open"}, "cancelled")
  /\ UNCHANGED <<deal, purse, earned, escrow, owed>>

Refund(o) ==
  /\ Move(o, {"paid"}, "refunded") /\ deal[o].kind = "package"
  /\ escrow' = [escrow EXCEPT ![o] = 0]
  /\ owed' = [owed EXCEPT ![o] = escrow[o]]
  /\ UNCHANGED <<deal, purse, earned>>

SaleNext ==
  \E o \in Order :
    \/ \E t \in Offers[o] : Ask(o, t) \/ Buy(o, t)
    \/ Pay(o) \/ Deliver(o) \/ Cancel(o) \/ Refund(o)
SaleSpec == SaleInit /\ [][SaleNext]_saleVars
=============================================================================
