--------------------------- MODULE CheckoutProofs ---------------------------
(***************************************************************************)
(* Proofs about the customer orders, for any orders, methods, amounts and  *)
(* limits.  The commitments and the money of an order follow its status,   *)
(* which is local to the order; the wallet, the holds and the campaign are *)
(* sums over the orders and change as the one order of a step does.  From  *)
(* what is true of every order it follows that each is a sale as Sale      *)
(* promises it.                                                            *)
(***************************************************************************)
EXTENDS Checkout, SumTheorems

Untouched == [status |-> "none", reason |-> "", internal |-> "none",
              coverage |-> "none", place |-> "none", allocated |-> 0]

(* The commitments of a row are all in the same state.                     *)
Keeps(row, t, status) ==
  /\ t.internal = 0 => row.internal = "none"
  /\ t.internal > 0 => /\ status = "reserved" => row.internal = "held"
                       /\ status = "released" => row.internal = "released"
                       /\ status = "fulfilled" => row.internal = "captured"
  /\ row.coverage = IF t.kind = "topup" THEN "none" ELSE status
  /\ row.place \in {"none", status}

(* The commitments follow the status.                                      *)
Committed(row, t) ==
  /\ row.reason /= "" <=> row.status = "exception"
  /\ row.status \in {"pending", "paid"} => Keeps(row, t, "reserved")
  /\ row.status = "closed" \/ row.reason = "restore" => Keeps(row, t, "released")
  /\ row.reason = "refund" =>
       t.kind = "package" /\ (Keeps(row, t, "reserved") \/ Keeps(row, t, "released"))
  /\ row.status = "completed" => Keeps(row, t, "fulfilled")

(* The payment follows the status: on the order, spent, or to be refunded. *)
Accounted(row, t, funded, owed, deliveries) ==
  /\ row.allocated \in {0, t.external}
  /\ t.kind = "topup" => t.internal = 0
  /\ row.status = "pending" => row.allocated = 0
  /\ row.status \in {"paid", "exception", "completed"} => row.allocated = t.external
  /\ row.status /= "completed" => t.external > 0
  /\ funded = IF row.status \in {"completed", "closed"} THEN 0 ELSE row.allocated
  /\ owed = IF row.status = "closed" THEN row.allocated ELSE 0
  /\ deliveries = IF row.status = "completed" THEN 1 ELSE 0

OrderSound(row, t, funded, owed, deliveries) ==
  IF row.status = "none"
  THEN row = Untouched /\ funded = 0 /\ owed = 0 /\ deliveries = 0
  ELSE t \in Terms /\ Committed(row, t) /\ Accounted(row, t, funded, owed, deliveries)

OrdersTyped ==
  /\ terms \in [Order -> Terms \cup {None}]
  /\ order \in [Order -> Row]
  /\ money \in Nat /\ sales \in Nat
  /\ funds \in [Order -> Nat] /\ payable \in [Order -> Nat]
  /\ campaign \in [reserved : Nat, used : Nat]
  /\ delivered \in [Order -> Nat]

Sums ==
  /\ Held <= money
  /\ money + sales + SumFunctionOnSet(OnOrder, Order)
       = Wallet + SumFunctionOnSet(Received, Order)
  /\ campaign.reserved = Cardinality(InState(Place, "reserved"))
  /\ campaign.used = Cardinality(InState(Place, "fulfilled"))

OrdersInv ==
  /\ OrdersTyped /\ Sums
  /\ \A o \in Order :
       OrderSound(order[o], terms[o], funds[o], payable[o], delivered[o])

(* Nothing is known of a payment for an order that does not exist, and a   *)
(* job that may still run has tries left.                                  *)
PaymentsInv ==
  /\ left \in [Order -> Nat]
  /\ method \in [Order -> Method \cup {None}]
  /\ pay \in [Order -> [Method -> Rows]]
  /\ call \in [Order -> [Method -> {"none", "calling", "created", "outcome_unknown", "failed"}]]
  /\ provider \in [Order -> [Method -> {"none", "open", "timely", "late"}]]
  /\ cancelling \subseteq Order
  /\ \A o \in Order, m \in Method :
       /\ pay[o][m].job = "ready" => pay[o][m].tries > 0
       /\ order[o].status = "none" =>
            pay[o][m] = NoPayment /\ call[o][m] = "none" /\ provider[o][m] = "none"

IInv == OrdersInv /\ PaymentsInv

-----------------------------------------------------------------------------
(* The sums.                                                               *)

Hold(t, row) == IF row.internal = "held" THEN t.internal ELSE 0

LEMMA OneChanged ==
  ASSUME NEW x \in Order, NEW f, NEW g,
         \A o \in Order : f[o] \in Int /\ g[o] \in Int,
         \A o \in Order \ {x} : f[o] = g[o]
  PROVE  SumFunctionOnSet(g, Order) = SumFunctionOnSet(f, Order) + g[x] - f[x]
  BY OrdersAssumption, SumChange

LEMMA NothingHeld ==
  ASSUME NEW row, NEW t, row = Untouched
  PROVE  /\ Hold(t, row) = 0 /\ row.allocated = 0
         /\ row.place = "none" /\ row.internal = "none"
         /\ row.coverage = "none" /\ row.reason = ""
  BY DEF Hold, Untouched

(* A typed order that exists has terms, and holds a natural number.        *)
LEMMA HoldsAre ==
  ASSUME OrdersInv
  PROVE  /\ \A o \in Order : HoldOf[o] = Hold(terms[o], order[o]) /\ HoldOf[o] \in Nat
         /\ \A o \in Order : OnOrder[o] = funds[o] + payable[o] /\ OnOrder[o] \in Nat
         /\ \A o \in Order : Received[o] = order[o].allocated /\ Received[o] \in Nat
  <1>1. ASSUME NEW o \in Order PROVE HoldOf[o] = Hold(terms[o], order[o])
    BY DEF HoldOf, Hold
  <1>2. ASSUME NEW o \in Order PROVE Hold(terms[o], order[o]) \in Nat
    <2>1. CASE order[o].status = "none"
      <3>1. order[o] = Untouched
        BY <2>1 DEF OrdersInv, OrderSound
      <3>2. QED BY <3>1, NothingHeld, 0 \in Nat
    <2>2. CASE order[o].status /= "none"
      BY <2>2 DEF OrdersInv, OrderSound, Terms, Hold
    <2>3. QED BY <2>1, <2>2
  <1>3. ASSUME NEW o \in Order
        PROVE  /\ OnOrder[o] = funds[o] + payable[o] /\ OnOrder[o] \in Nat
               /\ Received[o] = order[o].allocated /\ Received[o] \in Nat
    <2>1. funds[o] \in Nat /\ payable[o] \in Nat /\ order[o].allocated \in Nat
      BY DEF OrdersInv, OrdersTyped, Row
    <2>2. QED BY <2>1 DEF OnOrder, Received
  <1>4. QED BY <1>1, <1>2, <1>3

LEMMA HeldIs ==
  ASSUME OrdersInv, NEW o \in Order
  PROVE  /\ Held \in Nat /\ Hold(terms[o], order[o]) \in Nat
         /\ Hold(terms[o], order[o]) <= Held
  <1>1. \A q \in Order : HoldOf[q] \in Nat
    BY HoldsAre
  <1>2. SumFunctionOnSet(HoldOf, Order) \in Nat
    BY <1>1, OrdersAssumption, SumNat
  <1>3. HoldOf[o] <= SumFunctionOnSet(HoldOf, Order)
    BY <1>1, OrdersAssumption, SumAtLeast
  <1>4. QED BY <1>2, <1>3, HoldsAre DEF Held

(* A set of orders is changed by whether the one order of a step is in it. *)
Counts(b) == IF b THEN 1 ELSE 0

LEMMA CountChange ==
  ASSUME NEW S \in SUBSET Order, NEW T \in SUBSET Order, NEW x \in Order,
         \A y \in Order \ {x} : y \in S <=> y \in T
  PROVE  /\ Cardinality(T) + Counts(x \in S) = Cardinality(S) + Counts(x \in T)
         /\ Cardinality(S) \in Nat /\ Cardinality(T) \in Nat
  <1>1. IsFiniteSet(S) /\ IsFiniteSet(T)
    BY OrdersAssumption, FS_Subset
  <1>2. Cardinality(S) \in Nat /\ Cardinality(T) \in Nat
    BY <1>1, FS_CardinalityType
  <1>3. CASE x \in S /\ x \in T
    <2>1. S = T BY <1>3
    <2>2. QED BY <2>1, <1>2, <1>3 DEF Counts
  <1>4. CASE x \notin S /\ x \notin T
    <2>1. S = T BY <1>4
    <2>2. QED BY <2>1, <1>2, <1>4 DEF Counts
  <1>5. CASE x \in S /\ x \notin T
    <2>1. S = T \cup {x} BY <1>5
    <2>2. Cardinality(S) = Cardinality(T) + 1
      BY <2>1, <1>1, <1>5, FS_AddElement
    <2>3. QED BY <2>2, <1>2, <1>5 DEF Counts
  <1>6. CASE x \notin S /\ x \in T
    <2>1. T = S \cup {x} BY <1>6
    <2>2. Cardinality(T) = Cardinality(S) + 1
      BY <2>1, <1>1, <1>6, FS_AddElement
    <2>3. QED BY <2>2, <1>2, <1>6 DEF Counts
  <1>7. QED BY <1>3, <1>4, <1>5, <1>6

SameOrder(o) ==
  /\ terms'[o] = terms[o] /\ order'[o] = order[o] /\ funds'[o] = funds[o]
  /\ payable'[o] = payable[o] /\ delivered'[o] = delivered[o]

(* m is in the wallet and in sales, s lies on the orders and r was         *)
(* received for them.  When one order goes from on1, got1 to on2, got2 and *)
(* the money follows it, the books still balance.                          *)
LEMMA MoneyMovesAlong ==
  ASSUME NEW W \in Int, NEW m \in Int, NEW m2 \in Int, NEW s \in Int, NEW s2 \in Int,
         NEW r \in Int, NEW r2 \in Int, NEW on1 \in Int, NEW on2 \in Int,
         NEW got1 \in Int, NEW got2 \in Int,
         m + s = W + r, s2 = s + on2 - on1, r2 = r + got2 - got1,
         m2 + on2 - got2 = m + on1 - got1
  PROVE  m2 + s2 = W + r2
  OBVIOUS

(* A step moves one order and keeps it sound, moves as much money as the   *)
(* order gains or loses, and tells the campaign of its place.              *)
LEMMA OneOrderMoves ==
  ASSUME OrdersInv, OrdersTyped', NEW x \in Order,
         \A o \in Order \ {x} : SameOrder(o),
         OrderSound(order'[x], terms'[x], funds'[x], payable'[x], delivered'[x]),
         money' + sales' + funds'[x] + payable'[x] - order'[x].allocated
           = money + sales + funds[x] + payable[x] - order[x].allocated,
         Held + Hold(terms'[x], order'[x]) - Hold(terms[x], order[x]) <= money',
         campaign'.reserved + Counts(order[x].place = "reserved")
           = campaign.reserved + Counts(order'[x].place = "reserved"),
         campaign'.used + Counts(order[x].place = "fulfilled")
           = campaign.used + Counts(order'[x].place = "fulfilled")
  PROVE  OrdersInv'
  <1>1. \A o \in Order :
          OrderSound(order'[o], terms'[o], funds'[o], payable'[o], delivered'[o])
    BY DEF OrdersInv, SameOrder
  <1>2. /\ \A o \in Order : HoldOf[o] = Hold(terms[o], order[o]) /\ HoldOf[o] \in Nat
        /\ \A o \in Order : OnOrder[o] = funds[o] + payable[o] /\ OnOrder[o] \in Nat
        /\ \A o \in Order : Received[o] = order[o].allocated /\ Received[o] \in Nat
    BY HoldsAre
  <1>3. /\ \A o \in Order : HoldOf'[o] = Hold(terms'[o], order'[o]) /\ HoldOf'[o] \in Nat
        /\ \A o \in Order : OnOrder'[o] = funds'[o] + payable'[o] /\ OnOrder'[o] \in Nat
        /\ \A o \in Order : Received'[o] = order'[o].allocated /\ Received'[o] \in Nat
    <2>1. ASSUME NEW o \in Order
          PROVE  HoldOf'[o] = Hold(terms'[o], order'[o]) /\ HoldOf'[o] \in Nat
      <3>1. HoldOf'[o] = Hold(terms'[o], order'[o])
        BY DEF HoldOf, Hold
      <3>2. OrderSound(order'[o], terms'[o], funds'[o], payable'[o], delivered'[o])
        BY <1>1
      <3>3. Hold(terms'[o], order'[o]) \in Nat
        <4>1. CASE order'[o].status = "none"
          <5>1. order'[o] = Untouched
            BY <4>1, <3>2 DEF OrderSound
          <5>2. QED BY <5>1, NothingHeld, 0 \in Nat
        <4>2. CASE order'[o].status /= "none"
          BY <4>2, <3>2 DEF OrderSound, Terms, Hold
        <4>3. QED BY <4>1, <4>2
      <3>4. QED BY <3>1, <3>3
    <2>2. ASSUME NEW o \in Order
          PROVE  /\ OnOrder'[o] = funds'[o] + payable'[o] /\ OnOrder'[o] \in Nat
                 /\ Received'[o] = order'[o].allocated /\ Received'[o] \in Nat
      <3>1. funds'[o] \in Nat /\ payable'[o] \in Nat /\ order'[o].allocated \in Nat
        BY DEF OrdersTyped, Row
      <3>2. QED BY <3>1 DEF OnOrder, Received
    <2>3. QED BY <2>1, <2>2
  <1>4. /\ SumFunctionOnSet(HoldOf', Order) = SumFunctionOnSet(HoldOf, Order)
                                                + HoldOf'[x] - HoldOf[x]
        /\ SumFunctionOnSet(OnOrder', Order) = SumFunctionOnSet(OnOrder, Order)
                                                + OnOrder'[x] - OnOrder[x]
        /\ SumFunctionOnSet(Received', Order) = SumFunctionOnSet(Received, Order)
                                                + Received'[x] - Received[x]
    <2>1. \A o \in Order \ {x} : /\ HoldOf[o] = HoldOf'[o] /\ OnOrder[o] = OnOrder'[o]
                                 /\ Received[o] = Received'[o]
      BY <1>2, <1>3 DEF SameOrder
    <2>2. \A o \in Order : /\ HoldOf[o] \in Int /\ HoldOf'[o] \in Int
                           /\ OnOrder[o] \in Int /\ OnOrder'[o] \in Int
                           /\ Received[o] \in Int /\ Received'[o] \in Int
      BY <1>2, <1>3
    <2>3. SumFunctionOnSet(HoldOf', Order) = SumFunctionOnSet(HoldOf, Order)
                                                + HoldOf'[x] - HoldOf[x]
      <3>1. \A o \in Order \ {x} : HoldOf[o] = HoldOf'[o]
        BY <2>1
      <3>2. \A o \in Order : HoldOf[o] \in Int /\ HoldOf'[o] \in Int
        BY <2>2
      <3>3. QED BY <3>1, <3>2, OneChanged
    <2>4. SumFunctionOnSet(OnOrder', Order) = SumFunctionOnSet(OnOrder, Order)
                                                + OnOrder'[x] - OnOrder[x]
      <3>1. \A o \in Order \ {x} : OnOrder[o] = OnOrder'[o]
        BY <2>1
      <3>2. \A o \in Order : OnOrder[o] \in Int /\ OnOrder'[o] \in Int
        BY <2>2
      <3>3. QED BY <3>1, <3>2, OneChanged
    <2>5. SumFunctionOnSet(Received', Order) = SumFunctionOnSet(Received, Order)
                                                + Received'[x] - Received[x]
      <3>1. \A o \in Order \ {x} : Received[o] = Received'[o]
        BY <2>1
      <3>2. \A o \in Order : Received[o] \in Int /\ Received'[o] \in Int
        BY <2>2
      <3>3. QED BY <3>1, <3>2, OneChanged
    <2>6. QED BY <2>3, <2>4, <2>5
  <1>5. /\ SumFunctionOnSet(HoldOf, Order) \in Int
        /\ SumFunctionOnSet(OnOrder, Order) \in Int
        /\ SumFunctionOnSet(Received, Order) \in Int
    BY <1>2, OrdersAssumption, SumNat
  <1>6. Held' <= money'
    BY <1>2, <1>3, <1>4, <1>5 DEF Held
  <1>7. money' + sales' + SumFunctionOnSet(OnOrder', Order)
          = Wallet + SumFunctionOnSet(Received', Order)
    <2>1. money + sales + SumFunctionOnSet(OnOrder, Order)
            = Wallet + SumFunctionOnSet(Received, Order)
      BY DEF OrdersInv, Sums
    <2>2. /\ money \in Int /\ sales \in Int /\ money' \in Int /\ sales' \in Int
          /\ Wallet \in Int
      BY AmountsAssumption DEF OrdersInv, OrdersTyped
    <2>3. /\ OnOrder[x] \in Int /\ OnOrder'[x] \in Int
          /\ Received[x] \in Int /\ Received'[x] \in Int
      BY <1>2, <1>3
    <2>4. money' + sales' + OnOrder'[x] - Received'[x]
            = money + sales + OnOrder[x] - Received[x]
      <3>1. /\ funds[x] \in Int /\ payable[x] \in Int /\ order[x].allocated \in Int
            /\ funds'[x] \in Int /\ payable'[x] \in Int
        BY <1>2 DEF OrdersInv, OrdersTyped
      <3>2. order'[x].allocated \in Int
        BY <1>3
      <3>3. /\ OnOrder[x] = funds[x] + payable[x] /\ OnOrder'[x] = funds'[x] + payable'[x]
            /\ Received[x] = order[x].allocated /\ Received'[x] = order'[x].allocated
        BY <1>2, <1>3
      <3>4. QED BY <2>2, <3>1, <3>2, <3>3
    <2>5. /\ SumFunctionOnSet(OnOrder', Order) \in Int
          /\ SumFunctionOnSet(Received', Order) \in Int
      BY <1>4, <1>5, <2>3
    <2>6. (money' + sales') + SumFunctionOnSet(OnOrder', Order)
            = Wallet + SumFunctionOnSet(Received', Order)
      BY <1>4, <1>5, <2>1, <2>2, <2>3, <2>4, <2>5, MoneyMovesAlong
    <2>7. QED BY <2>6
  <1>8. ASSUME NEW s \in {"reserved", "fulfilled"}
        PROVE  /\ Cardinality(InState(Place, s)') + Counts(order[x].place = s)
                    = Cardinality(InState(Place, s)) + Counts(order'[x].place = s)
               /\ Cardinality(InState(Place, s)) \in Nat
               /\ Cardinality(InState(Place, s)') \in Nat
    <2>1. InState(Place, s) = {o \in Order : order[o].place = s}
      BY DEF InState, Place
    <2>2. InState(Place, s)' = {o \in Order : order'[o].place = s}
      BY DEF InState, Place
    <2>3. \A o \in Order \ {x} : o \in InState(Place, s) <=> o \in InState(Place, s)'
      BY <2>1, <2>2 DEF SameOrder
    <2>4. /\ InState(Place, s) \in SUBSET Order /\ InState(Place, s)' \in SUBSET Order
          /\ x \in InState(Place, s) <=> order[x].place = s
          /\ x \in InState(Place, s)' <=> order'[x].place = s
      BY <2>1, <2>2
    <2>5. QED BY <2>3, <2>4, CountChange DEF Counts
  <1>9. campaign'.reserved = Cardinality(InState(Place, "reserved")')
        /\ campaign'.used = Cardinality(InState(Place, "fulfilled")')
    <2>1. /\ campaign.reserved = Cardinality(InState(Place, "reserved"))
          /\ campaign.used = Cardinality(InState(Place, "fulfilled"))
          /\ campaign'.reserved \in Int /\ campaign'.used \in Int
      BY DEF OrdersInv, Sums, OrdersTyped
    <2>2. QED BY <1>8, <2>1 DEF Counts
  <1>10. QED BY <1>1, <1>6, <1>7, <1>9 DEF OrdersInv, Sums

-----------------------------------------------------------------------------
(* Delivery.                                                               *)

LEMMA DeliverMoves ==
  ASSUME OrdersInv, NEW o \in Order, NEW t \in Terms, NEW row \in Row,
         NEW c \in [reserved : Nat, used : Nat], Deliver(o, t, row, c),
         terms' = [terms EXCEPT ![o] = t],
         t.kind = "topup" => t.internal = 0 /\ row.coverage = "none",
         t.internal = 0 => row.internal = "none",
         row.allocated = t.external, order[o].allocated = t.external,
         funds[o] = t.external, payable[o] = 0, delivered[o] = 0,
         row.place \in {"none", "reserved", "released"}, order[o].place /= "fulfilled",
         row.place = "reserved" => c.reserved > 0,
         c.reserved + Counts(order[o].place = "reserved")
           = campaign.reserved + Counts(row.place = "reserved"),
         c.used = campaign.used, t.internal <= money,
         Held + t.internal <= money + Hold(terms[o], order[o])
  PROVE  OrdersInv'
  <1> DEFINE new == [row EXCEPT !.status = "completed", !.reason = "",
                       !.internal = IF t.internal > 0 THEN "captured" ELSE @,
                       !.coverage = IF t.kind = "package" THEN "fulfilled" ELSE @,
                       !.place = IF @ = "none" THEN @ ELSE "fulfilled"]
  <1>1. /\ t.kind \in {"package", "topup"} /\ t.internal \in Nat /\ t.external \in Nat
        /\ row.internal \in {"none", "held", "released", "captured"}
        /\ row.coverage \in Commitment /\ row.place \in Commitment
    BY DEF Terms, Row
  <1>2. /\ terms \in [Order -> Terms \cup {None}] /\ order \in [Order -> Row]
        /\ money \in Nat /\ sales \in Nat
        /\ funds \in [Order -> Nat] /\ payable \in [Order -> Nat]
        /\ campaign \in [reserved : Nat, used : Nat] /\ delivered \in [Order -> Nat]
    BY DEF OrdersInv, OrdersTyped
  <1>3. /\ order' = [order EXCEPT ![o] = new] /\ campaign' = Used(row.place, c)
        /\ money' = money + (IF t.kind = "topup" THEN t.external ELSE -t.internal)
        /\ sales' = sales + (IF t.kind = "topup" THEN 0 ELSE t.internal + row.allocated)
        /\ funds' = [funds EXCEPT ![o] = @ - t.external] /\ payable' = payable
        /\ delivered' = [delivered EXCEPT ![o] = @ + 1]
    BY DEF Deliver
  <1>4. /\ new \in Row /\ new.status = "completed" /\ new.reason = ""
        /\ new.internal = IF t.internal > 0 THEN "captured" ELSE row.internal
        /\ new.coverage = IF t.kind = "package" THEN "fulfilled" ELSE row.coverage
        /\ new.place = IF row.place = "none" THEN "none" ELSE "fulfilled"
        /\ new.allocated = row.allocated
    BY <1>1, ZenonT(60) DEF Row, Commitment
  <1>5. \A q \in Order \ {o} : SameOrder(q)
    BY <1>2, <1>3 DEF SameOrder
  <1> HIDE DEF new
  <1>6. /\ t.internal = 0 => new.internal = "none"
        /\ t.internal > 0 => new.internal = "captured"
    <2>1. t.internal = 0 => ~(t.internal > 0)
      BY <1>1
    <2>2. CASE t.internal > 0
      BY <1>4, <2>1, <2>2
    <2>3. CASE ~(t.internal > 0)
      <3>1. t.internal = 0
        BY <1>1, <2>3
      <3>2. row.internal = "none"
        BY <3>1
      <3>3. QED BY <1>4, <2>3, <3>2
    <2>4. QED BY <2>2, <2>3
  <1>7. /\ order'[o] = new /\ terms'[o] = t /\ payable'[o] = 0
        /\ funds'[o] = 0 /\ delivered'[o] = 1
    <2>1. funds'[o] = t.external - t.external /\ delivered'[o] = 0 + 1
      BY <1>2, <1>3
    <2>2. QED BY <1>1, <1>2, <1>3, <2>1
  <1>8. /\ campaign' \in [reserved : Nat, used : Nat]
        /\ campaign'.reserved = c.reserved - Counts(row.place = "reserved")
        /\ campaign'.used = c.used + Counts(row.place /= "none")
    <2>1. CASE row.place = "reserved"
      BY <1>3, <2>1 DEF Used, Counts
    <2>2. CASE row.place = "released"
      BY <1>3, <2>2 DEF Used, Counts
    <2>3. CASE row.place = "none"
      BY <1>3, <2>3 DEF Used, Counts
    <2>4. QED BY <2>1, <2>2, <2>3
  <1>9. OrderSound(new, t, 0, 0, 1)
    <2>1. Keeps(new, t, "fulfilled")
      <3>1. t.internal = 0 => new.internal = "none"
        BY <1>6
      <3>2. t.internal > 0 => new.internal = "captured"
        BY <1>1, <1>4
      <3>3. new.coverage = IF t.kind = "topup" THEN "none" ELSE "fulfilled"
        BY <1>1, <1>4
      <3>4. new.place \in {"none", "fulfilled"}
        BY <1>4
      <3>5. QED BY <3>1, <3>2, <3>3, <3>4 DEF Keeps
    <2>2. Committed(new, t) /\ Accounted(new, t, 0, 0, 1)
      BY <1>4, <2>1 DEF Committed, Accounted
    <2>3. QED BY <1>4, <2>2 DEF OrderSound
  <1>10. money' \in Nat /\ sales' \in Nat
    BY <1>1, <1>2, <1>3
  <1>11. OrdersTyped'
    <2>1. /\ terms' \in [Order -> Terms \cup {None}] /\ order' \in [Order -> Row]
          /\ payable' \in [Order -> Nat]
      BY <1>2, <1>3, <1>4
    <2>2. funds' \in [Order -> Nat] /\ delivered' \in [Order -> Nat]
      <3>1. funds[o] - t.external = 0 /\ delivered[o] + 1 = 1
        BY <1>1
      <3>2. QED BY <1>2, <1>3, <3>1
    <2>3. QED BY <1>8, <1>10, <2>1, <2>2 DEF OrdersTyped
  <1>12. money' + sales' + funds'[o] + payable'[o] - order'[o].allocated
           = money + sales + funds[o] + payable[o] - order[o].allocated
    <2>1. /\ funds'[o] = 0 /\ payable'[o] = 0 /\ order'[o].allocated = t.external
          /\ funds[o] = t.external /\ payable[o] = 0 /\ order[o].allocated = t.external
          /\ row.allocated = t.external
      BY <1>4, <1>7
    <2>2. money' + sales' = money + sales + t.external
      BY <1>1, <1>2, <1>3, <2>1
    <2>3. QED BY <1>1, <1>2, <1>10, <2>1, <2>2
  <1>13. Held + Hold(terms'[o], order'[o]) - Hold(terms[o], order[o]) <= money'
    <2>1. Hold(terms'[o], order'[o]) = 0
      <3>1. new.internal /= "held"
        BY <1>1, <1>6
      <3>2. QED BY <1>7, <3>1 DEF Hold
    <2>2. PICK h, k \in Int : h = Held /\ k = Hold(terms[o], order[o])
      BY HeldIs
    <2>3. QED BY <1>1, <1>2, <1>3, <2>1, <2>2
  <1>14. /\ campaign'.reserved + Counts(order[o].place = "reserved")
              = campaign.reserved + Counts(order'[o].place = "reserved")
         /\ campaign'.used + Counts(order[o].place = "fulfilled")
              = campaign.used + Counts(order'[o].place = "fulfilled")
    <2>1. /\ campaign.reserved \in Int /\ campaign.used \in Int
          /\ c.reserved \in Int /\ c.used \in Int
      BY <1>2
    <2>2. /\ Counts(order'[o].place = "reserved") = 0
          /\ Counts(order'[o].place = "fulfilled") = Counts(row.place /= "none")
          /\ Counts(order[o].place = "fulfilled") = 0
      BY <1>4, <1>7 DEF Counts
    <2>3. /\ Counts(row.place = "reserved") \in Int /\ Counts(row.place /= "none") \in Int
          /\ Counts(order[o].place = "reserved") \in Int
      BY DEF Counts
    <2>4. QED BY <1>8, <2>1, <2>2, <2>3
  <1>15. QED BY <1>5, <1>7, <1>9, <1>11, <1>12, <1>13, <1>14, OneOrderMoves

(* An order that exists, with its columns typed.                           *)
LEMMA OrderIs ==
  ASSUME OrdersInv, NEW o \in Order, order[o].status /= "none"
  PROVE  /\ order[o] \in Row /\ terms[o] \in Terms
         /\ Committed(order[o], terms[o])
         /\ Accounted(order[o], terms[o], funds[o], payable[o], delivered[o])
         /\ terms[o].internal \in Nat /\ terms[o].external \in Nat
         /\ terms[o].kind \in {"package", "topup"}
  <1>1. order[o] \in Row
    BY DEF OrdersInv, OrdersTyped
  <1>2. OrderSound(order[o], terms[o], funds[o], payable[o], delivered[o])
    BY DEF OrdersInv
  <1>3. QED BY <1>1, <1>2 DEF OrderSound, Terms

LEMMA OrderIsNot ==
  ASSUME OrdersInv, NEW o \in Order, order[o].status = "none"
  PROVE  /\ order[o].allocated = 0 /\ order[o].place = "none"
         /\ order[o].internal = "none" /\ Hold(terms[o], order[o]) = 0
         /\ funds[o] = 0 /\ payable[o] = 0 /\ delivered[o] = 0
  <1>1. order[o] = Untouched /\ funds[o] = 0 /\ payable[o] = 0 /\ delivered[o] = 0
    BY DEF OrdersInv, OrderSound
  <1>2. QED BY <1>1, NothingHeld

LEMMA Balances ==
  ASSUME OrdersInv
  PROVE  /\ money \in Nat /\ sales \in Nat
         /\ campaign \in [reserved : Nat, used : Nat]
         /\ campaign.reserved \in Nat /\ campaign.used \in Nat
         /\ Held \in Nat => Held <= money
  BY DEF OrdersInv, OrdersTyped, Sums

(* A place that is reserved is counted.                                    *)
LEMMA PlaceIsCounted ==
  ASSUME OrdersInv, NEW o \in Order, order[o].place = "reserved"
  PROVE  campaign.reserved > 0
  <1>1. o \in InState(Place, "reserved") /\ InState(Place, "reserved") \subseteq Order
    BY DEF InState, Place
  <1>2. IsFiniteSet(InState(Place, "reserved"))
    BY <1>1, OrdersAssumption, FS_Subset
  <1>3. /\ Cardinality(InState(Place, "reserved")) /= 0
        /\ Cardinality(InState(Place, "reserved")) \in Nat
    BY <1>1, <1>2, FS_EmptySet, FS_CardinalityType
  <1>4. QED BY <1>3 DEF OrdersInv, Sums

LEMMA FulfillMoves ==
  ASSUME OrdersInv, NEW o \in Order, Fulfill(o)
  PROVE  OrdersInv'
  <1>1. /\ order[o].status \in {"paid", "exception"} /\ order[o].reason /= "refund"
        /\ order[o].allocated = terms[o].external
        /\ order[o].internal = "released" => Available >= terms[o].internal
        /\ Deliver(o, terms[o], order[o], campaign) /\ terms' = terms
    BY DEF Fulfill
  <1>2. /\ order[o] \in Row /\ terms[o] \in Terms
        /\ Committed(order[o], terms[o])
        /\ Accounted(order[o], terms[o], funds[o], payable[o], delivered[o])
        /\ terms[o].internal \in Nat /\ terms[o].external \in Nat
        /\ terms[o].kind \in {"package", "topup"}
    BY <1>1, OrderIs
  <1>3. Keeps(order[o], terms[o], "reserved") \/ Keeps(order[o], terms[o], "released")
    <2>1. order[o].status = "exception" => order[o].reason = "restore"
      BY <1>1, <1>2 DEF Committed, Row
    <2>2. QED BY <1>1, <1>2, <2>1 DEF Committed
  <1>4. /\ terms[o].kind = "topup" => terms[o].internal = 0 /\ order[o].coverage = "none"
        /\ terms[o].internal = 0 => order[o].internal = "none"
        /\ terms[o].internal > 0 => order[o].internal \in {"held", "released"}
        /\ order[o].place \in {"none", "reserved", "released"}
        /\ order[o].place /= "fulfilled"
    BY <1>2, <1>3 DEF Keeps, Accounted
  <1>5. funds[o] = terms[o].external /\ payable[o] = 0 /\ delivered[o] = 0
    BY <1>1, <1>2 DEF Accounted
  <1>6. /\ terms[o].internal <= money
        /\ Held + terms[o].internal <= money + Hold(terms[o], order[o])
    <2>1. /\ money \in Nat /\ Held \in Nat /\ Hold(terms[o], order[o]) \in Nat
          /\ Hold(terms[o], order[o]) <= Held /\ Held <= money
      BY HeldIs, Balances
    <2>2. CASE order[o].internal = "held"
      BY <1>2, <2>1, <2>2 DEF Hold
    <2>3. CASE order[o].internal = "released"
      <3>1. money - Held >= terms[o].internal
        BY <1>1, <2>3 DEF Available
      <3>2. QED BY <1>2, <2>1, <3>1
    <2>4. CASE terms[o].internal = 0
      BY <2>1, <2>4
    <2>5. QED BY <1>2, <1>4, <2>2, <2>3, <2>4
  <1>7. terms' = [terms EXCEPT ![o] = terms[o]]
    BY <1>1 DEF OrdersInv, OrdersTyped
  <1>8. campaign \in [reserved : Nat, used : Nat]
    BY Balances
  <1>9. order[o].place = "reserved" => campaign.reserved > 0
    BY PlaceIsCounted
  <1>10. QED BY <1>1, <1>2, <1>4, <1>5, <1>6, <1>7, <1>8, <1>9, DeliverMoves

LEMMA CreatePackageMoves ==
  ASSUME OrdersInv, NEW o \in Order, NEW t \in Offers[o], NEW m, NEW selected \in BOOLEAN,
         CreatePackage(o, t, m, selected)
  PROVE  OrdersInv'
  <1> DEFINE row == [status |-> "pending", reason |-> "",
                     internal |-> IF t.internal > 0 THEN "held" ELSE "none",
                     coverage |-> "reserved",
                     place |-> IF selected THEN "reserved" ELSE "none", allocated |-> 0]
             c == IF selected THEN [campaign EXCEPT !.reserved = @ + 1] ELSE campaign
  <1>1. /\ order[o].status = "none" /\ t.kind = "package"
        /\ Available >= t.internal
        /\ terms' = [terms EXCEPT ![o] = t]
        /\ \/ t.external = 0 /\ Deliver(o, t, row, c)
           \/ /\ t.external /= 0
              /\ order' = [order EXCEPT ![o] = row] /\ campaign' = c
              /\ UNCHANGED <<ledgerVars, delivered>>
    BY DEF CreatePackage
  <1>2. /\ t \in Terms /\ t.internal \in Nat /\ t.external \in Nat
        /\ t.internal + t.external > 0 /\ (t.kind = "topup" => t.internal = 0)
    BY OffersAssumption DEF Terms
  <1>3. /\ order[o].allocated = 0 /\ order[o].place = "none"
        /\ Hold(terms[o], order[o]) = 0
        /\ funds[o] = 0 /\ payable[o] = 0 /\ delivered[o] = 0
    BY <1>1, OrderIsNot
  <1>4. /\ row \in Row /\ row.status = "pending" /\ row.reason = "" /\ row.allocated = 0
        /\ row.coverage = "reserved" /\ row.place = IF selected THEN "reserved" ELSE "none"
        /\ row.internal = IF t.internal > 0 THEN "held" ELSE "none"
    BY DEF Row, Commitment
  <1>5. /\ campaign \in [reserved : Nat, used : Nat]
        /\ campaign.reserved \in Nat /\ campaign.used \in Nat
        /\ money \in Nat /\ Held \in Nat /\ Held <= money
    BY HeldIs, Balances
  <1>6. /\ c \in [reserved : Nat, used : Nat] /\ c.used = campaign.used
        /\ c.reserved = campaign.reserved + Counts(selected)
        /\ selected => c.reserved > 0
    BY <1>5 DEF Counts
  <1> HIDE DEF row, c
  <1>7. t.internal <= money /\ Held + t.internal <= money
    BY <1>1, <1>2, <1>5 DEF Available
  <1>8. /\ row.place \in {"none", "reserved", "released"}
        /\ row.place = "reserved" <=> selected
        /\ Counts(row.place = "reserved") = Counts(selected)
        /\ Counts(order[o].place = "reserved") = 0
        /\ Counts(row.place = "fulfilled") = 0 /\ Counts(order[o].place = "fulfilled") = 0
    BY <1>3, <1>4 DEF Counts
  <1>9. /\ t.internal = 0 => row.internal = "none"
        /\ t.internal > 0 => row.internal = "held"
    <2>1. t.internal = 0 => ~(t.internal > 0)
      BY <1>2
    <2>2. QED BY <1>4, <2>1
  <1>10. CASE t.external = 0 /\ Deliver(o, t, row, c)
    <2>1. /\ Counts(selected) \in Int
          /\ c.reserved + Counts(order[o].place = "reserved")
               = campaign.reserved + Counts(row.place = "reserved")
      BY <1>5, <1>6, <1>8 DEF Counts
    <2>2. /\ Held + t.internal <= money + Hold(terms[o], order[o])
          /\ row.allocated = t.external /\ order[o].allocated = t.external
          /\ funds[o] = t.external /\ order[o].place /= "fulfilled"
          /\ t.kind /= "topup"
      <3>1. Held + t.internal <= money + Hold(terms[o], order[o])
        BY <1>3, <1>5, <1>7
      <3>2. QED BY <1>1, <1>3, <1>4, <1>10, <3>1
    <2>3. QED BY <1>1, <1>2, <1>3, <1>4, <1>6, <1>7, <1>8, <1>9, <1>10, <2>1, <2>2, DeliverMoves
  <1>11. CASE /\ t.external /= 0
              /\ order' = [order EXCEPT ![o] = row] /\ campaign' = c
              /\ UNCHANGED <<ledgerVars, delivered>>
    <2>1. /\ terms \in [Order -> Terms \cup {None}] /\ order \in [Order -> Row]
          /\ funds \in [Order -> Nat] /\ payable \in [Order -> Nat] /\ sales \in Nat
          /\ delivered \in [Order -> Nat]
      BY DEF OrdersInv, OrdersTyped
    <2>2. /\ money' = money /\ sales' = sales /\ funds' = funds /\ payable' = payable
          /\ delivered' = delivered
      BY <1>11 DEF ledgerVars
    <2>3. order'[o] = row /\ terms'[o] = t
      BY <1>1, <1>11, <2>1
    <2>4. \A q \in Order \ {o} : SameOrder(q)
      BY <1>1, <1>11, <2>1, <2>2 DEF SameOrder
    <2>5. OrdersTyped'
      BY <1>1, <1>2, <1>4, <1>5, <1>6, <1>11, <2>1, <2>2 DEF OrdersTyped
    <2>6. OrderSound(row, t, 0, 0, 0)
      <3>1. Keeps(row, t, "reserved")
        <4>1. row.coverage = IF t.kind = "topup" THEN "none" ELSE "reserved"
          BY <1>1, <1>4
        <4>2. QED BY <1>8, <1>4, <1>9, <4>1 DEF Keeps
      <3>2. t.external > 0
        BY <1>2, <1>11
      <3>3. Committed(row, t)
        BY <1>4, <3>1 DEF Committed
      <3>4. Accounted(row, t, 0, 0, 0)
        BY <1>2, <1>4, <3>2 DEF Accounted
      <3>5. QED BY <1>2, <1>4, <3>3, <3>4 DEF OrderSound
    <2>7. Hold(t, row) = t.internal
      <3>1. CASE t.internal = 0
        BY <1>9, <3>1 DEF Hold
      <3>2. CASE t.internal > 0
        BY <1>9, <3>2 DEF Hold
      <3>3. QED BY <1>2, <3>1, <3>2
    <2>8. Held + Hold(terms'[o], order'[o]) - Hold(terms[o], order[o]) <= money'
      BY <1>2, <1>3, <1>5, <1>7, <2>2, <2>3, <2>7
    <2>9. money' + sales' + funds'[o] + payable'[o] - order'[o].allocated
            = money + sales + funds[o] + payable[o] - order[o].allocated
      BY <1>3, <1>4, <2>2, <2>3
    <2>10. /\ campaign'.reserved + Counts(order[o].place = "reserved")
                = campaign.reserved + Counts(order'[o].place = "reserved")
           /\ campaign'.used + Counts(order[o].place = "fulfilled")
                = campaign.used + Counts(order'[o].place = "fulfilled")
      BY <1>5, <1>6, <1>8, <1>11, <2>3 DEF Counts
    <2>11. OrderSound(order'[o], terms'[o], funds'[o], payable'[o], delivered'[o])
      BY <1>3, <2>2, <2>3, <2>6
    <2>12. QED BY <2>4, <2>5, <2>8, <2>9, <2>10, <2>11, OneOrderMoves
  <1>12. QED BY <1>1, <1>10, <1>11

-----------------------------------------------------------------------------
(* The other steps of an order take no wallet money.                       *)

LEMMA RowIs ==
  ASSUME NEW row \in Row
  PROVE  /\ row.allocated \in Nat /\ row.reason \in {"", "restore", "refund"}
         /\ row.internal \in {"none", "held", "released", "captured"}
  BY DEF Row

LEMMA RowMoves ==
  ASSUME OrdersInv, NEW o \in Order, NEW row \in Row, NEW f \in Nat, NEW p \in Nat,
         NEW t \in Terms,
         terms' = [terms EXCEPT ![o] = t], order' = [order EXCEPT ![o] = row],
         funds' = [funds EXCEPT ![o] = f], payable' = [payable EXCEPT ![o] = p],
         UNCHANGED <<money, sales, delivered>>,
         campaign' \in [reserved : Nat, used : Nat],
         row.status /= "none", Committed(row, t), Accounted(row, t, f, p, delivered[o]),
         f + p - row.allocated = funds[o] + payable[o] - order[o].allocated,
         Hold(t, row) <= Hold(terms[o], order[o]), Hold(t, row) \in Nat,
         campaign'.reserved + Counts(order[o].place = "reserved")
           = campaign.reserved + Counts(row.place = "reserved"),
         campaign'.used + Counts(order[o].place = "fulfilled")
           = campaign.used + Counts(row.place = "fulfilled")
  PROVE  OrdersInv'
  <1>1. /\ terms \in [Order -> Terms \cup {None}] /\ order \in [Order -> Row]
        /\ money \in Nat /\ sales \in Nat
        /\ funds \in [Order -> Nat] /\ payable \in [Order -> Nat]
        /\ delivered \in [Order -> Nat]
    BY DEF OrdersInv, OrdersTyped
  <1>2. /\ order'[o] = row /\ terms'[o] = t /\ funds'[o] = f /\ payable'[o] = p
        /\ delivered'[o] = delivered[o]
    BY <1>1
  <1>3. \A q \in Order \ {o} : SameOrder(q)
    BY <1>1 DEF SameOrder
  <1>4. OrdersTyped'
    BY <1>1 DEF OrdersTyped
  <1>5. OrderSound(order'[o], terms'[o], funds'[o], payable'[o], delivered'[o])
    BY <1>2 DEF OrderSound
  <1>6. money' + sales' + funds'[o] + payable'[o] - order'[o].allocated
          = money + sales + funds[o] + payable[o] - order[o].allocated
    <2>1. /\ funds[o] \in Int /\ payable[o] \in Int /\ order[o].allocated \in Int
          /\ row.allocated \in Int
      <3>1. order[o] \in Row
        BY <1>1
      <3>2. order[o].allocated \in Nat /\ row.allocated \in Nat
        BY <3>1, RowIs
      <3>3. QED BY <1>1, <3>2
    <2>2. QED BY <1>1, <1>2, <2>1
  <1>7. Held + Hold(terms'[o], order'[o]) - Hold(terms[o], order[o]) <= money'
    <2>1. Held \in Nat /\ Held <= money /\ Hold(terms[o], order[o]) \in Nat
      BY HeldIs, Balances
    <2>2. QED BY <1>1, <1>2, <2>1
  <1>8. QED BY <1>2, <1>3, <1>4, <1>5, <1>6, <1>7, OneOrderMoves

(* What a row commits may go back to the wallet and to the campaign.       *)
LEMMA GiveBackMoves ==
  ASSUME OrdersInv, NEW o \in Order, order[o].status \in {"pending", "exception"},
         order[o].status = "exception" => order[o].reason = "refund",
         order' = [order EXCEPT ![o] = GiveBack(o)],
         campaign' = GivenBack(order[o].place, campaign),
         funds' = [funds EXCEPT ![o] = 0],
         payable' = [payable EXCEPT ![o] = order[o].allocated],
         UNCHANGED <<terms, money, sales, delivered>>
  PROVE  OrdersInv'
  <1>1. /\ order[o] \in Row /\ terms[o] \in Terms
        /\ Committed(order[o], terms[o])
        /\ Accounted(order[o], terms[o], funds[o], payable[o], delivered[o])
        /\ terms[o].internal \in Nat /\ terms[o].external \in Nat
    BY OrderIs
  <1>2. Keeps(order[o], terms[o], "reserved") \/ Keeps(order[o], terms[o], "released")
    BY <1>1 DEF Committed
  <1>3. PICK row : row = GiveBack(o)
    OBVIOUS
  <1>4. /\ row \in Row /\ row.status = "closed" /\ row.reason = ""
        /\ row.allocated = order[o].allocated
        /\ row.internal = IF order[o].internal = "held" THEN "released" ELSE order[o].internal
        /\ row.coverage = IF order[o].coverage = "reserved" THEN "released"
                                                            ELSE order[o].coverage
        /\ row.place = IF order[o].place = "reserved" THEN "released" ELSE order[o].place
    BY <1>1, <1>3, ZenonT(60) DEF GiveBack, Row, Commitment
  <1>5. Keeps(row, terms[o], "released")
    BY <1>2, <1>4 DEF Keeps
  <1>6. Committed(row, terms[o])
    BY <1>4, <1>5 DEF Committed
  <1>7. /\ funds[o] = order[o].allocated /\ payable[o] = 0 /\ order[o].allocated \in Nat
        /\ Accounted(row, terms[o], 0, order[o].allocated, delivered[o])
    <2>1. order[o].allocated \in Nat
      BY <1>1 DEF Row
    <2>2. QED BY <1>1, <1>4, <2>1 DEF Accounted
  <1>8. Hold(terms[o], row) = 0
    BY <1>4 DEF Hold
  <1>9. /\ campaign \in [reserved : Nat, used : Nat]
        /\ campaign.reserved \in Nat /\ campaign.used \in Nat
        /\ Hold(terms[o], order[o]) \in Nat
    BY HeldIs, Balances
  <1>10. order[o].place \in {"none", "reserved", "released"}
    BY <1>2 DEF Keeps
  <1>11. /\ campaign' \in [reserved : Nat, used : Nat]
         /\ campaign'.reserved = campaign.reserved - Counts(order[o].place = "reserved")
         /\ campaign'.used = campaign.used
    <2>1. CASE order[o].place = "reserved"
      <3>1. campaign.reserved > 0
        BY <2>1, PlaceIsCounted
      <3>2. QED BY <1>9, <2>1, <3>1 DEF GivenBack, Counts
    <2>2. CASE order[o].place /= "reserved"
      BY <1>9, <2>2 DEF GivenBack, Counts
    <2>3. QED BY <2>1, <2>2
  <1>12. /\ campaign'.reserved + Counts(order[o].place = "reserved")
              = campaign.reserved + Counts(row.place = "reserved")
         /\ campaign'.used + Counts(order[o].place = "fulfilled")
              = campaign.used + Counts(row.place = "fulfilled")
    <2>1. /\ Counts(row.place = "reserved") = 0 /\ Counts(row.place = "fulfilled") = 0
          /\ Counts(order[o].place = "fulfilled") = 0
          /\ Counts(order[o].place = "reserved") \in Int
      <3>1. row.place /= "reserved" /\ row.place /= "fulfilled"
        BY <1>4, <1>10
      <3>2. order[o].place /= "fulfilled"
        BY <1>10
      <3>3. QED BY <3>1, <3>2 DEF Counts
    <2>2. QED BY <1>9, <1>11, <2>1
  <1>13. /\ terms' = [terms EXCEPT ![o] = terms[o]] /\ order' = [order EXCEPT ![o] = row]
    BY <1>3 DEF OrdersInv, OrdersTyped
  <1>14. 0 + order[o].allocated - row.allocated = funds[o] + payable[o] - order[o].allocated
    <2>1. PICK n \in Nat : n = order[o].allocated
      BY <1>7
    <2>2. funds[o] = n /\ payable[o] = 0 /\ row.allocated = n
      BY <1>4, <1>7, <2>1
    <2>3. QED BY <2>1, <2>2
  <1>15. Hold(terms[o], row) <= Hold(terms[o], order[o]) /\ Hold(terms[o], row) \in Nat
    BY <1>8, <1>9
  <1>16. row.status /= "none" /\ 0 \in Nat
    BY <1>4
  <1>17. QED
    BY <1>1, <1>4, <1>6, <1>7, <1>11, <1>12, <1>13, <1>14, <1>15, <1>16, RowMoves

LEMMA CloseMoves ==
  ASSUME OrdersInv, NEW o \in Order, CloseOrder(o)
  PROVE  OrdersInv' \/ UNCHANGED <<orderVars, ledgerVars>>
  <1>1. CASE ~(order[o].status = "pending" /\ order[o].allocated = 0)
    BY <1>1 DEF CloseOrder, orderVars, ledgerVars
  <1>2. CASE order[o].status = "pending" /\ order[o].allocated = 0
    <2>1. /\ order' = [order EXCEPT ![o] = GiveBack(o)]
          /\ campaign' = GivenBack(order[o].place, campaign)
          /\ UNCHANGED <<terms, delivered, money, sales, funds, payable>>
      BY <1>2 DEF CloseOrder, ledgerVars
    <2>2. Accounted(order[o], terms[o], funds[o], payable[o], delivered[o])
      BY <1>2, OrderIs
    <2>3. funds[o] = 0 /\ payable[o] = 0
      BY <1>2, <2>2 DEF Accounted
    <2>4. /\ funds' = [funds EXCEPT ![o] = 0]
          /\ payable' = [payable EXCEPT ![o] = order[o].allocated]
      BY <1>2, <2>1, <2>3 DEF OrdersInv, OrdersTyped
    <2>5. QED BY <1>2, <2>1, <2>4, GiveBackMoves
  <1>3. QED BY <1>1, <1>2

LEMMA RefundExists ==
  ASSUME OrdersInv, NEW o \in Order, order[o].reason = "refund"
  PROVE  order[o].status /= "none"
  <1>1. order[o].status = "none" => order[o] = Untouched
    BY DEF OrdersInv, OrderSound
  <1>2. Untouched.reason /= "refund"
    BY DEF Untouched
  <1>3. QED BY <1>1, <1>2

LEMMA ApproveMoves ==
  ASSUME OrdersInv, NEW o \in Order, ApproveRefund(o)
  PROVE  OrdersInv'
  <1>1. /\ order[o].reason = "refund"
        /\ order' = [order EXCEPT ![o] = GiveBack(o)]
        /\ campaign' = GivenBack(order[o].place, campaign)
        /\ funds' = [funds EXCEPT ![o] = @ - order[o].allocated]
        /\ payable' = [payable EXCEPT ![o] = @ + order[o].allocated]
        /\ UNCHANGED <<terms, delivered, money, sales>>
    BY DEF ApproveRefund
  <1>2. order[o].status /= "none"
    BY <1>1, RefundExists
  <1>3. /\ Committed(order[o], terms[o]) /\ order[o] \in Row
        /\ Accounted(order[o], terms[o], funds[o], payable[o], delivered[o])
    BY <1>2, OrderIs
  <1>4. order[o].status = "exception"
    BY <1>1, <1>3 DEF Committed
  <1>5. funds[o] = order[o].allocated /\ payable[o] = 0 /\ order[o].allocated \in Nat
    BY <1>3, <1>4 DEF Accounted, Row
  <1>6. /\ funds' = [funds EXCEPT ![o] = 0]
        /\ payable' = [payable EXCEPT ![o] = order[o].allocated]
    <2>1. funds[o] - order[o].allocated = 0 /\ payable[o] + order[o].allocated = order[o].allocated
      BY <1>5
    <2>2. funds \in [Order -> Nat] /\ payable \in [Order -> Nat]
      BY DEF OrdersInv, OrdersTyped
    <2>3. QED BY <1>1, <2>1, <2>2
  <1>7. QED BY <1>1, <1>4, <1>6, GiveBackMoves

LEMMA CreateTopUpMoves ==
  ASSUME OrdersInv, NEW o \in Order, NEW t \in Offers[o], NEW m, CreateTopUp(o, t, m)
  PROVE  OrdersInv'
  <1>1. /\ order[o].status = "none" /\ t.kind = "topup"
        /\ terms' = [terms EXCEPT ![o] = t]
        /\ order' = [order EXCEPT ![o].status = "pending"]
        /\ UNCHANGED <<campaign, delivered, money, sales, funds, payable>>
    BY DEF CreateTopUp, ledgerVars
  <1>2. /\ t \in Terms /\ t.internal = 0 /\ t.external \in Nat
        /\ t.internal + t.external > 0
    BY <1>1, OffersAssumption DEF Terms
  <1>3. order[o] = Untouched /\ funds[o] = 0 /\ payable[o] = 0 /\ delivered[o] = 0
    BY <1>1 DEF OrdersInv, OrderSound
  <1>4. /\ Hold(terms[o], order[o]) = 0 /\ order[o].allocated = 0
        /\ order[o].place = "none" /\ order[o].internal = "none"
        /\ order[o].coverage = "none" /\ order[o].reason = "" /\ order[o] \in Row
    BY <1>3, NothingHeld DEF OrdersInv, OrdersTyped
  <1>5. PICK row : row = [order[o] EXCEPT !.status = "pending"]
    OBVIOUS
  <1>6. /\ row \in Row /\ row.status = "pending" /\ row.reason = "" /\ row.allocated = 0
        /\ row.coverage = "none" /\ row.place = "none" /\ row.internal = "none"
    BY <1>4, <1>5 DEF Row
  <1>7. Committed(row, t)
    <2>1. /\ ~(t.internal > 0)
          /\ row.coverage = IF t.kind = "topup" THEN "none" ELSE "reserved"
          /\ row.place \in {"none", "reserved"}
      <3>1. ~(t.internal > 0)
        BY <1>2
      <3>2. QED BY <1>1, <1>6, <3>1, Zenon
    <2>2. Keeps(row, t, "reserved")
      BY <1>6, <2>1 DEF Keeps
    <2>3. QED BY <1>6, <2>2 DEF Committed
  <1>8. Accounted(row, t, 0, 0, delivered[o])
    <2>1. t.external > 0
      BY <1>2
    <2>2. QED BY <1>2, <1>3, <1>6, <2>1 DEF Accounted
  <1>9. Hold(t, row) = 0
    BY <1>6 DEF Hold
  <1>10. /\ order' = [order EXCEPT ![o] = row]
         /\ funds' = [funds EXCEPT ![o] = 0] /\ payable' = [payable EXCEPT ![o] = 0]
    <2>1. /\ order \in [Order -> Row]
          /\ funds \in [Order -> Nat] /\ payable \in [Order -> Nat]
      BY DEF OrdersInv, OrdersTyped
    <2>2. funds' = [funds EXCEPT ![o] = 0] /\ payable' = [payable EXCEPT ![o] = 0]
      BY <1>1, <1>3, <2>1
    <2>3. QED BY <1>1, <1>5, <2>1, <2>2
  <1>11. /\ campaign' \in [reserved : Nat, used : Nat] /\ campaign' = campaign
         /\ campaign.reserved \in Nat /\ campaign.used \in Nat
    BY <1>1, Balances
  <1>12. /\ campaign'.reserved + Counts(order[o].place = "reserved")
              = campaign.reserved + Counts(row.place = "reserved")
         /\ campaign'.used + Counts(order[o].place = "fulfilled")
              = campaign.used + Counts(row.place = "fulfilled")
    BY <1>4, <1>6, <1>11
  <1>13. /\ 0 + 0 - row.allocated = funds[o] + payable[o] - order[o].allocated
         /\ Hold(t, row) <= Hold(terms[o], order[o]) /\ Hold(t, row) \in Nat
         /\ row.status /= "none" /\ 0 \in Nat /\ row \in Row /\ t \in Terms
    <2>1. 0 + 0 - row.allocated = funds[o] + payable[o] - order[o].allocated
      BY <1>3, <1>4, <1>6
    <2>2. Hold(t, row) <= Hold(terms[o], order[o]) /\ Hold(t, row) \in Nat
      <3>1. 0 <= 0 /\ 0 \in Nat
        OBVIOUS
      <3>2. QED BY <1>4, <1>9, <3>1, Zenon
    <2>3. QED BY <1>2, <1>6, <2>1, <2>2
  <1>14. UNCHANGED <<money, sales, delivered>>
    BY <1>1
  <1>15. terms' = [terms EXCEPT ![o] = t]
    BY <1>1
  <1>16. QED BY <1>7, <1>8, <1>10, <1>11, <1>12, <1>13, <1>14, <1>15, RowMoves

LEMMA AllocateMoves ==
  ASSUME OrdersInv, NEW o \in Order, order[o].status /= "none", NEW m, NEW rows,
         AllocateReceipt(o, m, rows)
  PROVE  OrdersInv'
  <1> DEFINE gone == \/ order[o].status = "closed" \/ order[o].coverage = "released"
                     \/ order[o].internal = "released"
  <1>1. /\ order[o].status /= "completed" /\ order[o].allocated = 0
        /\ order' = [order EXCEPT ![o] =
             [order[o] EXCEPT !.allocated = terms[o].external,
                              !.status = IF gone THEN "exception" ELSE "paid",
                              !.reason = IF gone THEN "restore" ELSE @]]
        /\ funds' = [funds EXCEPT ![o] = @ + terms[o].external]
        /\ UNCHANGED <<terms, campaign, delivered, money, sales, payable>>
    BY DEF AllocateReceipt, PaysWhole
  <1>2. /\ order[o] \in Row /\ terms[o] \in Terms
        /\ Committed(order[o], terms[o])
        /\ Accounted(order[o], terms[o], funds[o], payable[o], delivered[o])
        /\ terms[o].internal \in Nat /\ terms[o].external \in Nat
        /\ terms[o].kind \in {"package", "topup"}
    BY OrderIs
  <1>3. /\ order[o].status \in {"pending", "closed"} /\ terms[o].external > 0
        /\ funds[o] = 0 /\ payable[o] = 0 /\ delivered[o] = 0
    <2>1. order[o].status \in {"pending", "paid", "exception", "closed"}
      BY <1>1, <1>2 DEF Row
    <2>2. QED BY <1>1, <1>2, <2>1 DEF Accounted
  <1>4. PICK row : row = [order[o] EXCEPT !.allocated = terms[o].external,
                              !.status = IF gone THEN "exception" ELSE "paid",
                              !.reason = IF gone THEN "restore" ELSE @]
    OBVIOUS
  <1>5. /\ row \in Row /\ row.allocated = terms[o].external
        /\ row.internal = order[o].internal /\ row.coverage = order[o].coverage
        /\ row.place = order[o].place
        /\ row.status = IF gone THEN "exception" ELSE "paid"
        /\ row.reason = IF gone THEN "restore" ELSE order[o].reason
    BY <1>2, <1>4 DEF Row
  <1>6. IF gone THEN Keeps(row, terms[o], "released")
                ELSE Keeps(row, terms[o], "reserved") /\ order[o].reason = ""
    <2>1. CASE order[o].status = "closed"
      BY <1>2, <1>5, <2>1 DEF Committed, Keeps
    <2>2. CASE order[o].status = "pending"
      <3>1. Keeps(order[o], terms[o], "reserved") /\ order[o].reason = ""
        BY <1>2, <2>2 DEF Committed
      <3>2. order[o].internal \in {"none", "held"} /\ order[o].coverage \in {"none", "reserved"}
        <4>1. terms[o].internal = 0 \/ terms[o].internal > 0
          BY <1>2
        <4>2. QED BY <3>1, <4>1 DEF Keeps
      <3>3. ~gone
        BY <2>2, <3>2
      <3>4. Keeps(row, terms[o], "reserved")
        BY <1>5, <3>1 DEF Keeps
      <3>5. QED BY <3>1, <3>3, <3>4
    <2>3. QED BY <1>3, <2>1, <2>2
  <1> HIDE DEF gone
  <1>7. Committed(row, terms[o])
    <2>1. CASE gone
      BY <1>5, <1>6, <2>1 DEF Committed
    <2>2. CASE ~gone
      BY <1>5, <1>6, <2>2 DEF Committed
    <2>3. QED BY <2>1, <2>2
  <1>8. Accounted(row, terms[o], terms[o].external, 0, delivered[o])
    <2>1. row.status \in {"paid", "exception"}
      BY <1>5
    <2>2. QED BY <1>2, <1>3, <1>5, <2>1 DEF Accounted
  <1>9. Hold(terms[o], row) = Hold(terms[o], order[o]) /\ Hold(terms[o], order[o]) \in Nat
    BY <1>5, HeldIs DEF Hold
  <1>10. /\ terms' = [terms EXCEPT ![o] = terms[o]] /\ order' = [order EXCEPT ![o] = row]
         /\ funds' = [funds EXCEPT ![o] = terms[o].external]
         /\ payable' = [payable EXCEPT ![o] = 0]
    <2>1. /\ terms \in [Order -> Terms \cup {None}] /\ order \in [Order -> Row]
          /\ funds \in [Order -> Nat] /\ payable \in [Order -> Nat]
      BY DEF OrdersInv, OrdersTyped
    <2>2. funds[o] + terms[o].external = terms[o].external
      BY <1>2, <1>3
    <2>3. order' = [order EXCEPT ![o] = row]
      BY <1>1, <1>4 DEF gone
    <2>4. QED BY <1>1, <1>3, <2>1, <2>2, <2>3
  <1>11. /\ campaign' \in [reserved : Nat, used : Nat] /\ campaign' = campaign
    BY <1>1, Balances
  <1>12. /\ campaign'.reserved + Counts(order[o].place = "reserved")
              = campaign.reserved + Counts(row.place = "reserved")
         /\ campaign'.used + Counts(order[o].place = "fulfilled")
              = campaign.used + Counts(row.place = "fulfilled")
    BY <1>5, <1>11
  <1>13. terms[o].external + 0 - row.allocated = funds[o] + payable[o] - order[o].allocated
    BY <1>1, <1>2, <1>3, <1>5
  <1>14. /\ Hold(terms[o], row) <= Hold(terms[o], order[o]) /\ Hold(terms[o], row) \in Nat
         /\ row.status /= "none" /\ 0 \in Nat
    BY <1>5, <1>9
  <1>15. UNCHANGED <<money, sales, delivered>>
    BY <1>1
  <1>16. QED
    BY <1>2, <1>5, <1>7, <1>8, <1>10, <1>11, <1>12, <1>13, <1>14, <1>15, RowMoves

(* A row that changes its status only.                                     *)
LEMMA StatusMoves ==
  ASSUME OrdersInv, NEW o \in Order, order[o].status /= "none", NEW row \in Row,
         order' = [order EXCEPT ![o] = row],
         UNCHANGED <<terms, campaign, delivered, ledgerVars>>,
         row.status /= "none", Committed(row, terms[o]),
         Accounted(row, terms[o], funds[o], payable[o], delivered[o]),
         row.allocated = order[o].allocated, row.internal = order[o].internal,
         row.place = order[o].place
  PROVE  OrdersInv'
  <1>1. terms[o] \in Terms
    BY OrderIs
  <1>2. /\ money' = money /\ sales' = sales /\ funds' = funds /\ payable' = payable
        /\ delivered' = delivered /\ terms' = terms /\ campaign' = campaign
    BY DEF ledgerVars
  <1>3. /\ terms' = [terms EXCEPT ![o] = terms[o]]
        /\ funds' = [funds EXCEPT ![o] = funds[o]]
        /\ payable' = [payable EXCEPT ![o] = payable[o]]
        /\ funds[o] \in Nat /\ payable[o] \in Nat
    BY <1>2 DEF OrdersInv, OrdersTyped
  <1>4. funds[o] + payable[o] - row.allocated = funds[o] + payable[o] - order[o].allocated
    OBVIOUS
  <1>5. /\ Hold(terms[o], row) <= Hold(terms[o], order[o]) /\ Hold(terms[o], row) \in Nat
    <2>1. Hold(terms[o], row) = Hold(terms[o], order[o])
      BY DEF Hold
    <2>2. Hold(terms[o], order[o]) \in Nat
      BY HeldIs
    <2>3. QED BY <2>1, <2>2
  <1>6. /\ campaign' \in [reserved : Nat, used : Nat]
        /\ campaign'.reserved + Counts(order[o].place = "reserved")
              = campaign.reserved + Counts(row.place = "reserved")
        /\ campaign'.used + Counts(order[o].place = "fulfilled")
              = campaign.used + Counts(row.place = "fulfilled")
    BY <1>2, Balances
  <1>7. UNCHANGED <<money, sales, delivered>>
    BY <1>2
  <1>8. QED BY <1>1, <1>3, <1>4, <1>5, <1>6, <1>7, RowMoves

LEMMA RequestMoves ==
  ASSUME OrdersInv, NEW o \in Order, RequestRefund(o)
  PROVE  OrdersInv'
  <1>1. /\ order[o].status \in {"paid", "exception"} /\ order[o].reason /= "refund"
        /\ terms[o].kind = "package"
        /\ order' = [order EXCEPT ![o].status = "exception", ![o].reason = "refund"]
        /\ UNCHANGED <<terms, campaign, delivered, ledgerVars>>
    BY DEF RequestRefund
  <1>2. /\ order[o] \in Row /\ Committed(order[o], terms[o])
        /\ Accounted(order[o], terms[o], funds[o], payable[o], delivered[o])
    BY <1>1, OrderIs
  <1>3. PICK row : row = [order[o] EXCEPT !.status = "exception", !.reason = "refund"]
    OBVIOUS
  <1>4. /\ row \in Row /\ row.status = "exception" /\ row.reason = "refund"
        /\ row.allocated = order[o].allocated /\ row.internal = order[o].internal
        /\ row.coverage = order[o].coverage /\ row.place = order[o].place
    BY <1>2, <1>3 DEF Row
  <1>5. Keeps(order[o], terms[o], "reserved") \/ Keeps(order[o], terms[o], "released")
    <2>1. order[o].status = "exception" => order[o].reason = "restore"
      BY <1>1, <1>2, RowIs DEF Committed
    <2>2. QED BY <1>1, <1>2, <2>1 DEF Committed
  <1>6. Keeps(row, terms[o], "reserved") \/ Keeps(row, terms[o], "released")
    BY <1>4, <1>5 DEF Keeps
  <1>7. Committed(row, terms[o])
    BY <1>1, <1>4, <1>6 DEF Committed
  <1>8. Accounted(row, terms[o], funds[o], payable[o], delivered[o])
    BY <1>1, <1>2, <1>4 DEF Accounted
  <1>9. order' = [order EXCEPT ![o] = row]
    BY <1>1, <1>3 DEF OrdersInv, OrdersTyped
  <1>10. QED BY <1>1, <1>4, <1>7, <1>8, <1>9, StatusMoves

LEMMA RejectMoves ==
  ASSUME OrdersInv, NEW o \in Order, RejectRefund(o)
  PROVE  OrdersInv'
  <1> DEFINE gone == order[o].coverage = "released" \/ order[o].internal = "released"
  <1>1. /\ order[o].reason = "refund"
        /\ order' = [order EXCEPT ![o].status = IF gone THEN "exception" ELSE "paid",
                                  ![o].reason = IF gone THEN "restore" ELSE ""]
        /\ UNCHANGED <<terms, campaign, delivered, ledgerVars>>
    BY DEF RejectRefund
  <1>2. order[o].status /= "none"
    BY <1>1, RefundExists
  <1>3. /\ order[o] \in Row /\ Committed(order[o], terms[o])
        /\ Accounted(order[o], terms[o], funds[o], payable[o], delivered[o])
        /\ order[o].status = "exception" /\ terms[o].kind = "package"
        /\ terms[o].internal \in Nat
    BY <1>1, <1>2, OrderIs DEF Committed
  <1>4. PICK row : row = [order[o] EXCEPT !.status = IF gone THEN "exception" ELSE "paid",
                                          !.reason = IF gone THEN "restore" ELSE ""]
    OBVIOUS
  <1>5. /\ row \in Row /\ row.allocated = order[o].allocated
        /\ row.internal = order[o].internal
        /\ row.coverage = order[o].coverage /\ row.place = order[o].place
        /\ row.status = IF gone THEN "exception" ELSE "paid"
        /\ row.reason = IF gone THEN "restore" ELSE ""
    BY <1>3, <1>4 DEF Row
  <1>6. order' = [order EXCEPT ![o] = row]
    BY <1>1, <1>4 DEF OrdersInv, OrdersTyped
  <1>7. IF gone THEN Keeps(row, terms[o], "released") ELSE Keeps(row, terms[o], "reserved")
    <2>1. CASE Keeps(order[o], terms[o], "reserved")
      <3>1. ~gone
        <4>1. terms[o].internal = 0 \/ terms[o].internal > 0
          BY <1>3
        <4>2. QED BY <1>3, <2>1, <4>1 DEF Keeps
      <3>2. Keeps(row, terms[o], "reserved")
        BY <1>5, <2>1 DEF Keeps
      <3>3. QED BY <3>1, <3>2
    <2>2. CASE Keeps(order[o], terms[o], "released")
      <3>1. gone
        BY <1>3, <2>2 DEF Keeps
      <3>2. Keeps(row, terms[o], "released")
        BY <1>5, <2>2 DEF Keeps
      <3>3. QED BY <3>1, <3>2
    <2>3. QED BY <1>1, <1>3, <2>1, <2>2 DEF Committed
  <1> HIDE DEF gone
  <1>8. Committed(row, terms[o])
    <2>1. CASE gone
      BY <1>5, <1>7, <2>1 DEF Committed
    <2>2. CASE ~gone
      BY <1>5, <1>7, <2>2 DEF Committed
    <2>3. QED BY <2>1, <2>2
  <1>9. Accounted(row, terms[o], funds[o], payable[o], delivered[o])
    <2>1. row.status \in {"paid", "exception"}
      BY <1>5
    <2>2. QED BY <1>3, <1>5, <2>1 DEF Accounted
  <1>10. row.status /= "none"
    BY <1>5
  <1>11. QED BY <1>1, <1>2, <1>5, <1>6, <1>8, <1>9, <1>10, StatusMoves

LEMMA OrdersStay ==
  ASSUME OrdersInv, UNCHANGED <<orderVars, ledgerVars>>
  PROVE  OrdersInv'
  <1>1. /\ terms' = terms /\ order' = order /\ campaign' = campaign
        /\ delivered' = delivered /\ money' = money /\ sales' = sales
        /\ funds' = funds /\ payable' = payable
    BY DEF orderVars, ledgerVars
  <1>2. OrdersTyped'
    BY <1>1 DEF OrdersInv, OrdersTyped
  <1>3. \A o \in Order :
          OrderSound(order'[o], terms'[o], funds'[o], payable'[o], delivered'[o])
    BY <1>1 DEF OrdersInv
  <1>4. Sums'
    <2>1. HoldOf' = HoldOf /\ OnOrder' = OnOrder /\ Received' = Received
      BY <1>1 DEF HoldOf, OnOrder, Received
    <2>2. /\ InState(Place, "reserved")' = InState(Place, "reserved")
          /\ InState(Place, "fulfilled")' = InState(Place, "fulfilled")
      BY <1>1 DEF InState, Place
    <2>3. QED BY <1>1, <2>1, <2>2 DEF OrdersInv, Sums, Held
  <1>5. QED BY <1>2, <1>3, <1>4 DEF OrdersInv

-----------------------------------------------------------------------------
(* The payments.                                                           *)

CallState == {"none", "calling", "created", "outcome_unknown", "failed"}
ProviderState == {"none", "open", "timely", "late"}
NoneIsNew == \A o \in Order : order'[o].status = "none" => order[o].status = "none"

LEMMA PaymentExists ==
  ASSUME PaymentsInv, NEW o \in Order, NEW m \in Method,
         \/ pay[o][m].intent /= "none" \/ pay[o][m].fact /= "none"
         \/ pay[o][m].receipt /= "none" \/ pay[o][m].job /= "none"
         \/ call[o][m] /= "none" \/ provider[o][m] /= "none"
  PROVE  order[o].status /= "none"
  BY DEF PaymentsInv, NoPayment

LEMMA PaymentsAre ==
  ASSUME PaymentsInv, NEW o \in Order, NEW m \in Method
  PROVE  /\ pay[o][m] \in Rows /\ call[o][m] \in CallState
         /\ provider[o][m] \in ProviderState
         /\ pay[o][m].job = "ready" => pay[o][m].tries > 0
         /\ pay = [pay EXCEPT ![o][m] = pay[o][m]]
         /\ call = [call EXCEPT ![o][m] = call[o][m]]
         /\ provider = [provider EXCEPT ![o][m] = provider[o][m]]
  BY DEF PaymentsInv, CallState, ProviderState

LEMMA PaymentMoves ==
  ASSUME PaymentsInv, NEW o \in Order, NEW m \in Method,
         NEW rows \in Rows, NEW c \in CallState, NEW v \in ProviderState,
         pay' = [pay EXCEPT ![o][m] = rows], call' = [call EXCEPT ![o][m] = c],
         provider' = [provider EXCEPT ![o][m] = v],
         UNCHANGED <<left, method, cancelling>>,
         rows.job = "ready" => rows.tries > 0,
         order[o].status /= "none", NoneIsNew
  PROVE  PaymentsInv'
  <1>1. /\ left' \in [Order -> Nat] /\ method' \in [Order -> Method \cup {None}]
        /\ cancelling' \subseteq Order
    BY DEF PaymentsInv
  <1>2. /\ pay' \in [Order -> [Method -> Rows]]
        /\ call' \in [Order -> [Method -> CallState]]
        /\ provider' \in [Order -> [Method -> ProviderState]]
    BY DEF PaymentsInv, CallState, ProviderState
  <1>3. ASSUME NEW q \in Order, NEW n \in Method
        PROVE  /\ pay'[q][n].job = "ready" => pay'[q][n].tries > 0
               /\ order'[q].status = "none" => /\ pay'[q][n] = NoPayment
                                               /\ call'[q][n] = "none"
                                               /\ provider'[q][n] = "none"
    <2>1. CASE q = o /\ n = m
      <3>1. pay'[q][n] = rows
        BY <2>1 DEF PaymentsInv
      <3>2. order'[q].status /= "none"
        BY <2>1 DEF NoneIsNew
      <3>3. QED BY <3>1, <3>2
    <2>2. CASE q /= o \/ n /= m
      <3>1. /\ pay'[q][n] = pay[q][n] /\ call'[q][n] = call[q][n]
            /\ provider'[q][n] = provider[q][n]
        BY <2>2 DEF PaymentsInv
      <3>2. QED BY <3>1 DEF PaymentsInv, NoneIsNew
    <2>3. QED BY <2>1, <2>2
  <1>4. QED BY <1>1, <1>2, <1>3 DEF PaymentsInv, CallState, ProviderState

LEMMA PaymentsStay ==
  ASSUME PaymentsInv, UNCHANGED <<pay, call, provider>>, NoneIsNew,
         left' \in [Order -> Nat], method' \in [Order -> Method \cup {None}],
         cancelling' \subseteq Order
  PROVE  PaymentsInv'
  BY DEF PaymentsInv, NoneIsNew

(* Every step that touches a payment, as a change of its rows.             *)
LEMMA PaymentStep ==
  ASSUME PaymentsInv, NEW o \in Order, NEW m \in Method, NoneIsNew,
         Payment(o, m) \/ JobStep(o, m)
  PROVE  PaymentsInv'
  <1>1. /\ pay[o][m] \in Rows /\ call[o][m] \in CallState
        /\ provider[o][m] \in ProviderState
        /\ pay[o][m].job = "ready" => pay[o][m].tries > 0
        /\ pay = [pay EXCEPT ![o][m] = pay[o][m]]
        /\ call = [call EXCEPT ![o][m] = call[o][m]]
        /\ provider = [provider EXCEPT ![o][m] = provider[o][m]]
    BY PaymentsAre
  <1>2. Attached \in Rows /\ Attached.job = "ready" /\ Attached.tries > 0
    BY AmountsAssumption DEF Attached, Rows, Intent
  <1>3. ASSUME NEW rows \in Rows, rows.job = "ready" => rows.tries > 0,
               NEW c \in CallState, NEW v \in ProviderState,
               pay' = [pay EXCEPT ![o][m] = rows], call' = [call EXCEPT ![o][m] = c],
               provider' = [provider EXCEPT ![o][m] = v],
               UNCHANGED <<left, method, cancelling>>, order[o].status /= "none"
        PROVE  PaymentsInv'
    BY <1>3, PaymentMoves
  <1>4. ASSUME NEW rows \in Rows, rows.job = "ready" => rows.tries > 0,
               SetPay(o, m, rows), UNCHANGED <<call, provider, left, method, cancelling>>,
               order[o].status /= "none"
        PROVE  PaymentsInv'
    BY <1>1, <1>3, <1>4 DEF SetPay
  <1>5. CASE ReplaceMethod(o, m)
    <2>1. UNCHANGED <<pay, call, provider, left, cancelling>>
      BY <1>5 DEF ReplaceMethod
    <2>2. method' \in [Order -> Method \cup {None}]
      BY <1>5 DEF ReplaceMethod, PaymentsInv
    <2>3. left' \in [Order -> Nat] /\ cancelling' \subseteq Order
      BY <2>1 DEF PaymentsInv
    <2>4. QED BY <2>1, <2>2, <2>3, PaymentsStay
  <1>6. CASE ClaimIntent(o, m)
    <2>1. PICK rows : rows = [pay[o][m] EXCEPT !.intent = "executing"]
      OBVIOUS
    <2>2. rows \in Rows /\ (rows.job = "ready" => rows.tries > 0)
      BY <1>1, <2>1 DEF Rows, Intent
    <2>3. /\ pay' = [pay EXCEPT ![o][m] = rows]
          /\ call' = [call EXCEPT ![o][m] = "calling"]
          /\ provider' = [provider EXCEPT ![o][m] = provider[o][m]]
          /\ UNCHANGED <<left, method, cancelling>> /\ order[o].status /= "none"
      BY <1>1, <1>6, <2>1 DEF ClaimIntent, SetPay
    <2>4. "calling" \in CallState
      BY DEF CallState
    <2>5. QED BY <1>1, <1>3, <2>2, <2>3, <2>4
  <1>7. CASE ProviderAnswers(o, m)
    <2>1. PICK c \in {"created", "failed", "outcome_unknown"}, opened \in BOOLEAN :
            /\ call' = [call EXCEPT ![o][m] = c]
            /\ provider' = [provider EXCEPT ![o][m] = IF opened THEN "open" ELSE "none"]
      BY <1>7 DEF ProviderAnswers
    <2>2. PICK v \in ProviderState : v = IF opened THEN "open" ELSE "none"
      BY DEF ProviderState
    <2>3. /\ pay' = [pay EXCEPT ![o][m] = pay[o][m]] /\ call[o][m] = "calling"
          /\ UNCHANGED <<left, method, cancelling>>
      BY <1>1, <1>7 DEF ProviderAnswers
    <2>4. c \in CallState /\ order[o].status /= "none"
      BY <2>3, PaymentExists DEF CallState
    <2>5. QED BY <1>1, <1>3, <2>1, <2>2, <2>3, <2>4
  <1>8. CASE SaveCheckout(o, m)
    <2>1. PICK rows : rows = [pay[o][m] EXCEPT !.intent = call[o][m]]
      OBVIOUS
    <2>2. call[o][m] \in {"created", "outcome_unknown", "failed"}
      BY <1>8 DEF SaveCheckout
    <2>3. rows \in Rows /\ (rows.job = "ready" => rows.tries > 0)
      BY <1>1, <2>1, <2>2 DEF Rows, Intent
    <2>4. /\ pay' = [pay EXCEPT ![o][m] = rows] /\ call' = [call EXCEPT ![o][m] = "none"]
          /\ provider' = [provider EXCEPT ![o][m] = provider[o][m]]
          /\ UNCHANGED <<left, method, cancelling>>
      BY <1>1, <1>8, <2>1 DEF SaveCheckout, SetPay
    <2>5. "none" \in CallState /\ order[o].status /= "none"
      BY <2>2, PaymentExists DEF CallState
    <2>6. QED BY <1>1, <1>3, <2>3, <2>4, <2>5
  <1>9. CASE LoseCheckout(o, m)
    <2>1. /\ pay' = [pay EXCEPT ![o][m] = pay[o][m]]
          /\ call' = [call EXCEPT ![o][m] = "none"]
          /\ provider' = [provider EXCEPT ![o][m] = provider[o][m]]
          /\ UNCHANGED <<left, method, cancelling>> /\ call[o][m] /= "none"
      BY <1>1, <1>9 DEF LoseCheckout
    <2>2. "none" \in CallState /\ order[o].status /= "none"
      BY <2>1, PaymentExists DEF CallState
    <2>3. QED BY <1>1, <1>3, <2>1, <2>2
  <1>10. CASE Pay(o, m)
    <2>1. PICK v \in ProviderState : v = IF left[o] > 0 THEN "timely" ELSE "late"
      BY DEF ProviderState
    <2>2. /\ pay' = [pay EXCEPT ![o][m] = pay[o][m]]
          /\ call' = [call EXCEPT ![o][m] = call[o][m]]
          /\ provider' = [provider EXCEPT ![o][m] = v]
          /\ UNCHANGED <<left, method, cancelling>> /\ provider[o][m] = "open"
      BY <1>1, <1>10, <2>1 DEF Pay
    <2>3. order[o].status /= "none"
      BY <2>2, PaymentExists
    <2>4. QED BY <1>1, <1>3, <2>2, <2>3
  <1>11. CASE RecordFact(o, m) \/ ConfirmReceiptValuation(o, m) \/ RetryFact(o, m)
    <2>1. /\ UNCHANGED <<call, provider, left, method, cancelling>>
          /\ pay[o][m].fact /= "none" \/ pay[o][m].intent /= "none"
      BY <1>11 DEF RecordFact, ConfirmReceiptValuation, RetryFact
    <2>2. order[o].status /= "none"
      BY <2>1, PaymentExists
    <2>3. ASSUME NEW i \in {"verified_pending_receipt", "awaiting_settlement"},
                 NEW f \in {"pending", "awaiting"},
                 SetPay(o, m, [pay[o][m] EXCEPT !.intent = i, !.fact = f])
          PROVE  PaymentsInv'
      <3>1. PICK rows : rows = [pay[o][m] EXCEPT !.intent = i, !.fact = f]
        OBVIOUS
      <3>2. rows \in Rows /\ (rows.job = "ready" => rows.tries > 0)
        BY <1>1, <3>1 DEF Rows, Intent
      <3>3. SetPay(o, m, rows)
        BY <2>3, <3>1
      <3>4. QED BY <1>4, <2>1, <2>2, <3>2, <3>3
    <2>4. CASE Attach(o, m)
      BY <1>2, <1>4, <2>1, <2>2, <2>4 DEF Attach
    <2>5. CASE KeepPending(o, m)
      BY <2>3, <2>5 DEF KeepPending
    <2>6. CASE SetPay(o, m, [pay[o][m] EXCEPT !.intent = "awaiting_settlement",
                                              !.fact = "awaiting"])
      BY <2>3, <2>6
    <2>7. QED BY <1>11, <2>4, <2>5, <2>6
                 DEF RecordFact, ConfirmReceiptValuation, RetryFact
  <1>12. CASE StaffAllocate(o, m) \/ JobAllocate(o, m)
    <2>1. PICK rows : rows = [pay[o][m] EXCEPT !.receipt = "allocated"]
      OBVIOUS
    <2>2. rows \in Rows /\ (rows.job = "ready" => rows.tries > 0)
      BY <1>1, <2>1 DEF Rows
    <2>3. /\ SetPay(o, m, rows) /\ pay[o][m].receipt = "free"
          /\ UNCHANGED <<call, provider, left, method, cancelling>>
      BY <1>12, <2>1 DEF StaffAllocate, JobAllocate, AllocateReceipt, PaysWhole
    <2>4. order[o].status /= "none"
      BY <2>3, PaymentExists
    <2>5. QED BY <1>4, <2>2, <2>3, <2>4
  <1>13. CASE JobDeliver(o, m)
    <2>1. PICK rows : rows = [pay[o][m] EXCEPT !.job = "done"]
      OBVIOUS
    <2>2. rows \in Rows /\ (rows.job = "ready" => rows.tries > 0)
      BY <1>1, <2>1 DEF Rows
    <2>3. /\ SetPay(o, m, rows) /\ pay[o][m].job = "ready"
          /\ UNCHANGED <<call, provider, left, method, cancelling>>
      BY <1>13, <2>1 DEF JobDeliver
    <2>4. order[o].status /= "none"
      BY <2>3, PaymentExists
    <2>5. QED BY <1>4, <2>2, <2>3, <2>4
  <1>14. CASE JobFails(o, m)
    <2>1. PICK rows : rows = [pay[o][m] EXCEPT !.tries = @ - 1,
                                !.job = IF pay[o][m].tries = 1 THEN "dead" ELSE @]
      OBVIOUS
    <2>2. /\ SetPay(o, m, rows) /\ pay[o][m].job = "ready"
          /\ UNCHANGED <<call, provider, left, method, cancelling>>
      BY <1>14, <2>1 DEF JobFails
    <2>3. pay[o][m].tries \in Nat /\ pay[o][m].tries > 0
      BY <1>1, <2>2 DEF Rows
    <2>4. /\ rows.tries = pay[o][m].tries - 1
          /\ rows.job = IF pay[o][m].tries = 1 THEN "dead" ELSE "ready"
      BY <1>1, <2>1, <2>2 DEF Rows
    <2>5. rows \in Rows /\ (rows.job = "ready" => rows.tries > 0)
      <3>1. pay[o][m].tries - 1 \in Nat
        BY <2>3
      <3>2. rows \in Rows
        BY <1>1, <2>1, <3>1 DEF Rows
      <3>3. QED BY <2>3, <2>4, <3>2
    <2>6. order[o].status /= "none"
      BY <2>2, PaymentExists
    <2>7. QED BY <1>4, <2>2, <2>5, <2>6
  <1>15. QED BY <1>5, <1>6, <1>7, <1>8, <1>9, <1>10, <1>11, <1>12, <1>13, <1>14
                DEF Payment, JobStep

-----------------------------------------------------------------------------
(* The steps together.                                                     *)

LEMMA NewRow ==
  ASSUME OrdersInv, NEW o, NEW row, order' = [order EXCEPT ![o] = row], row.status /= "none"
  PROVE  NoneIsNew
  BY DEF OrdersInv, OrdersTyped, NoneIsNew

LEMMA DeliverIsNew ==
  ASSUME OrdersInv, NEW o, NEW t, NEW row \in Row, NEW c, Deliver(o, t, row, c)
  PROVE  NoneIsNew
  <1>1. PICK new : /\ order' = [order EXCEPT ![o] = new]
                   /\ new = [row EXCEPT !.status = "completed", !.reason = "",
                       !.internal = IF t.internal > 0 THEN "captured" ELSE @,
                       !.coverage = IF t.kind = "package" THEN "fulfilled" ELSE @,
                       !.place = IF @ = "none" THEN @ ELSE "fulfilled"]
    BY DEF Deliver
  <1>2. new.status = "completed"
    BY <1>1 DEF Row
  <1>3. QED BY <1>1, <1>2, NewRow

LEMMA GiveBackIsNew ==
  ASSUME OrdersInv, NEW o \in Order, order' = [order EXCEPT ![o] = GiveBack(o)]
  PROVE  NoneIsNew
  <1>1. order[o] \in Row
    BY DEF OrdersInv, OrdersTyped
  <1>2. GiveBack(o).status = "closed"
    BY <1>1 DEF GiveBack, Row
  <1>3. QED BY <1>2, NewRow

LEMMA CreateInv ==
  ASSUME IInv, NEW o \in Order, Create(o)
  PROVE  IInv'
  <1>1. OrdersInv /\ PaymentsInv
    BY DEF IInv
  <1>2. ASSUME NEW t \in Offers[o], NEW m \in Method \cup {None}, NEW selected \in BOOLEAN,
               CreatePackage(o, t, m, selected)
        PROVE  IInv'
    <2>1. OrdersInv'
      BY <1>1, <1>2, CreatePackageMoves
    <2>2. PICK row : row = [status |-> "pending", reason |-> "",
              internal |-> IF t.internal > 0 THEN "held" ELSE "none",
              coverage |-> "reserved",
              place |-> IF selected THEN "reserved" ELSE "none", allocated |-> 0]
      OBVIOUS
    <2>3. \/ \E c : Deliver(o, t, row, c)
          \/ order' = [order EXCEPT ![o] = row]
      BY <1>2, <2>2 DEF CreatePackage
    <2>4. row.status /= "none" /\ row \in Row
      BY <2>2 DEF Row, Commitment
    <2>5. NoneIsNew
      BY <1>1, <2>3, <2>4, DeliverIsNew, NewRow
    <2>6. /\ UNCHANGED <<pay, call, provider, left, cancelling>>
          /\ method' \in [Order -> Method \cup {None}]
      BY <1>1, <1>2 DEF CreatePackage, PaymentsInv
    <2>7. left' \in [Order -> Nat] /\ cancelling' \subseteq Order
      BY <1>1, <2>6 DEF PaymentsInv
    <2>8. QED BY <1>1, <2>1, <2>5, <2>6, <2>7, PaymentsStay DEF IInv
  <1>3. ASSUME NEW t \in Offers[o], NEW m \in Method, CreateTopUp(o, t, m)
        PROVE  IInv'
    <2>1. OrdersInv'
      BY <1>1, <1>3, CreateTopUpMoves
    <2>2. order[o] \in Row /\ order \in [Order -> Row]
      BY <1>1 DEF OrdersInv, OrdersTyped
    <2>3. PICK row : row = [order[o] EXCEPT !.status = "pending"]
      OBVIOUS
    <2>4. order' = [order EXCEPT ![o] = row] /\ row.status /= "none"
      BY <1>3, <2>2, <2>3 DEF CreateTopUp, Row
    <2>5. NoneIsNew
      BY <1>1, <2>4, NewRow
    <2>6. /\ UNCHANGED <<pay, call, provider, left, cancelling>>
          /\ method' \in [Order -> Method \cup {None}]
      BY <1>1, <1>3 DEF CreateTopUp, PaymentsInv
    <2>7. left' \in [Order -> Nat] /\ cancelling' \subseteq Order
      BY <1>1, <2>6 DEF PaymentsInv
    <2>8. QED BY <1>1, <2>1, <2>5, <2>6, <2>7, PaymentsStay DEF IInv
  <1>4. QED BY <1>2, <1>3 DEF Create

LEMMA FulfillInv ==
  ASSUME IInv, NEW o \in Order, Fulfill(o)
  PROVE  OrdersInv' /\ NoneIsNew
  <1>1. OrdersInv /\ order[o] \in Row
    BY DEF IInv, OrdersInv, OrdersTyped
  <1>2. Deliver(o, terms[o], order[o], campaign)
    BY DEF Fulfill
  <1>3. QED BY <1>1, <1>2, FulfillMoves, DeliverIsNew

(* What the payment of an order can do to the order.                       *)
LEMMA PaymentSteps ==
  ASSUME NEW o \in Order, NEW m \in Method, Payment(o, m) \/ JobStep(o, m)
  PROVE  \/ UNCHANGED <<orderVars, ledgerVars>>
         \/ \E rows : AllocateReceipt(o, m, rows)
         \/ Fulfill(o)
  <1>1. CASE JobStep(o, m)
    BY <1>1 DEF JobStep, JobAllocate, JobDeliver, JobFails
  <1>2. CASE StaffAllocate(o, m)
    BY <1>2 DEF StaffAllocate
  <1>3. CASE Payment(o, m) /\ ~StaffAllocate(o, m)
    BY <1>3 DEF Payment, ReplaceMethod, ClaimIntent, ProviderAnswers, SaveCheckout,
                LoseCheckout, Pay, RecordFact, ConfirmReceiptValuation, RetryFact
  <1>4. QED BY <1>1, <1>2, <1>3

LEMMA PaymentInv ==
  ASSUME IInv, NEW o \in Order, NEW m \in Method, Payment(o, m) \/ JobStep(o, m)
  PROVE  IInv'
  <1>1. OrdersInv /\ PaymentsInv
    BY DEF IInv
  <1>2. OrdersInv' /\ NoneIsNew
    <2>1. CASE UNCHANGED <<orderVars, ledgerVars>>
      BY <1>1, <2>1, OrdersStay DEF NoneIsNew, orderVars
    <2>2. ASSUME NEW rows, AllocateReceipt(o, m, rows)
          PROVE  OrdersInv' /\ NoneIsNew
      <3>1. order[o].status /= "none"
        BY <1>1, <2>2, PaymentExists DEF AllocateReceipt, PaysWhole
      <3>2. OrdersInv'
        BY <1>1, <2>2, <3>1, AllocateMoves
      <3>3. order[o] \in Row
        BY <1>1 DEF OrdersInv, OrdersTyped
      <3> DEFINE gone == \/ order[o].status = "closed" \/ order[o].coverage = "released"
                         \/ order[o].internal = "released"
      <3>4. PICK row :
              /\ order' = [order EXCEPT ![o] = row]
              /\ row = [order[o] EXCEPT !.allocated = terms[o].external,
                          !.status = IF gone THEN "exception" ELSE "paid",
                          !.reason = IF gone THEN "restore" ELSE @]
        BY <2>2 DEF AllocateReceipt
      <3>5. row.status /= "none"
        BY <3>3, <3>4 DEF Row
      <3>6. QED BY <1>1, <3>2, <3>4, <3>5, NewRow
    <2>3. CASE Fulfill(o)
      BY <2>3, FulfillInv
    <2>4. \/ UNCHANGED <<orderVars, ledgerVars>>
          \/ \E rows : AllocateReceipt(o, m, rows)
          \/ Fulfill(o)
      BY PaymentSteps
    <2>5. QED BY <2>1, <2>2, <2>3, <2>4
  <1>3. QED BY <1>1, <1>2, PaymentStep DEF IInv

LEMMA ResolutionInv ==
  ASSUME IInv, NEW o \in Order, Resolution(o)
  PROVE  IInv'
  <1>1. OrdersInv /\ PaymentsInv
    BY DEF IInv
  <1>2. OrdersInv' /\ NoneIsNew
    <2>1. CASE UNCHANGED <<orderVars, ledgerVars>>
      BY <1>1, <2>1, OrdersStay DEF NoneIsNew, orderVars
    <2>2. CASE Fulfill(o)
      BY <2>2, FulfillInv
    <2>3. CASE CloseOrder(o)
      <3>1. OrdersInv' \/ UNCHANGED <<orderVars, ledgerVars>>
        BY <1>1, <2>3, CloseMoves
      <3>2. order' = [order EXCEPT ![o] = GiveBack(o)] \/ UNCHANGED order
        BY <2>3 DEF CloseOrder
      <3>3. NoneIsNew
        BY <1>1, <3>2, GiveBackIsNew DEF NoneIsNew
      <3>4. QED BY <2>1, <3>1, <3>3
    <2>4. CASE ApproveRefund(o)
      <3>1. order' = [order EXCEPT ![o] = GiveBack(o)]
        BY <2>4 DEF ApproveRefund
      <3>2. QED BY <1>1, <2>4, <3>1, ApproveMoves, GiveBackIsNew
    <2>5. CASE RequestRefund(o) \/ RejectRefund(o)
      <3>1. OrdersInv'
        BY <1>1, <2>5, RequestMoves, RejectMoves
      <3>2. order[o] \in Row /\ order \in [Order -> Row]
        BY <1>1 DEF OrdersInv, OrdersTyped
      <3>3. PICK status \in {"exception", "paid"}, reason \in {"", "refund", "restore"} :
              order' = [order EXCEPT ![o].status = status, ![o].reason = reason]
        BY <2>5 DEF RequestRefund, RejectRefund
      <3>4. order'[o].status = status /\ \A q \in Order \ {o} : order'[q] = order[q]
        BY <3>2, <3>3 DEF Row
      <3>5. NoneIsNew
        BY <3>4 DEF NoneIsNew
      <3>6. QED BY <3>1, <3>5
    <2>6. CASE CancelOrder(o) \/ ExpireUnpaidOrder(o) \/ Tick(o)
      BY <2>1, <2>6 DEF CancelOrder, ExpireUnpaidOrder, BeginCancel, Tick
    <2>7. QED BY <2>2, <2>3, <2>4, <2>5, <2>6 DEF Resolution, RecoverDelivery
  <1>3. PaymentsInv'
    <2>1. UNCHANGED <<pay, call, provider, method>>
      BY DEF Resolution, RecoverDelivery, CancelOrder, ExpireUnpaidOrder, BeginCancel,
             CloseOrder, RequestRefund, RejectRefund, ApproveRefund, Tick, payVars
    <2>2. left' \in [Order -> Nat]
      <3>1. CASE Tick(o)
        <4>1. /\ left' = [left EXCEPT ![o] = left[o] - 1] /\ left[o] > 0
              /\ left \in [Order -> Nat]
          BY <1>1, <3>1 DEF Tick, PaymentsInv
        <4>2. left[o] - 1 \in Nat
          BY <4>1
        <4>3. QED BY <4>1, <4>2
      <3>2. CASE ~Tick(o)
        BY <1>1, <3>2 DEF Resolution, RecoverDelivery, CancelOrder, ExpireUnpaidOrder,
             BeginCancel, CloseOrder, RequestRefund, RejectRefund, ApproveRefund,
             PaymentsInv
      <3>3. QED BY <3>1, <3>2
    <2>3. cancelling' \subseteq Order
      BY <1>1 DEF Resolution, RecoverDelivery, CancelOrder, ExpireUnpaidOrder, BeginCancel,
             CloseOrder, RequestRefund, RejectRefund, ApproveRefund, Tick, PaymentsInv
    <2>4. method' \in [Order -> Method \cup {None}]
      BY <1>1, <2>1 DEF PaymentsInv
    <2>5. QED BY <1>1, <1>2, <2>1, <2>2, <2>3, <2>4, PaymentsStay
  <1>4. QED BY <1>2, <1>3 DEF IInv

LEMMA InitInv == Init => IInv
  <1> SUFFICES ASSUME Init PROVE IInv
    OBVIOUS
  <1>1. OrdersTyped
    BY AmountsAssumption DEF Init, OrdersTyped, Row, Commitment
  <1>2. ASSUME NEW o \in Order
        PROVE  /\ order[o] = Untouched /\ funds[o] = 0 /\ payable[o] = 0 /\ delivered[o] = 0
    BY DEF Init, Untouched
  <1>3. ASSUME NEW o \in Order
        PROVE  OrderSound(order[o], terms[o], funds[o], payable[o], delivered[o])
    <2>1. Untouched.status = "none"
      BY DEF Untouched
    <2>2. QED BY <1>2, <2>1 DEF OrderSound
  <1>4. ASSUME NEW o \in Order
        PROVE  HoldOf[o] = 0 /\ OnOrder[o] = 0 /\ Received[o] = 0
    <2>1. Hold(terms[o], order[o]) = 0 /\ order[o].allocated = 0
      BY <1>2, NothingHeld
    <2>2. QED BY <1>2, <2>1 DEF HoldOf, OnOrder, Received, Hold
  <1>5. /\ SumFunctionOnSet(HoldOf, Order) = 0 /\ SumFunctionOnSet(OnOrder, Order) = 0
        /\ SumFunctionOnSet(Received, Order) = 0
    BY <1>4, OrdersAssumption, SumZero
  <1>6. InState(Place, "reserved") = {} /\ InState(Place, "fulfilled") = {}
    <2>1. \A o \in Order : order[o].place = "none"
      BY <1>2, NothingHeld
    <2>2. QED BY <2>1 DEF InState, Place
  <1>7. Sums
    <2>1. Cardinality({}) = 0
      BY FS_EmptySet
    <2>2. money = Wallet /\ sales = 0 /\ campaign.reserved = 0 /\ campaign.used = 0
      BY DEF Init
    <2>3. QED BY <1>5, <1>6, <2>1, <2>2, AmountsAssumption DEF Sums, Held
  <1>8. PaymentsInv
    <2>1. NoPayment \in Rows /\ NoPayment.job /= "ready"
      BY DEF NoPayment, Rows, Intent
    <2>2. QED BY <2>1, AmountsAssumption DEF Init, PaymentsInv
  <1>9. QED BY <1>1, <1>3, <1>7, <1>8 DEF IInv, OrdersInv

LEMMA StepInv == ASSUME IInv, [Next]_vars PROVE IInv'
  <1>1. CASE Next
    BY <1>1, CreateInv, PaymentInv, ResolutionInv DEF Next
  <1>2. CASE UNCHANGED vars
    <2>1. /\ UNCHANGED <<orderVars, ledgerVars>> /\ NoneIsNew
          /\ UNCHANGED <<method, pay, call, provider, left, cancelling>>
      BY <1>2 DEF vars, payVars, NoneIsNew, orderVars
    <2>2. OrdersInv'
      BY <2>1, OrdersStay DEF IInv
    <2>3. PaymentsInv'
      BY <2>1, PaymentsStay DEF IInv, PaymentsInv
    <2>4. QED BY <2>2, <2>3 DEF IInv
  <1>3. QED BY <1>1, <1>2

(* IInv holds always: the commitments and the payment of every order agree *)
(* with its status, and the wallet, the holds and the campaign are the     *)
(* sums of what the orders show.                                           *)
THEOREM OrdersAgree == Spec => []IInv
  BY InitInv, StepInv, PTL DEF Spec

(* Columns keep their types: no balance, counter or number of tries ever   *)
(* becomes negative.                                                       *)
THEOREM TypeCorrect == Spec => []TypeOK
  <1>1. IInv => TypeOK
    BY DEF IInv, OrdersInv, OrdersTyped, PaymentsInv, TypeOK
  <1>2. QED BY <1>1, OrdersAgree, PTL

(* Fulfill, AllocateReceipt, CloseOrder and the refund of a package: an    *)
(* order is delivered exactly when it completes, its payment is on the     *)
(* order, spent or owed back, and no money is made or lost, in whatever    *)
(* order payments, workers, staff and cancellations come.                  *)
THEOREM OneOutcomeAlways == Spec => []OneOutcome
  <1>1. IInv => OneOutcome
    <2> SUFFICES ASSUME IInv PROVE OneOutcome
      OBVIOUS
    <2>1. ASSUME NEW o \in Order
          PROVE  /\ delivered[o] = IF order[o].status = "completed" THEN 1 ELSE 0
                 /\ payable[o] > 0 => order[o].status = "closed"
                 /\ funds[o] = IF order[o].status = "completed" \/ payable[o] > 0
                               THEN 0 ELSE order[o].allocated
      <3>1. /\ funds[o] \in Nat /\ payable[o] \in Nat /\ order[o] \in Row
            /\ order[o].allocated \in Nat
        BY RowIs DEF IInv, OrdersInv, OrdersTyped
      <3>2. CASE order[o].status = "none"
        <4>1. /\ funds[o] = 0 /\ payable[o] = 0 /\ delivered[o] = 0
              /\ order[o].allocated = 0
          BY <3>2, OrderIsNot DEF IInv
        <4>2. ~(payable[o] > 0)
          BY <4>1
        <4>3. QED BY <3>2, <4>1, <4>2
      <3>3. CASE order[o].status /= "none"
        <4>1. Accounted(order[o], terms[o], funds[o], payable[o], delivered[o])
          BY <3>3, OrderIs DEF IInv
        <4>2. /\ delivered[o] = IF order[o].status = "completed" THEN 1 ELSE 0
              /\ payable[o] > 0 => order[o].status = "closed"
          BY <4>1 DEF Accounted
        <4>3. CASE order[o].status = "closed"
          <5>1. funds[o] = 0 /\ payable[o] = order[o].allocated
            BY <4>1, <4>3 DEF Accounted
          <5>2. order[o].allocated > 0 \/ order[o].allocated = 0
            BY <3>1
          <5>3. QED BY <4>2, <4>3, <5>1, <5>2
        <4>4. CASE order[o].status /= "closed"
          <5>1. /\ ~(payable[o] > 0)
                /\ funds[o] = IF order[o].status = "completed" THEN 0 ELSE order[o].allocated
            BY <4>1, <4>4 DEF Accounted
          <5>2. QED BY <4>2, <5>1
        <4>5. QED BY <4>3, <4>4
      <3>4. QED BY <3>2, <3>3
    <2>2. money + sales + SumFunctionOnSet(OnOrder, Order)
            = Wallet + SumFunctionOnSet(Received, Order)
      BY DEF IInv, OrdersInv, Sums
    <2>3. QED BY <2>1, <2>2 DEF OneOutcome
  <1>2. QED BY <1>1, OrdersAgree, PTL

(* CreatePackage, GiveBack, Fulfill and RejectRefund: what an order holds  *)
(* of the wallet, the supply and the campaign follows its status, the      *)
(* wallet covers every hold, and the campaign counts its places.           *)
THEOREM CommitmentsAlwaysFollow == Spec => []CommitmentsFollowOrder
  <1>1. IInv => CommitmentsFollowOrder
    <2> SUFFICES ASSUME IInv PROVE CommitmentsFollowOrder
      OBVIOUS
    <2> DEFINE keep(o, status) ==
          /\ order[o].internal = IF terms[o].internal = 0 THEN "none" ELSE
               CASE status = "reserved" -> "held" [] status = "released" -> "released"
                 [] OTHER -> "captured"
          /\ order[o].coverage = IF terms[o].kind = "topup" THEN "none" ELSE status
          /\ order[o].place \in {"none", status}
    <2>1. ASSUME NEW o \in Created
          PROVE  CASE order[o].status \in {"pending", "paid"} -> keep(o, "reserved")
                   [] order[o].status = "closed" \/ order[o].reason = "restore"
                        -> keep(o, "released")
                   [] order[o].reason = "refund" -> keep(o, "reserved") \/ keep(o, "released")
                   [] OTHER -> keep(o, "fulfilled")
      <3>1. o \in Order /\ order[o].status /= "none"
        BY DEF Created
      <3>2. /\ order[o] \in Row /\ terms[o].internal \in Nat
            /\ Committed(order[o], terms[o])
        BY <3>1, OrderIs DEF IInv
      <3>3. ASSUME NEW status \in {"reserved", "released", "fulfilled"},
                   Keeps(order[o], terms[o], status)
            PROVE  keep(o, status)
        <4>1. terms[o].internal = 0 \/ terms[o].internal > 0
          BY <3>2
        <4>2. QED BY <3>3, <4>1 DEF Keeps
      <3> HIDE DEF keep
      <3>4. CASE order[o].status \in {"pending", "paid"}
        BY <3>2, <3>3, <3>4 DEF Committed
      <3>5. CASE order[o].status = "closed"
        BY <3>2, <3>3, <3>5 DEF Committed
      <3>6. CASE order[o].status = "exception"
        BY <3>2, <3>3, <3>6 DEF Committed, Row
      <3>7. CASE order[o].status = "completed"
        BY <3>2, <3>3, <3>7 DEF Committed
      <3>8. order[o].status \in {"pending", "paid", "closed", "exception", "completed"}
        BY <3>1, <3>2 DEF Row
      <3>9. QED BY <3>4, <3>5, <3>6, <3>7, <3>8
    <2>2. /\ Held <= money
          /\ campaign.reserved = Cardinality(InState(Place, "reserved"))
          /\ campaign.used = Cardinality(InState(Place, "fulfilled"))
      BY DEF IInv, OrdersInv, Sums
    <2>3. QED BY <2>1, <2>2 DEF CommitmentsFollowOrder
  <1>2. QED BY <1>1, OrdersAgree, PTL

-----------------------------------------------------------------------------
(* Every step is one of Sale or changes nothing of it.                     *)

(* The stage of a sale that a row shows, and what of it a step changes.    *)
LEMMA StageIs ==
  ASSUME NEW row
  PROVE  /\ row.status = "none" => Stage(row) = "none"
         /\ row.status = "pending" => Stage(row) = "open"
         /\ row.status \in {"paid", "exception"} => Stage(row) = "paid"
         /\ row.status = "completed" => Stage(row) = "delivered"
         /\ row.status = "closed" /\ row.allocated = 0 => Stage(row) = "cancelled"
         /\ row.status = "closed" /\ row.allocated /= 0 => Stage(row) = "refunded"
  BY DEF Stage

LEMMA StageMoves ==
  ASSUME OrdersInv, NEW o \in Order, NEW row, order' = [order EXCEPT ![o] = row],
         NEW from, Stage(order[o]) \in from
  PROVE  Sale!Move(o, from, Stage(row))
  <1>1. order'[o] = row /\ \A q \in Order \ {o} : order'[q] = order[q]
    BY DEF OrdersInv, OrdersTyped
  <1>2. \A q \in Order : Stage(order'[q]) = IF q = o THEN Stage(row) ELSE Stage(order[q])
    BY <1>1
  <1>3. [q \in Order |-> Stage(order'[q])]
          = [[q \in Order |-> Stage(order[q])] EXCEPT ![o] = Stage(row)]
    BY <1>2
  <1>4. [q \in Order |-> Stage(order[q])][o] \in from
    OBVIOUS
  <1> QED BY <1>3, <1>4 DEF Sale!Move

LEMMA StageStays ==
  ASSUME OrdersInv, \A q \in Order : Stage(order'[q]) = Stage(order[q]),
         UNCHANGED <<terms, money, sales, funds, payable>>
  PROVE  UNCHANGED Sale!saleVars
  BY DEF Sale!saleVars

LEMMA CreateSells ==
  ASSUME IInv, NEW o \in Order, Create(o)
  PROVE  Sale!SaleNext
  <1>1. OrdersInv /\ order[o] \in Row /\ money \in Nat /\ sales \in Nat
    BY DEF IInv, OrdersInv, OrdersTyped
  <1>2. ASSUME NEW t \in Offers[o], NEW m \in Method \cup {None}, NEW selected \in BOOLEAN,
               CreatePackage(o, t, m, selected)
        PROVE  Sale!Ask(o, t) \/ Sale!Buy(o, t)
    <2> DEFINE row == [status |-> "pending", reason |-> "",
                       internal |-> IF t.internal > 0 THEN "held" ELSE "none",
                       coverage |-> "reserved",
                       place |-> IF selected THEN "reserved" ELSE "none", allocated |-> 0]
               c == IF selected THEN [campaign EXCEPT !.reserved = @ + 1] ELSE campaign
    <2>1. /\ order[o].status = "none" /\ t.kind = "package" /\ Available >= t.internal
          /\ terms' = [terms EXCEPT ![o] = t]
          /\ \/ t.external = 0 /\ Deliver(o, t, row, c)
             \/ /\ t.external /= 0 /\ order' = [order EXCEPT ![o] = row]
                /\ UNCHANGED <<ledgerVars, delivered>>
      BY <1>2 DEF CreatePackage
    <2>2. t \in Terms /\ t.internal \in Nat /\ t.external \in Nat
      BY OffersAssumption DEF Terms
    <2>3. Stage(order[o]) = "none"
      BY <2>1, StageIs
    <2>4. row.status = "pending" /\ row \in Row /\ row.allocated = 0
      BY DEF Row, Commitment
    <2> HIDE DEF row, c
    <2>5. CASE t.external = 0 /\ Deliver(o, t, row, c)
      <3>1. PICK new : /\ order' = [order EXCEPT ![o] = new]
                       /\ new = [row EXCEPT !.status = "completed", !.reason = "",
                           !.internal = IF t.internal > 0 THEN "captured" ELSE @,
                           !.coverage = IF t.kind = "package" THEN "fulfilled" ELSE @,
                           !.place = IF @ = "none" THEN @ ELSE "fulfilled"]
        BY <2>5 DEF Deliver
      <3>2. new.status = "completed"
        BY <2>4, <3>1 DEF Row
      <3>3. Sale!Move(o, {"none"}, "delivered")
        <4>1. Stage(new) = "delivered"
          BY <3>2, StageIs
        <4>2. order' = [order EXCEPT ![o] = new]
          BY <3>1
        <4>3. QED BY <1>1, <2>3, <4>1, <4>2, StageMoves
      <3>4. /\ money' = money + (-t.internal) /\ sales' = sales + (t.internal + row.allocated)
            /\ funds' = [funds EXCEPT ![o] = @ - t.external] /\ payable' = payable
        BY <2>1, <2>5 DEF Deliver
      <3>5. funds' = funds
        <4>1. funds \in [Order -> Nat]
          BY <1>1 DEF OrdersInv, OrdersTyped
        <4>2. funds[o] - t.external = funds[o]
          BY <2>5, <4>1
        <4>3. QED BY <3>4, <4>1, <4>2
      <3>6. money' = money - t.internal /\ sales' = sales + t.internal
        BY <1>1, <2>2, <2>4, <3>4
      <3>7. t.internal <= money
        <4>1. Held \in Nat
          BY <1>1, HeldIs
        <4>2. money - Held >= t.internal
          BY <2>1 DEF Available
        <4>3. QED BY <1>1, <2>2, <4>1, <4>2
      <3>8. QED BY <2>1, <2>5, <3>3, <3>4, <3>5, <3>6, <3>7 DEF Sale!Buy
    <2>6. CASE /\ t.external /= 0 /\ order' = [order EXCEPT ![o] = row]
               /\ UNCHANGED <<ledgerVars, delivered>>
      <3>1. Stage(row) = "open"
        BY <2>4, StageIs
      <3>2. Sale!Move(o, {"none"}, "open")
        BY <1>1, <2>3, <2>6, <3>1, StageMoves
      <3>3. t.external > 0
        BY <2>2, <2>6
      <3>4. QED BY <2>1, <2>6, <3>2, <3>3 DEF Sale!Ask, ledgerVars
    <2>7. QED BY <2>1, <2>5, <2>6
  <1>3. ASSUME NEW t \in Offers[o], NEW m \in Method, CreateTopUp(o, t, m)
        PROVE  Sale!Ask(o, t)
    <2>1. PICK row : row = [order[o] EXCEPT !.status = "pending"]
      OBVIOUS
    <2>2. /\ order[o].status = "none" /\ order' = [order EXCEPT ![o] = row]
          /\ terms' = [terms EXCEPT ![o] = t] /\ UNCHANGED <<money, sales, funds, payable>>
      BY <1>3, <2>1 DEF CreateTopUp, ledgerVars
    <2>3. Stage(order[o]) = "none" /\ Stage(row) = "open"
      <3>1. row.status = "pending"
        BY <1>1, <2>1 DEF Row
      <3>2. QED BY <2>2, <3>1, StageIs
    <2>4. Sale!Move(o, {"none"}, "open")
      BY <1>1, <2>2, <2>3, StageMoves
    <2>5. t.external > 0
      BY <1>3, OffersAssumption DEF CreateTopUp, Terms
    <2>6. QED BY <2>2, <2>4, <2>5 DEF Sale!Ask
  <1>4. QED BY <1>2, <1>3 DEF Create, Sale!SaleNext

LEMMA FulfillSells ==
  ASSUME IInv, NEW o \in Order, Fulfill(o), IInv'
  PROVE  Sale!Deliver(o)
  <1>1. /\ OrdersInv /\ order[o] \in Row /\ money \in Nat /\ sales \in Nat
        /\ funds \in [Order -> Nat] /\ money' \in Nat
    BY DEF IInv, OrdersInv, OrdersTyped
  <1>2. /\ order[o].status \in {"paid", "exception"}
        /\ order[o].allocated = terms[o].external
        /\ Deliver(o, terms[o], order[o], campaign) /\ terms' = terms
    BY DEF Fulfill
  <1>3. PICK new : /\ order' = [order EXCEPT ![o] = new]
                   /\ new = [order[o] EXCEPT !.status = "completed", !.reason = "",
                       !.internal = IF terms[o].internal > 0 THEN "captured" ELSE @,
                       !.coverage = IF terms[o].kind = "package" THEN "fulfilled" ELSE @,
                       !.place = IF @ = "none" THEN @ ELSE "fulfilled"]
    BY <1>2 DEF Deliver
  <1>4. Sale!Move(o, {"paid"}, "delivered")
    <2>1. new.status = "completed"
      BY <1>1, <1>3 DEF Row
    <2>2. Stage(new) = "delivered" /\ Stage(order[o]) = "paid"
      BY <1>2, <2>1, StageIs
    <2>3. order' = [order EXCEPT ![o] = new]
      BY <1>3
    <2>4. QED BY <1>1, <2>2, <2>3, StageMoves
  <1>5. /\ Accounted(order[o], terms[o], funds[o], payable[o], delivered[o])
        /\ terms[o].internal \in Nat /\ terms[o].external \in Nat
    BY <1>1, <1>2, OrderIs
  <1>6. funds[o] = terms[o].external /\ order[o].allocated = funds[o]
    BY <1>2, <1>5 DEF Accounted
  <1>7. funds' = [funds EXCEPT ![o] = 0] /\ payable' = payable
    <2>1. funds[o] - terms[o].external = 0
      BY <1>5, <1>6
    <2>2. funds' = [funds EXCEPT ![o] = funds[o] - terms[o].external] /\ payable' = payable
      BY <1>2 DEF Deliver
    <2>3. QED BY <2>1, <2>2
  <1>8. CASE terms[o].kind = "topup"
    <2>1. money' = money + terms[o].external /\ sales' = sales + 0
      BY <1>2, <1>8 DEF Deliver
    <2>2. money' = money + funds[o] /\ sales' = sales
      BY <1>1, <1>6, <2>1
    <2>3. QED BY <1>2, <1>4, <1>7, <1>8, <2>2 DEF Sale!Deliver
  <1>9. CASE terms[o].kind /= "topup"
    <2>1. /\ money' = money + (-terms[o].internal)
          /\ sales' = sales + (terms[o].internal + order[o].allocated)
      BY <1>2, <1>9 DEF Deliver
    <2>2. money' = money - terms[o].internal /\ terms[o].internal <= money
      BY <1>1, <1>5, <2>1
    <2>3. sales' = sales + (terms[o].internal + funds[o])
      BY <1>6, <2>1
    <2>4. QED BY <1>2, <1>4, <1>7, <1>9, <2>2, <2>3 DEF Sale!Deliver
  <1>10. QED BY <1>8, <1>9

LEMMA AllocateSells ==
  ASSUME IInv, NEW o \in Order, NEW m \in Method, NEW rows, AllocateReceipt(o, m, rows)
  PROVE  Sale!Pay(o)
  <1>1. OrdersInv /\ PaymentsInv /\ order[o] \in Row /\ funds \in [Order -> Nat]
    BY DEF IInv, OrdersInv, OrdersTyped
  <1>2. order[o].status /= "none"
    BY <1>1, PaymentExists DEF AllocateReceipt, PaysWhole
  <1> DEFINE gone == \/ order[o].status = "closed" \/ order[o].coverage = "released"
                     \/ order[o].internal = "released"
  <1>3. PICK row :
          /\ row = [order[o] EXCEPT !.allocated = terms[o].external,
                      !.status = IF gone THEN "exception" ELSE "paid",
                      !.reason = IF gone THEN "restore" ELSE @]
          /\ order' = [order EXCEPT ![o] = row]
          /\ funds' = [funds EXCEPT ![o] = @ + terms[o].external]
          /\ UNCHANGED <<terms, money, sales, payable>>
          /\ order[o].status /= "completed" /\ order[o].allocated = 0
    BY DEF AllocateReceipt, PaysWhole
  <1>4. row.status \in {"paid", "exception"}
    BY <1>1, <1>3 DEF Row
  <1>5. /\ Accounted(order[o], terms[o], funds[o], payable[o], delivered[o])
        /\ terms[o].external \in Nat
    BY <1>1, <1>2, OrderIs
  <1>6. order[o].status \in {"pending", "closed"}
    <2>1. order[o].status \in {"paid", "exception"} => terms[o].external = 0
      BY <1>3, <1>5 DEF Accounted
    <2>2. terms[o].external > 0
      BY <1>3, <1>5 DEF Accounted
    <2>3. order[o].status \notin {"paid", "exception"}
      BY <1>5, <2>1, <2>2
    <2>4. QED BY <1>1, <1>2, <1>3, <2>3 DEF Row
  <1>7. Sale!Move(o, {"open", "cancelled"}, "paid")
    <2>1. Stage(row) = "paid" /\ Stage(order[o]) \in {"open", "cancelled"}
      BY <1>3, <1>4, <1>6, StageIs
    <2>2. QED BY <1>1, <1>3, <2>1, StageMoves
  <1>8. funds' = [funds EXCEPT ![o] = terms[o].external]
    <2>1. funds[o] = 0
      BY <1>3, <1>5, <1>6 DEF Accounted
    <2>2. funds[o] + terms[o].external = terms[o].external
      BY <1>5, <2>1
    <2>3. QED BY <1>3, <2>2
  <1>9. QED BY <1>3, <1>7, <1>8 DEF Sale!Pay

(* What is given back of a row: its payment stays noted on it.             *)
LEMMA GivenBackIs ==
  ASSUME NEW o \in Order, order[o] \in Row
  PROVE  GiveBack(o).status = "closed" /\ GiveBack(o).allocated = order[o].allocated
  BY DEF GiveBack, Row

LEMMA CloseSells ==
  ASSUME IInv, NEW o \in Order, CloseOrder(o)
  PROVE  Sale!Cancel(o) \/ UNCHANGED Sale!saleVars
  <1>1. OrdersInv /\ order[o] \in Row
    BY DEF IInv, OrdersInv, OrdersTyped
  <1>2. UNCHANGED <<terms, money, sales, funds, payable>>
    BY DEF CloseOrder, ledgerVars
  <1>3. CASE order[o].status = "pending" /\ order[o].allocated = 0
    <2>1. order' = [order EXCEPT ![o] = GiveBack(o)]
      BY <1>3 DEF CloseOrder
    <2>2. Stage(order[o]) = "open" /\ Stage(GiveBack(o)) = "cancelled"
      BY <1>1, <1>3, GivenBackIs, StageIs
    <2>3. Sale!Move(o, {"open"}, "cancelled")
      BY <1>1, <2>1, <2>2, StageMoves
    <2>4. QED BY <1>2, <2>3 DEF Sale!Cancel
  <1>4. CASE ~(order[o].status = "pending" /\ order[o].allocated = 0)
    <2>1. order' = order
      BY <1>4 DEF CloseOrder
    <2>2. QED BY <1>1, <1>2, <2>1, StageStays
  <1>5. QED BY <1>3, <1>4

LEMMA ApproveSells ==
  ASSUME IInv, NEW o \in Order, ApproveRefund(o)
  PROVE  Sale!Refund(o)
  <1>1. /\ OrdersInv /\ order[o] \in Row
        /\ funds \in [Order -> Nat] /\ payable \in [Order -> Nat]
    BY DEF IInv, OrdersInv, OrdersTyped
  <1>2. /\ order[o].reason = "refund"
        /\ order' = [order EXCEPT ![o] = GiveBack(o)]
        /\ funds' = [funds EXCEPT ![o] = @ - order[o].allocated]
        /\ payable' = [payable EXCEPT ![o] = @ + order[o].allocated]
        /\ UNCHANGED <<terms, money, sales>>
    BY DEF ApproveRefund
  <1>3. order[o].status /= "none"
    BY <1>1, <1>2, RefundExists
  <1>4. /\ Committed(order[o], terms[o]) /\ terms[o].external \in Nat
        /\ Accounted(order[o], terms[o], funds[o], payable[o], delivered[o])
    BY <1>1, <1>3, OrderIs
  <1>5. order[o].status = "exception" /\ terms[o].kind = "package"
    BY <1>2, <1>4 DEF Committed
  <1>6. /\ order[o].allocated > 0 /\ order[o].allocated \in Nat
        /\ funds[o] = order[o].allocated /\ payable[o] = 0
    BY <1>1, <1>4, <1>5 DEF Accounted, Row
  <1>7. Sale!Move(o, {"paid"}, "refunded")
    <2>1. GiveBack(o).status = "closed" /\ GiveBack(o).allocated /= 0
      BY <1>1, <1>6, GivenBackIs
    <2>2. Stage(order[o]) = "paid" /\ Stage(GiveBack(o)) = "refunded"
      BY <1>5, <2>1, StageIs
    <2>3. QED BY <1>1, <1>2, <2>2, StageMoves
  <1>8. funds' = [funds EXCEPT ![o] = 0] /\ payable' = [payable EXCEPT ![o] = funds[o]]
    <2>1. funds[o] - order[o].allocated = 0 /\ payable[o] + order[o].allocated = funds[o]
      BY <1>6
    <2>2. QED BY <1>2, <2>1
  <1>9. QED BY <1>2, <1>5, <1>7, <1>8 DEF Sale!Refund

(* Asking for a refund and rejecting it leave the order paid.              *)
LEMMA ReviewSells ==
  ASSUME IInv, NEW o \in Order, RequestRefund(o) \/ RejectRefund(o)
  PROVE  UNCHANGED Sale!saleVars
  <1>1. OrdersInv /\ order \in [Order -> Row] /\ order[o] \in Row
    BY DEF IInv, OrdersInv, OrdersTyped
  <1>2. PICK status \in {"exception", "paid"}, reason \in {"", "refund", "restore"} :
          order' = [order EXCEPT ![o].status = status, ![o].reason = reason]
    BY DEF RequestRefund, RejectRefund
  <1>3. order'[o].status = status /\ \A q \in Order \ {o} : order'[q] = order[q]
    BY <1>1, <1>2 DEF Row
  <1>4. order[o].status \in {"paid", "exception"}
    <2>1. CASE RequestRefund(o)
      BY <2>1 DEF RequestRefund
    <2>2. CASE RejectRefund(o)
      <3>1. order[o].reason = "refund"
        BY <2>2 DEF RejectRefund
      <3>2. Committed(order[o], terms[o])
        BY <1>1, <3>1, RefundExists, OrderIs
      <3>3. QED BY <3>1, <3>2 DEF Committed
    <2>3. QED BY <2>1, <2>2
  <1>5. Stage(order[o]) = "paid" /\ Stage(order'[o]) = "paid"
    BY <1>3, <1>4, StageIs
  <1>6. UNCHANGED <<terms, money, sales, funds, payable>>
    BY DEF RequestRefund, RejectRefund, ledgerVars
  <1>7. QED BY <1>1, <1>3, <1>5, <1>6, StageStays

LEMMA QuietSells ==
  ASSUME IInv, UNCHANGED <<orderVars, ledgerVars>>
  PROVE  UNCHANGED Sale!saleVars
  BY StageStays DEF IInv, orderVars, ledgerVars

LEMMA NextSells ==
  ASSUME IInv, IInv', [Next]_vars
  PROVE  [Sale!SaleNext]_Sale!saleVars
  <1>1. ASSUME NEW o \in Order, Fulfill(o) PROVE Sale!SaleNext
    BY <1>1, FulfillSells DEF Sale!SaleNext
  <1>2. ASSUME NEW o \in Order, NEW m \in Method, NEW rows, AllocateReceipt(o, m, rows)
        PROVE  Sale!SaleNext
    BY <1>2, AllocateSells DEF Sale!SaleNext
  <1>3. ASSUME NEW o \in Order, Create(o) PROVE Sale!SaleNext
    BY <1>3, CreateSells
  <1>4. ASSUME NEW o \in Order, Resolution(o)
        PROVE  Sale!SaleNext \/ UNCHANGED Sale!saleVars
    <2>1. CASE RecoverDelivery(o)
      BY <1>1, <2>1 DEF RecoverDelivery
    <2>2. CASE CancelOrder(o) \/ ExpireUnpaidOrder(o) \/ Tick(o)
      BY <2>2, QuietSells DEF CancelOrder, ExpireUnpaidOrder, BeginCancel, Tick
    <2>3. CASE CloseOrder(o)
      BY <2>3, CloseSells DEF Sale!SaleNext
    <2>4. CASE RequestRefund(o) \/ RejectRefund(o)
      BY <2>4, ReviewSells
    <2>5. CASE ApproveRefund(o)
      BY <2>5, ApproveSells DEF Sale!SaleNext
    <2>6. QED BY <1>4, <2>1, <2>2, <2>3, <2>4, <2>5 DEF Resolution
  <1>5. ASSUME NEW o \in Order, NEW m \in Method, Payment(o, m) \/ JobStep(o, m)
        PROVE  Sale!SaleNext \/ UNCHANGED Sale!saleVars
    <2>1. \/ UNCHANGED <<orderVars, ledgerVars>>
          \/ \E rows : AllocateReceipt(o, m, rows)
          \/ Fulfill(o)
      BY <1>5, PaymentSteps
    <2>2. QED BY <1>1, <1>2, <2>1, QuietSells
  <1>6. CASE UNCHANGED vars
    BY <1>6, QuietSells DEF vars
  <1>7. QED BY <1>3, <1>4, <1>5, <1>6 DEF Next

(* The whole life of an order (commerce, payments, portal, remediation):   *)
(* paid once, then delivered or owed back, and never undone.               *)
THEOREM ImplementsSale == Spec => RefinesSale
  <1>1. Init => Sale!SaleInit
    <2> SUFFICES ASSUME Init PROVE Sale!SaleInit
      OBVIOUS
    <2>1. ASSUME NEW o \in Order PROVE Stage(order[o]) = "none"
      <3>1. order[o].status = "none"
        BY DEF Init
      <3>2. QED BY <3>1, StageIs
    <2>2. [o \in Order |-> Stage(order[o])] = [o \in Order |-> "none"]
      BY <2>1
    <2>3. QED BY <2>2 DEF Init, Sale!SaleInit
  <1>2. QED BY <1>1, InitInv, StepInv, NextSells, PTL DEF Spec, RefinesSale, Sale!SaleSpec
=============================================================================
