------------------------ MODULE CommerceRefinementProofs ------------------------
(***************************************************************************)
(* The two refinements around CommerceLifecycle, for every value of the    *)
(* constants.                                                              *)
(*                                                                         *)
(* Above, it implements OrderContract.  The goods of an order are what its *)
(* status says they are (ReservationsFollowOrder), its money is on at most *)
(* one attempt (MoneyFollowsOrder), and parcels travel only for paid       *)
(* orders (ShipmentsFunded); with DeliveredKeepsOrder, which the last two  *)
(* do not give, each step is then a move of the contract or none.          *)
(*                                                                         *)
(* Below, ShipmentReads implements it.  As long as shipments on their way  *)
(* are funded, a handler's check of what it saw can not pass where a check *)
(* of what there is would not, so its step is one of the life cycle, and   *)
(* the life cycle keeps such shipments funded.                             *)
(***************************************************************************)
EXTENDS CommerceRefinement, ShipmentReads, CommerceLifecycleProofs

-----------------------------------------------------------------------------
(* CommerceLifecycle implements OrderContract. *)

(* An order some shipment of which has arrived can no longer be closed. *)
DeliveredKeepsOrder ==
  \A f \in Shipments :
    shipment[f] = "DELIVERED" => order[ShipmentOrder[f]] \in {"CONFIRMED", "COMPLETED"}

RInv ==
  /\ TypeOK
  /\ ReservationsFollowOrder
  /\ MoneyFollowsOrder
  /\ ShipmentsFunded
  /\ DeliveredKeepsOrder

(* Steps that do not close an order keep what has been delivered to it. *)
LEMMA DeliveredKept ==
  ASSUME TypeOK, DeliveredKeepsOrder,
         \A o \in Orders : order[o] \in {"CONFIRMED", "COMPLETED"} =>
                             order'[o] \in {"CONFIRMED", "COMPLETED"},
         \A f \in Shipments : shipment'[f] = "DELIVERED" => shipment[f] = "DELIVERED"
  PROVE  DeliveredKeepsOrder'
BY CommerceAssumption DEF DeliveredKeepsOrder

LEMMA DeliveredStep ==
  ASSUME TypeOK, ShipmentsFunded, DeliveredKeepsOrder, [Next]_vars
  PROVE  DeliveredKeepsOrder'
<1>1. ASSUME NEW o \in Orders, OrderNext(o)
      PROVE  DeliveredKeepsOrder'
  <2>1. CASE Place(o)
    BY <2>1, DeliveredKept DEF Place, TypeOK, fulfillmentVars
  <2>2. CASE Lapse(o)
    BY <2>2, DeliveredKept DEF Lapse, fulfillmentVars
  <2>3. ASSUME NEW k \in Requests, Cancel(o, k)
        PROVE  DeliveredKeepsOrder'
    <3>1. \A p \in Orders \ {o} : order'[p] = order[p]
      BY <2>3 DEF Cancel, Transition, TypeOK
    <3>2. \A f \in Shipments : shipment'[f] = "DELIVERED" =>
            shipment[f] = "DELIVERED" /\ ShipmentOrder[f] # o
      BY <2>3 DEF Cancel, MayCancel, CancelShipments, ShipmentsOf, Departed
    <3> QED
      BY <3>1, <3>2, CommerceAssumption DEF DeliveredKeepsOrder
  <2>4. ASSUME NEW i \in LinesOf(o), NEW k \in DueKeys, ExpireOrder(o, i, k)
        PROVE  DeliveredKeepsOrder'
    BY <2>4, DeliveredKept DEF ExpireOrder, Transition, TypeOK, fulfillmentVars
  <2> QED
    BY <1>1, <2>1, <2>2, <2>3, <2>4, OrderSteps
<1>2. ASSUME NEW a \in Attempts, AttemptNext(a)
      PROVE  DeliveredKeepsOrder'
  <2>1. UNCHANGED shipment
    BY <1>2 DEF AttemptNext, CreateAttempt, Fail, Capture, Refund, fulfillmentVars
  <2>2. UNCHANGED order \/ Transition(AttemptOrder[a], "CONFIRMED")
    BY <1>2 DEF AttemptNext, CreateAttempt, Fail, Capture, Refund
  <2> QED
    BY <2>1, <2>2, DeliveredKept DEF Transition, TypeOK
<1>3. ASSUME NEW f \in Shipments, ShipmentNext(f)
      PROVE  DeliveredKeepsOrder'
  <2>1. CASE Deliver(f)
    <3>1. order[ShipmentOrder[f]] \in {"CONFIRMED", "COMPLETED"}
      BY <2>1 DEF Deliver, AdvanceShipment, DeliveredKeepsOrder, ShipmentsFunded, InProgress
    <3>2. \A o \in Orders : order[o] \in {"CONFIRMED", "COMPLETED"} =>
                              order'[o] \in {"CONFIRMED", "COMPLETED"}
      BY <2>1 DEF Deliver, Transition, TypeOK
    <3>3. \A g \in Shipments \ {f} : shipment'[g] = shipment[g]
      BY <2>1 DEF Deliver, AdvanceShipment, TypeOK, FulfillmentTypeOK
    <3> QED
      BY <3>1, <3>2, <3>3, CommerceAssumption DEF DeliveredKeepsOrder
  <2>2. ASSUME UNCHANGED order,
               \E to \in {"PENDING", "PACKED", "SHIPPED", "CANCELLED"} :
                 shipment' = [shipment EXCEPT ![f] = to]
        PROVE  DeliveredKeepsOrder'
    BY <2>2, DeliveredKept DEF TypeOK, FulfillmentTypeOK
  <2> QED
    BY <1>3, <2>1, <2>2
    DEF ShipmentNext, CreateFulfillment, CreateShipment, Pack, Ship, CancelFulfillment,
        AdvanceShipment
<1>4. ASSUME NEW i \in Items, NEW k \in Requests, NEW d \in Deltas, AdjustStock(i, k, d)
      PROVE  DeliveredKeepsOrder'
  BY <1>4, DeliveredKept DEF AdjustStock, fulfillmentVars
<1>5. CASE UNCHANGED vars
  BY <1>5, DeliveredKept DEF vars
<1> QED
  BY <1>1, <1>2, <1>3, <1>4, <1>5 DEF Next

LEMMA RInvCorrect == Spec => []RInv
<1>1. Init => DeliveredKeepsOrder
  BY DEF Init, FulfillmentInit, DeliveredKeepsOrder
<1>2. TypeOK /\ ShipmentsFunded /\ DeliveredKeepsOrder /\ [Next]_vars => DeliveredKeepsOrder'
  BY DeliveredStep
<1> QED
  BY <1>1, <1>2, TypeCorrect, ReservationsCorrect, MoneyCorrect, ShipmentsFundedCorrect, PTL
  DEF Spec, RInv

-----------------------------------------------------------------------------
(* The contract's state, read off the order. *)

GoodsFor(status) ==
  CASE status = "NONE" -> "shelf"
    [] status = "PENDING" -> "aside"
    [] status \in {"CONFIRMED", "COMPLETED"} -> "sold"
    [] status = "CANCELLED" -> "returned"

LEMMA GoodsByStatus ==
  ASSUME TypeOK, ReservationsFollowOrder, NEW o \in Orders
  PROVE  GoodsOf(o) = GoodsFor(order[o])
<1>1. LinesOf(o) # {}
  BY InventoryAssumption DEF LinesOf
<1> QED
  BY <1>1 DEF ReservationsFollowOrder, GoodsOf, GoodsFor, TypeOK, OrderStatus

LEMMA GoodsByStatusNext ==
  ASSUME TypeOK', ReservationsFollowOrder', NEW o \in Orders
  PROVE  GoodsOf(o)' = GoodsFor(order'[o])
<1>1. LinesOf(o) # {} /\ LinesOf(o)' = LinesOf(o)
  BY InventoryAssumption DEF LinesOf
<1> QED
  BY <1>1 DEF ReservationsFollowOrder, GoodsOf, GoodsFor, TypeOK, OrderStatus

(* The goods of an order are never scattered over several states, its      *)
(* money never both in and out: each line of every order moves with the    *)
(* others.                                                                 *)
THEOREM GoodsMoveTogetherCorrect == Spec => []GoodsMoveTogether
<1>1. RInv => GoodsMoveTogether
  <2> SUFFICES ASSUME RInv PROVE GoodsMoveTogether
    OBVIOUS
  <2>1. \A o \in Orders : GoodsOf(o) \in {"shelf", "aside", "sold", "returned"}
    BY GoodsByStatus DEF RInv, TypeOK, OrderStatus, GoodsFor
  <2>2. \A o \in Orders : MoneyOf(o) \in {"unpaid", "paid", "refunded"}
    BY DEF MoneyOf
  <2>3. WithShipment(InProgress) \in SUBSET Orders /\ WithShipment({"DELIVERED"}) \in SUBSET Orders
    BY DEF WithShipment
  <2> QED
    BY <2>1, <2>2, <2>3 DEF GoodsMoveTogether, Contract!ContractTypeOK
<1> QED
  BY <1>1, RInvCorrect, PTL

LEMMA MoneySame ==
  ASSUME NEW o,
         \A a \in AttemptsOf(o) :
           (attempt'[a] \in Funded <=> attempt[a] \in Funded)
             /\ (attempt'[a] = "REFUNDED" <=> attempt[a] = "REFUNDED")
  PROVE  MoneyOf(o)' = MoneyOf(o)
<1>1. OrderFunded(o)' <=> OrderFunded(o)
  BY DEF OrderFunded, AttemptsOf
<1>2. (\E a \in AttemptsOf(o) : attempt[a] = "REFUNDED")'
        <=> \E a \in AttemptsOf(o) : attempt[a] = "REFUNDED"
  BY DEF AttemptsOf
<1> QED
  BY <1>1, <1>2 DEF MoneyOf

LEMMA ParcelsSame ==
  ASSUME NEW statuses,
         \A f \in Shipments : shipment'[f] \in statuses <=> shipment[f] \in statuses
  PROVE  WithShipment(statuses)' = WithShipment(statuses)
BY DEF WithShipment, ShipmentsOf

LEMMA ParcelsUnchanged ==
  UNCHANGED shipment => /\ WithShipment(InProgress)' = WithShipment(InProgress)
                        /\ WithShipment({"DELIVERED"})' = WithShipment({"DELIVERED"})
<1>1. ASSUME UNCHANGED shipment, NEW statuses
      PROVE  WithShipment(statuses)' = WithShipment(statuses)
  BY <1>1, ParcelsSame
<1> QED
  BY <1>1 DEF InProgress

(* Before and after every step the invariant holds. *)
LEMMA RInvNext ==
  ASSUME RInv, [Next]_vars
  PROVE  RInv'
BY StepTyped, ReservationsStep, MoneyStep, FundedStep, DeliveredStep DEF RInv

LEMMA GoodsSame ==
  ASSUME RInv, RInv', NEW o \in Orders, GoodsFor(order'[o]) = GoodsFor(order[o])
  PROVE  GoodsOf(o)' = GoodsOf(o)
BY GoodsByStatus, GoodsByStatusNext DEF RInv

(* An order without captured money has none with the shop. *)
LEMMA Unpaid ==
  ASSUME RInv, NEW o \in Orders, order[o] \in {"NONE", "PENDING"}
  PROVE  MoneyOf(o) = "unpaid"
<1>1. CapturedOf(o) = {}
  BY MoneyByOrder DEF RInv, MoneyAgrees
<1> QED
  BY <1>1 DEF CapturedOf, MoneyOf, OrderFunded, Funded, Refundable

-----------------------------------------------------------------------------
(* Every step is a move of the contract or none. *)

LEMMA Stutters ==
  ASSUME RInv, RInv', \A o \in Orders : GoodsFor(order'[o]) = GoodsFor(order[o]),
         \A o \in Orders : MoneyOf(o)' = MoneyOf(o),
         WithShipment(InProgress)' = WithShipment(InProgress),
         WithShipment({"DELIVERED"})' = WithShipment({"DELIVERED"})
  PROVE  UNCHANGED Contract!contractVars
<1>1. \A o \in Orders : GoodsOf(o)' = GoodsOf(o)
  BY GoodsSame
<1> QED
  BY <1>1 DEF Contract!contractVars

LEMMA PlaceRefines ==
  ASSUME RInv, RInv', NEW o \in Orders, Place(o)
  PROVE  Contract!SetAside(o)
<1>1. order[o] = "NONE" /\ order'[o] = "PENDING" /\ \A p \in Orders \ {o} : order'[p] = order[p]
  BY DEF Place, RInv, TypeOK
<1>2. GoodsOf(o) = "shelf" /\ GoodsOf(o)' = "aside"
  BY <1>1, GoodsByStatus, GoodsByStatusNext DEF RInv, GoodsFor
<1>3. \A p \in Orders \ {o} : GoodsOf(p)' = GoodsOf(p)
  BY <1>1, GoodsSame
<1>4. \A p \in Orders : MoneyOf(p)' = MoneyOf(p)
  BY MoneySame DEF Place, paymentVars
<1>5. UNCHANGED shipment
  BY DEF Place, fulfillmentVars
<1> QED
  BY <1>2, <1>3, <1>4, <1>5, ParcelsUnchanged DEF Contract!SetAside

LEMMA CaptureRefines ==
  ASSUME RInv, RInv', NEW a \in Attempts, NEW k \in PaymentKeys, NEW p \in ProviderIds,
         Capture(a, k, p)
  PROVE  Contract!Sell(AttemptOrder[a])
<1> DEFINE o == AttemptOrder[a]
<1>0. o \in Orders /\ a \in AttemptsOf(o)
  BY CommerceAssumption DEF AttemptsOf
<1>1. /\ order[o] = "PENDING" /\ order'[o] = "CONFIRMED"
      /\ \A q \in Orders \ {o} : order'[q] = order[q]
  BY <1>0 DEF Capture, Transition, RInv, TypeOK
<1>2. GoodsOf(o) = "aside" /\ GoodsOf(o)' = "sold"
  BY <1>0, <1>1, GoodsByStatus, GoodsByStatusNext DEF RInv, GoodsFor
<1>3. \A q \in Orders \ {o} : GoodsOf(q)' = GoodsOf(q)
  BY <1>1, GoodsSame
<1>4. MoneyOf(o) = "unpaid"
  BY <1>0, <1>1, Unpaid
<1>5. MoneyOf(o)' = "paid"
  BY <1>0 DEF Capture, CaptureAttempt, MoneyOf, OrderFunded, AttemptsOf, Funded, RInv,
              TypeOK, PaymentTypeOK
<1>6. \A q \in Orders \ {o} : MoneyOf(q)' = MoneyOf(q)
  BY MoneySame DEF Capture, CaptureAttempt, AttemptsOf, RInv, TypeOK, PaymentTypeOK
<1>7. UNCHANGED shipment
  BY DEF Capture, fulfillmentVars
<1> QED
  BY <1>0, <1>2, <1>3, <1>4, <1>5, <1>6, <1>7, ParcelsUnchanged DEF Contract!Sell

(* Closing an order whose goods nobody's money or parcel hangs on. *)
LEMMA ClosingRefines ==
  ASSUME RInv, RInv', NEW o \in Orders, order[o] \in {"PENDING", "CONFIRMED"},
         order' = [order EXCEPT ![o] = "CANCELLED"], CancelAttempts(AttemptsOf(o)),
         MoneyOf(o) # "paid", o \notin WithShipment(InProgress) \cup WithShipment({"DELIVERED"}),
         UNCHANGED shipment
  PROVE  Contract!GiveBack(o)
<1>1. order'[o] = "CANCELLED" /\ \A p \in Orders \ {o} : order'[p] = order[p]
  BY DEF RInv, TypeOK
<1>2. GoodsOf(o) \in {"aside", "sold"} /\ GoodsOf(o)' = "returned"
  BY <1>1, GoodsByStatus, GoodsByStatusNext DEF RInv, GoodsFor
<1>3. \A p \in Orders \ {o} : GoodsOf(p)' = GoodsOf(p)
  BY <1>1, GoodsSame
<1>4. \A p \in Orders : MoneyOf(p)' = MoneyOf(p)
  BY MoneySame DEF CancelAttempts, AttemptsOf, Cancellable, Funded
<1> QED
  BY <1>2, <1>3, <1>4, ParcelsUnchanged DEF Contract!GiveBack

LEMMA CancelRefines ==
  ASSUME RInv, RInv', NEW o \in Orders, NEW k \in Requests, Cancel(o, k)
  PROVE  Contract!GiveBack(o)
<1>1. MoneyOf(o) # "paid"
  BY DEF Cancel, MayCancel, HasUnrefundedCapture, MoneyOf, OrderFunded
<1>2. o \notin WithShipment(InProgress)
  BY <1>1 DEF RInv, ShipmentsFunded, WithShipment, ShipmentsOf, MoneyOf
<1>3. o \notin WithShipment({"DELIVERED"})
  BY DEF Cancel, MayCancel, WithShipment, Departed
<1>4. UNCHANGED shipment
  BY <1>2 DEF Cancel, CancelShipments, WithShipment, ShipmentsOf, InProgress,
              CancellableShipment, RInv, TypeOK, FulfillmentTypeOK
<1> QED
  BY <1>1, <1>2, <1>3, <1>4, ClosingRefines DEF Cancel, MayCancel, Transition

LEMMA ExpireRefines ==
  ASSUME RInv, RInv', NEW o \in Orders, NEW i \in LinesOf(o), NEW k \in DueKeys,
         ExpireOrder(o, i, k)
  PROVE  Contract!GiveBack(o)
<1>1. order[o] = "PENDING"
  BY DEF ExpireOrder
<1>2. MoneyOf(o) # "paid"
  BY <1>1, Unpaid
<1>3. o \notin WithShipment(InProgress) \cup WithShipment({"DELIVERED"})
  BY <1>1 DEF RInv, ShipmentsFunded, DeliveredKeepsOrder, WithShipment, ShipmentsOf
<1> QED
  BY <1>1, <1>2, <1>3, ClosingRefines DEF ExpireOrder, Transition, fulfillmentVars

LEMMA RefundRefines ==
  ASSUME RInv, RInv', NEW a \in Attempts, NEW k \in PaymentKeys, NEW p \in ProviderIds,
         NEW m \in RefundAmounts, Refund(a, k, p, m)
  PROVE  Contract!PayBack(AttemptOrder[a]) \/ UNCHANGED Contract!contractVars
<1> DEFINE o == AttemptOrder[a]
<1>0. o \in Orders /\ a \in AttemptsOf(o) /\ UNCHANGED <<order, shipment>>
  BY CommerceAssumption DEF AttemptsOf, Refund, fulfillmentVars
<1>1. \A b \in Attempts \ {a} : attempt'[b] = attempt[b]
  BY DEF Refund, RefundAttempt, RInv, TypeOK, PaymentTypeOK
<1>2. \A q \in Orders \ {o} : MoneyOf(q)' = MoneyOf(q)
  BY <1>1, MoneySame DEF AttemptsOf
<1>3. attempt[a] \in Refundable /\ attempt'[a] \in {"REFUNDED", "PARTIALLY_REFUNDED"}
  BY DEF Refund, RefundAttempt, RInv, TypeOK, PaymentTypeOK
<1>4. CASE attempt[a] \in Funded /\ attempt'[a] = "REFUNDED"
  <2>1. o \notin WithShipment(InProgress)
    BY <1>4 DEF Refund, RefundAttempt, ShipmentsIdle, WithShipment, RInv, TypeOK, PaymentTypeOK
  <2>2. MoneyOf(o) = "paid"
    BY <1>0, <1>4 DEF MoneyOf, OrderFunded
  <2>3. MoneyOf(o)' = "refunded"
    <3>1. \A b \in AttemptsOf(o) : attempt[b] \in Refundable => b = a
      BY <1>0, <1>3, MoneyByOrder DEF RInv, MoneyAgrees, CapturedOf
    <3>2. \A b \in AttemptsOf(o) : attempt'[b] \notin Funded
      BY <1>1, <1>4, <3>1 DEF Funded, Refundable, AttemptsOf
    <3> QED
      BY <1>0, <1>4, <3>2 DEF MoneyOf, OrderFunded, AttemptsOf
  <2>4. \A q \in Orders : GoodsOf(q)' = GoodsOf(q)
    BY <1>0, GoodsSame
  <2> QED
    BY <1>0, <1>2, <2>1, <2>2, <2>3, <2>4, ParcelsUnchanged DEF Contract!PayBack
<1>5. CASE ~(attempt[a] \in Funded /\ attempt'[a] = "REFUNDED")
  <2>1. /\ attempt'[a] \in Funded <=> attempt[a] \in Funded
        /\ attempt'[a] = "REFUNDED" <=> attempt[a] = "REFUNDED"
    BY <1>3, <1>5 DEF Refund, RefundAttempt, Funded, Refundable, RInv, TypeOK, PaymentTypeOK
  <2>2. \A q \in Orders : MoneyOf(q)' = MoneyOf(q)
    BY <1>1, <2>1, MoneySame DEF AttemptsOf
  <2> QED
    BY <1>0, <2>2, ParcelsUnchanged, Stutters
<1> QED
  BY <1>4, <1>5

LEMMA AttemptRefines ==
  ASSUME RInv, RInv', NEW a \in Attempts, AttemptNext(a)
  PROVE  [Contract!Next]_(Contract!contractVars)
<1>0. AttemptOrder[a] \in Orders
  BY CommerceAssumption
<1>1. CASE CreateAttempt(a) \/ \E k \in PaymentKeys : Fail(a, k)
  <2>1. UNCHANGED <<order, shipment>>
    BY <1>1 DEF CreateAttempt, Fail, fulfillmentVars
  <2>2. \A b \in Attempts : /\ attempt'[b] \in Funded <=> attempt[b] \in Funded
                            /\ attempt'[b] = "REFUNDED" <=> attempt[b] = "REFUNDED"
    BY <1>1 DEF CreateAttempt, OpenAttempt, Fail, FailAttempt, Failable, Funded, RInv,
                TypeOK, PaymentTypeOK
  <2>3. \A o \in Orders : MoneyOf(o)' = MoneyOf(o)
    BY <2>2, MoneySame DEF AttemptsOf
  <2> QED
    BY <2>1, <2>3, ParcelsUnchanged, Stutters
<1>2. CASE \E k \in PaymentKeys, p \in ProviderIds : Capture(a, k, p)
  BY <1>0, <1>2, CaptureRefines DEF Contract!Next
<1>3. CASE \E k \in PaymentKeys, p \in ProviderIds, m \in RefundAmounts : Refund(a, k, p, m)
  BY <1>0, <1>3, RefundRefines DEF Contract!Next
<1> QED
  BY <1>1, <1>2, <1>3 DEF AttemptNext

(* A step of one shipment can change the standing of its own order only. *)
LEMMA ParcelsElsewhere ==
  ASSUME NEW f \in Shipments, NEW statuses,
         \A g \in Shipments \ {f} : shipment'[g] = shipment[g]
  PROVE  \A p \in Orders \ {ShipmentOrder[f]} :
           p \in WithShipment(statuses)' <=> p \in WithShipment(statuses)
BY DEF WithShipment, ShipmentsOf

LEMMA OwnOrderOnly ==
  ASSUME NEW o \in Orders, NEW statuses,
         \A p \in Orders \ {o} : p \in WithShipment(statuses)' <=> p \in WithShipment(statuses)
  PROVE  WithShipment(statuses)' =
           IF o \in WithShipment(statuses)' THEN WithShipment(statuses) \cup {o}
                                            ELSE WithShipment(statuses) \ {o}
<1>1. WithShipment(statuses) \subseteq Orders /\ WithShipment(statuses)' \subseteq Orders
  BY DEF WithShipment
<1> QED
  BY <1>1

(* What all steps of shipments share. *)
LEMMA ShipmentStepKeeps ==
  ASSUME RInv, RInv', NEW f \in Shipments, ShipmentNext(f)
  PROVE  /\ \A g \in Shipments \ {f} : shipment'[g] = shipment[g]
         /\ \A p \in Orders : GoodsFor(order'[p]) = GoodsFor(order[p])
         /\ \A p \in Orders : GoodsOf(p)' = GoodsOf(p)
         /\ \A p \in Orders : MoneyOf(p)' = MoneyOf(p)
<1>1. \A g \in Shipments \ {f} : shipment'[g] = shipment[g]
  BY DEF ShipmentNext, CreateFulfillment, CreateShipment, Pack, Ship, Deliver,
         CancelFulfillment, AdvanceShipment, RInv, TypeOK, FulfillmentTypeOK
<1>2. \A p \in Orders : GoodsFor(order'[p]) = GoodsFor(order[p])
  <2>1. UNCHANGED order \/ Transition(ShipmentOrder[f], "COMPLETED")
    BY DEF ShipmentNext, CreateFulfillment, Pack, Ship, Deliver, CancelFulfillment
  <2>2. \A p \in Orders :
          order'[p] = order[p] \/ (order[p] = "CONFIRMED" /\ order'[p] = "COMPLETED")
    BY <2>1, CommerceAssumption DEF Transition, AllowedTransitions, RInv, TypeOK
  <2> QED
    BY <2>2 DEF GoodsFor
<1>3. UNCHANGED attempt
  BY DEF ShipmentNext, CreateFulfillment, Pack, Ship, Deliver, CancelFulfillment, paymentVars
<1> QED
  BY <1>1, <1>2, <1>3, GoodsSame, MoneySame

LEMMA CreateRefines ==
  ASSUME RInv, RInv', NEW f \in Shipments, NEW q \in Quantities, CreateFulfillment(f, q)
  PROVE  Contract!Prepare(ShipmentOrder[f]) \/ UNCHANGED Contract!contractVars
<1> DEFINE o == ShipmentOrder[f]
<1>0. ShipmentNext(f) /\ o \in Orders /\ f \in ShipmentsOf(o)
  BY CommerceAssumption DEF ShipmentNext, ShipmentsOf
<1>1. shipment[f] = "NONE" /\ shipment'[f] = "PENDING"
  BY DEF CreateFulfillment, CreateShipment, RInv, TypeOK, FulfillmentTypeOK
<1>2. WithShipment({"DELIVERED"})' = WithShipment({"DELIVERED"})
  BY <1>0, <1>1, ShipmentStepKeeps, ParcelsSame
<1>3. WithShipment(InProgress)' = WithShipment(InProgress) \cup {o}
  <2>1. o \in WithShipment(InProgress)'
    BY <1>0, <1>1 DEF WithShipment, ShipmentsOf, InProgress
  <2> QED
    BY <1>0, <2>1, ShipmentStepKeeps, ParcelsElsewhere, OwnOrderOnly
<1>4. CASE o \in WithShipment(InProgress)
  BY <1>0, <1>2, <1>3, <1>4, ShipmentStepKeeps, Stutters
<1>5. CASE o \notin WithShipment(InProgress)
  <2>1. GoodsOf(o) = "sold" /\ MoneyOf(o) = "paid"
    BY <1>0, GoodsByStatus DEF CreateFulfillment, GoodsFor, MoneyOf, RInv
  <2> QED
    BY <1>0, <1>2, <1>3, <1>5, <2>1, ShipmentStepKeeps DEF Contract!Prepare
<1> QED
  BY <1>4, <1>5

LEMMA AdvanceRefines ==
  ASSUME RInv, RInv', NEW f \in Shipments, Pack(f) \/ Ship(f)
  PROVE  UNCHANGED Contract!contractVars
<1>0. ShipmentNext(f)
  BY DEF ShipmentNext
<1>1. shipment[f] \in InProgress \ {"SHIPPED"} /\ shipment'[f] \in InProgress
  BY DEF Pack, Ship, AdvanceShipment, InProgress, RInv, TypeOK, FulfillmentTypeOK
<1>2. WithShipment(InProgress)' = WithShipment(InProgress)
  BY <1>0, <1>1, ShipmentStepKeeps, ParcelsSame
<1>3. WithShipment({"DELIVERED"})' = WithShipment({"DELIVERED"})
  BY <1>0, <1>1, ShipmentStepKeeps, ParcelsSame DEF InProgress
<1> QED
  BY <1>0, <1>2, <1>3, ShipmentStepKeeps, Stutters

LEMMA DeliverRefines ==
  ASSUME RInv, RInv', NEW f \in Shipments, Deliver(f)
  PROVE  Contract!Arrive(ShipmentOrder[f]) \/ UNCHANGED Contract!contractVars
<1> DEFINE o == ShipmentOrder[f]
<1>0. ShipmentNext(f) /\ o \in Orders /\ f \in ShipmentsOf(o)
  BY CommerceAssumption DEF ShipmentNext, ShipmentsOf
<1>1. shipment[f] \in {"SHIPPED", "DELIVERED"} /\ shipment'[f] = "DELIVERED"
  BY DEF Deliver, AdvanceShipment, RInv, TypeOK, FulfillmentTypeOK
<1>2. CASE shipment[f] = "DELIVERED"
  <2>1. UNCHANGED shipment
    BY <1>2 DEF Deliver, AdvanceShipment, RInv, TypeOK, FulfillmentTypeOK
  <2> QED
    BY <1>0, <2>1, ShipmentStepKeeps, ParcelsUnchanged, Stutters
<1>3. CASE shipment[f] = "SHIPPED"
  <2>1. o \in WithShipment(InProgress)
    BY <1>0, <1>3 DEF WithShipment, InProgress
  <2>2. o \in WithShipment({"DELIVERED"})'
    BY <1>0, <1>1 DEF WithShipment, ShipmentsOf
  <2>3. WithShipment({"DELIVERED"})' = WithShipment({"DELIVERED"}) \cup {o}
    BY <1>0, <2>2, ShipmentStepKeeps, ParcelsElsewhere, OwnOrderOnly
  <2>4. WithShipment(InProgress)' \in {WithShipment(InProgress), WithShipment(InProgress) \ {o}}
    <3>1. WithShipment(InProgress)' =
            IF o \in WithShipment(InProgress)' THEN WithShipment(InProgress) \cup {o}
                                               ELSE WithShipment(InProgress) \ {o}
      BY <1>0, ShipmentStepKeeps, ParcelsElsewhere, OwnOrderOnly
    <3> QED
      BY <2>1, <3>1
  <2> QED
    BY <1>0, <2>1, <2>3, <2>4, ShipmentStepKeeps DEF Contract!Arrive
<1> QED
  BY <1>1, <1>2, <1>3

LEMMA WithdrawRefines ==
  ASSUME RInv, RInv', NEW f \in Shipments, CancelFulfillment(f)
  PROVE  Contract!Withdraw(ShipmentOrder[f]) \/ UNCHANGED Contract!contractVars
<1> DEFINE o == ShipmentOrder[f]
<1>0. ShipmentNext(f) /\ o \in Orders /\ f \in ShipmentsOf(o)
  BY CommerceAssumption DEF ShipmentNext, ShipmentsOf
<1>1. shipment[f] \in CancellableShipment /\ shipment'[f] = "CANCELLED"
  BY DEF CancelFulfillment, AdvanceShipment, RInv, TypeOK, FulfillmentTypeOK
<1>2. o \in WithShipment(InProgress)
  BY <1>0, <1>1 DEF WithShipment, InProgress, CancellableShipment
<1>3. WithShipment({"DELIVERED"})' = WithShipment({"DELIVERED"})
  BY <1>0, <1>1, ShipmentStepKeeps, ParcelsSame DEF CancellableShipment
<1>4. WithShipment(InProgress)' =
        IF o \in WithShipment(InProgress)' THEN WithShipment(InProgress) \cup {o}
                                           ELSE WithShipment(InProgress) \ {o}
  BY <1>0, ShipmentStepKeeps, ParcelsElsewhere, OwnOrderOnly
<1>5. CASE o \in WithShipment(InProgress)'
  BY <1>0, <1>2, <1>3, <1>4, <1>5, ShipmentStepKeeps, Stutters
<1>6. CASE o \notin WithShipment(InProgress)'
  BY <1>0, <1>2, <1>3, <1>4, <1>6, ShipmentStepKeeps DEF Contract!Withdraw
<1> QED
  BY <1>5, <1>6

LEMMA ShipmentRefines ==
  ASSUME RInv, RInv', NEW f \in Shipments, ShipmentNext(f)
  PROVE  [Contract!Next]_(Contract!contractVars)
<1>0. ShipmentOrder[f] \in Orders
  BY CommerceAssumption
<1>1. CASE \E q \in Quantities : CreateFulfillment(f, q)
  BY <1>0, <1>1, CreateRefines DEF Contract!Next
<1>2. CASE Pack(f) \/ Ship(f)
  BY <1>2, AdvanceRefines
<1>3. CASE Deliver(f)
  BY <1>0, <1>3, DeliverRefines DEF Contract!Next
<1>4. CASE CancelFulfillment(f)
  BY <1>0, <1>4, WithdrawRefines DEF Contract!Next
<1> QED
  BY <1>1, <1>2, <1>3, <1>4 DEF ShipmentNext

LEMMA OrderRefines ==
  ASSUME RInv, RInv', NEW o \in Orders, OrderNext(o)
  PROVE  [Contract!Next]_(Contract!contractVars)
<1>1. CASE Place(o)
  BY <1>1, PlaceRefines DEF Contract!Next
<1>2. CASE Lapse(o)
  <2>1. UNCHANGED <<order, attempt, shipment>>
    BY <1>2 DEF Lapse, paymentVars, fulfillmentVars
  <2> QED
    BY <2>1, MoneySame, ParcelsUnchanged, Stutters
<1>3. CASE \E k \in Requests : Cancel(o, k)
  BY <1>3, CancelRefines DEF Contract!Next
<1>4. CASE \E i \in LinesOf(o), k \in DueKeys : ExpireOrder(o, i, k)
  BY <1>4, ExpireRefines DEF Contract!Next
<1> QED
  BY <1>1, <1>2, <1>3, <1>4, OrderSteps

LEMMA RefinesStep ==
  ASSUME RInv, [Next]_vars
  PROVE  [Contract!Next]_(Contract!contractVars)
<1>0. RInv'
  BY RInvNext
<1>1. CASE \E i \in Items, k \in Requests, d \in Deltas : AdjustStock(i, k, d)
  <2>1. UNCHANGED <<order, attempt, shipment>>
    BY <1>1 DEF AdjustStock, paymentVars, fulfillmentVars
  <2> QED
    BY <1>0, <2>1, MoneySame, ParcelsUnchanged, Stutters
<1>2. CASE UNCHANGED vars
  <2>1. UNCHANGED <<order, attempt, shipment>>
    BY <1>2 DEF vars
  <2> QED
    BY <1>0, <2>1, MoneySame, ParcelsUnchanged, Stutters
<1> QED
  BY <1>0, <1>1, <1>2, OrderRefines, AttemptRefines, ShipmentRefines DEF Next

(* Every transaction the shop commits is a move the order contract allows, *)
(* or one it does not see, for any number of orders, lines, attempts and   *)
(* shipments and any interleaving of the requests about them.              *)
THEOREM ContractImplemented == Spec => ImplementsContract
<1>1. Init => Contract!Init
  <2> SUFFICES ASSUME Init PROVE Contract!Init
    OBVIOUS
  <2>1. \A o \in Orders : GoodsOf(o) = "shelf"
    BY DEF Init, InventoryInit, GoodsOf, LinesOf
  <2>2. \A o \in Orders : MoneyOf(o) = "unpaid"
    BY DEF Init, PaymentInit, MoneyOf, OrderFunded, AttemptsOf, Funded
  <2>3. WithShipment(InProgress) = {} /\ WithShipment({"DELIVERED"}) = {}
    BY DEF Init, FulfillmentInit, WithShipment, ShipmentsOf, InProgress
  <2> QED
    BY <2>1, <2>2, <2>3 DEF Contract!Init
<1>2. RInv /\ [Next]_vars => [Contract!Next]_(Contract!contractVars)
  BY RefinesStep
<1> QED
  BY <1>1, <1>2, RInvCorrect, PTL DEF Spec, ImplementsContract, Contract!Spec

-----------------------------------------------------------------------------
(* ShipmentReads implements CommerceLifecycle. *)

ReadsInv ==
  /\ TypeOK
  /\ ShipmentsFunded
  /\ view \in [Handlers -> {NoView} \cup Views]

(* A shipment some handler found is there, and what it saw is funded. *)
ViewsSeen ==
  \A h \in Handlers :
    view[h] # NoView =>
      /\ shipment[view[h].shipment] # "NONE"
      /\ shipment[view[h].shipment] \in InProgress => SeenFunded(h)

LEMMA ReadsInit0 == ReadsInit => ReadsInv /\ ViewsSeen
<1> SUFFICES ASSUME ReadsInit
             PROVE  ReadsInv /\ ViewsSeen
  OBVIOUS
<1>1. TypeOK /\ ShipmentsFunded
  BY InitTyped DEF ReadsInit, Init, FulfillmentInit, ShipmentsFunded, InProgress
<1>2. \A h \in Handlers : view[h] = NoView
  BY DEF ReadsInit
<1> QED
  BY <1>1, <1>2 DEF ReadsInit, ReadsInv, ViewsSeen

(* What a handler commits on its view is a step of the life cycle: the     *)
(* shipment it advances is on its way, so its order is funded.             *)
LEMMA FinishIsNext ==
  ASSUME ReadsInv, NEW h \in Handlers, Finish(h)
  PROVE  Next
<1>1. PICK f \in Shipments : f = view[h].shipment
  BY ReadsAssumption DEF ReadsInv, Finish, Views
<1>2. shipment[f] \in InProgress => OrderFunded(ShipmentOrder[f])
  BY <1>1 DEF ReadsInv, ShipmentsFunded
<1>3. PackAsSeen(h, f) => Pack(f)
  BY <1>2 DEF PackAsSeen, Pack, AdvanceShipment, InProgress
<1>4. ShipAsSeen(h, f) => Ship(f)
  BY <1>2 DEF ShipAsSeen, Ship, AdvanceShipment, InProgress
<1>5. DeliverAsSeen(h, f) => Deliver(f)
  BY <1>2 DEF DeliverAsSeen, Deliver, InProgress
<1>6. ShipmentNext(f)
  BY <1>1, <1>3, <1>4, <1>5 DEF Finish, ShipmentNext
<1> QED
  BY <1>6 DEF Next

LEMMA ReadsStepIsNext ==
  ASSUME ReadsInv, [ReadsNext]_readVars
  PROVE  [Next]_vars
<1>1. CASE OtherNext
  BY <1>1 DEF OtherNext, Next, ShipmentNext
<1>2. CASE \E h \in Handlers : HandlerNext(h)
  BY <1>2, FinishIsNext DEF HandlerNext, Discover, GiveUp
<1>3. CASE UNCHANGED readVars
  BY <1>3 DEF readVars
<1> QED
  BY <1>1, <1>2, <1>3 DEF ReadsNext

(* How a step changes the views: one more snapshot of now, or one fewer. *)
LEMMA ViewSteps ==
  ASSUME ReadsInv, [ReadsNext]_readVars
  PROVE  \/ UNCHANGED view
         \/ \E h \in Handlers, f \in Shipments : Discover(h, f)
         \/ \E h \in Handlers : view' = [view EXCEPT ![h] = NoView]
BY DEF ReadsNext, OtherNext, HandlerNext, Finish, GiveUp, Close, readVars

LEMMA ReadsInvStep ==
  ASSUME ReadsInv, [ReadsNext]_readVars
  PROVE  ReadsInv'
<1>1. TypeOK' /\ ShipmentsFunded'
  BY ReadsStepIsNext, StepTyped, FundedStep DEF ReadsInv
<1>2. CASE \E h \in Handlers, f \in Shipments : Discover(h, f)
  <2>1. PICK h \in Handlers, f \in Shipments : Discover(h, f)
    BY <1>2
  <2>2. [shipment |-> f, seen |-> attempt] \in Views
    BY <2>1 DEF Views, ReadsInv, TypeOK, PaymentTypeOK
  <2> QED
    BY <1>1, <2>1, <2>2 DEF ReadsInv, Discover
<1>3. CASE ~\E h \in Handlers, f \in Shipments : Discover(h, f)
  BY <1>1, <1>3, ViewSteps DEF ReadsInv
<1> QED
  BY <1>2, <1>3

LEMMA ReadsInvariant == ReadsSpec => []ReadsInv
<1>1. ReadsInit => ReadsInv
  BY ReadsInit0
<1>2. ReadsInv /\ [ReadsNext]_readVars => ReadsInv'
  BY ReadsInvStep
<1> QED
  BY <1>1, <1>2, PTL DEF ReadsSpec

(* The unlocked read of the payment attempts changes nothing a shipment    *)
(* handler commits, for any number of handlers, shipments and attempts.    *)
THEOREM StaleReadsHarmlessCorrect == ReadsSpec => StaleReadsHarmless
<1>1. ReadsInit => Init
  BY DEF ReadsInit
<1>2. ReadsInv /\ [ReadsNext]_readVars => [Next]_vars
  BY ReadsStepIsNext
<1> QED
  BY <1>1, <1>2, ReadsInvariant, PTL DEF ReadsSpec, StaleReadsHarmless, Spec

-----------------------------------------------------------------------------
(* A row of fulfillments is never deleted. *)
LEMMA ShipmentsStay ==
  ASSUME TypeOK, [Next]_vars, NEW f \in Shipments, shipment[f] # "NONE"
  PROVE  shipment'[f] # "NONE"
<1>1. ASSUME NEW o \in Orders, OrderNext(o)
      PROVE  shipment'[f] # "NONE"
  <2>1. UNCHANGED shipment \/ CancelShipments(ShipmentsOf(o))
    BY <1>1, OrderSteps DEF Place, Lapse, Cancel, ExpireOrder, fulfillmentVars
  <2> QED
    BY <2>1 DEF CancelShipments
<1>2. ASSUME NEW a \in Attempts, AttemptNext(a)
      PROVE  shipment'[f] # "NONE"
  BY <1>2 DEF AttemptNext, CreateAttempt, Fail, Capture, Refund, fulfillmentVars
<1>3. ASSUME NEW g \in Shipments, ShipmentNext(g)
      PROVE  shipment'[f] # "NONE"
  <2>1. \E to \in ShipmentStatus : shipment' = [shipment EXCEPT ![g] = to]
    BY <1>3 DEF ShipmentNext, CreateFulfillment, CreateShipment, Pack, Ship, Deliver,
                CancelFulfillment, AdvanceShipment, ShipmentStatus
  <2> QED
    BY <2>1 DEF ShipmentStatus, TypeOK, FulfillmentTypeOK
<1>4. ASSUME NEW i \in Items, NEW k \in Requests, NEW d \in Deltas, AdjustStock(i, k, d)
      PROVE  shipment'[f] # "NONE"
  BY <1>4 DEF AdjustStock, fulfillmentVars
<1>5. CASE UNCHANGED vars
  BY <1>5 DEF vars
<1> QED
  BY <1>1, <1>2, <1>3, <1>4, <1>5 DEF Next

(* A shipment that is there is never on its way again once it was not. *)
LEMMA NeverBack ==
  ASSUME TypeOK, ReservationsFollowOrder, [Next]_vars,
         NEW f \in Shipments, shipment[f] # "NONE", shipment'[f] \in InProgress
  PROVE  shipment[f] \in InProgress
<1>1. NothingResumes \/ UNCHANGED vars
  BY OrderEnds, AttemptEnds, ShipmentEnds, AdjustEnds DEF Next
<1> QED
  BY <1>1 DEF NothingResumes, InProgress, TypeOK, FulfillmentTypeOK, ShipmentStatus, vars

LEMMA ViewsSeenStep ==
  ASSUME ReadsInv, ReservationsFollowOrder, ViewsSeen, [ReadsNext]_readVars
  PROVE  ViewsSeen'
<1> SUFFICES ASSUME NEW h \in Handlers, view'[h] # NoView
             PROVE  /\ shipment'[view'[h].shipment] # "NONE"
                    /\ shipment'[view'[h].shipment] \in InProgress => SeenFunded(h)'
  BY DEF ViewsSeen
<1>1. CASE view'[h] = view[h]
  <2>1. view[h].shipment \in Shipments
    BY <1>1, ReadsAssumption DEF ReadsInv, Views
  <2>2. shipment[view[h].shipment] # "NONE"
    BY <1>1 DEF ViewsSeen
  <2>3. SeenFunded(h) => SeenFunded(h)'
    BY <1>1 DEF SeenFunded, AttemptsOf
  <2> QED
    BY <1>1, <2>1, <2>2, <2>3, ReadsStepIsNext, ShipmentsStay, NeverBack
    DEF ReadsInv, ViewsSeen
<1>2. CASE view'[h] # view[h]
  <2>1. PICK f \in Shipments : Discover(h, f)
    BY <1>2, ViewSteps DEF ReadsInv, Discover
  <2>2. view'[h] = [shipment |-> f, seen |-> attempt]
    BY <2>1 DEF Discover, ReadsInv
  <2>3. shipment[f] # "NONE" /\ shipment' = shipment
    BY <2>1 DEF Discover, vars
  <2>4. shipment[f] \in InProgress => OrderFunded(ShipmentOrder[f])
    BY DEF ReadsInv, ShipmentsFunded
  <2>5. OrderFunded(ShipmentOrder[f]) => SeenFunded(h)'
    BY <2>2 DEF OrderFunded, SeenFunded, AttemptsOf
  <2> QED
    BY <2>2, <2>3, <2>4, <2>5
<1> QED
  BY <1>1, <1>2

(* No handler refuses a shipment on its way for a payment it saw too       *)
(* early, for any number of handlers, shipments and attempts.              *)
THEOREM ViewsHoldCorrect == ReadsSpec => []ViewsHold
<1>1. ReadsInit => ViewsSeen
  BY ReadsInit0
<1>2. ReadsInv /\ ReservationsFollowOrder /\ ViewsSeen /\ [ReadsNext]_readVars => ViewsSeen'
  BY ViewsSeenStep
<1>3. ReadsSpec => []ReservationsFollowOrder
  BY StaleReadsHarmlessCorrect, ReservationsCorrect, PTL DEF StaleReadsHarmless
<1>4. ReadsInv /\ ViewsSeen => ViewsHold
  BY ReadsAssumption DEF ReadsInv, ViewsSeen, ViewsHold, ShipmentsFunded, Views
<1> QED
  BY <1>1, <1>2, <1>3, <1>4, ReadsInvariant, PTL DEF ReadsSpec
===============================================================================
