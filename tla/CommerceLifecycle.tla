--------------------------- MODULE CommerceLifecycle ---------------------------
(***************************************************************************)
(* The order aggregate and the use cases that cross it: placement,         *)
(* cancellation and expiry (src/src/api/order), payment attempts, capture, *)
(* failure and refund (src/src/api/payment), shipments                     *)
(* (src/src/api/fulfillment) and stock (src/src/api/inventory).            *)
(*                                                                         *)
(* One action is one committed transaction.  All of them except Place and  *)
(* Adjust first take the order's row FOR UPDATE, and all of them re-read   *)
(* what they change under row locks, which is what makes the step atomic;  *)
(* requests of different clients interleave freely between steps.  A       *)
(* request that throws is rolled back and a repeated one is answered from  *)
(* what is stored: neither changes the state, so neither is a step.        *)
(*                                                                         *)
(* Time is one flag per order: the order is in "lapsed" once the clock     *)
(* passed the expiresAt its reservations share.  A handler samples "now"   *)
(* when it is called, before it waits for the order's lock: with           *)
(* LateHandlers it may still hold a time from before the deadline after    *)
(* the deadline passed.  It never holds a time from the future.            *)
(***************************************************************************)
EXTENDS Inventory, Payment, Fulfillment

CONSTANTS
  AttemptOrder,    \* the order a payment attempt is for
  ShipmentOrder,   \* the order a shipment is for
  NoClosing,       \* the closing of an order that is not cancelled
  LateHandlers     \* whether a handler may wait for a lock past a deadline

ASSUME CommerceAssumption ==
  /\ AttemptOrder \in [Attempts -> Orders]
  /\ ShipmentOrder \in [Shipments -> Orders]
  /\ Goods = Items
  /\ LateHandlers \in BOOLEAN

VARIABLES
  order,           \* Order.status, "NONE" before the row exists
  lapsed,          \* the orders whose reservations are past their expiresAt
  closing          \* reason and requestId of the history row of a cancellation

vars == <<stock, reservation, ledger, attempt, txns, shipment, allocation,
          order, lapsed, closing>>

OrderStatus == {"PENDING", "CONFIRMED", "CANCELLED", "COMPLETED"}

Closing == [reason : {"MEMBER"}, key : Requests]
             \cup [reason : {"EXPIRY"}, key : DueKeys]

TypeOK ==
  /\ InventoryTypeOK
  /\ PaymentTypeOK
  /\ FulfillmentTypeOK
  /\ order \in [Orders -> {"NONE"} \cup OrderStatus]
  /\ lapsed \in SUBSET Orders
  /\ closing \in [Orders -> {NoClosing} \cup Closing]

Init ==
  /\ InventoryInit
  /\ PaymentInit
  /\ FulfillmentInit
  /\ order = [o \in Orders |-> "NONE"]
  /\ lapsed = {}
  /\ closing = [o \in Orders |-> NoClosing]

AttemptsOf(o)  == {a \in Attempts : AttemptOrder[a] = o}
ShipmentsOf(o) == {f \in Shipments : ShipmentOrder[f] = o}

(* ALLOWED_TRANSITIONS *)
AllowedTransitions == {<<"PENDING", "CONFIRMED">>, <<"PENDING", "CANCELLED">>,
                       <<"CONFIRMED", "CANCELLED">>, <<"CONFIRMED", "COMPLETED">>}

Transition(o, to) ==
  /\ <<order[o], to>> \in AllowedTransitions
  /\ order' = [order EXCEPT ![o] = to]

(* What a handler may read off its clock about o's deadline. *)
Due(o)    == o \in lapsed
NotDue(o) == LateHandlers \/ o \notin lapsed

-----------------------------------------------------------------------------
(* createOrder: PENDING order, reserved lines, movements, in one commit.    *)
Place(o) ==
  /\ order[o] = "NONE"
  /\ Reserve(o)
  /\ order' = [order EXCEPT ![o] = "PENDING"]
  /\ UNCHANGED <<lapsed, closing, paymentVars, fulfillmentVars>>

(* The clock passes expiresAt.  Only a PENDING order's deadline is read. *)
Lapse(o) ==
  /\ order[o] = "PENDING"
  /\ o \notin lapsed
  /\ lapsed' = lapsed \cup {o}
  /\ UNCHANGED <<order, closing, inventoryVars, paymentVars, fulfillmentVars>>

(* Mutants of MayCancel: captured money, delivered goods do not refuse it. *)
MayCancelPaid(o) ==
  /\ order[o] \in {"PENDING", "CONFIRMED"}
  /\ \A f \in ShipmentsOf(o) : shipment[f] \notin Departed

MayCancelDelivered(o) ==
  /\ order[o] \in {"PENDING", "CONFIRMED"}
  /\ \A f \in ShipmentsOf(o) : shipment[f] # "SHIPPED"
  /\ \A a \in AttemptsOf(o) : ~HasUnrefundedCapture(a)

(* What OrderEntity.cancelByMember requires of the order's aggregates. *)
MayCancel(o) ==
  /\ order[o] \in {"PENDING", "CONFIRMED"}
  /\ \A f \in ShipmentsOf(o) : shipment[f] \notin Departed
  /\ \A a \in AttemptsOf(o) : ~HasUnrefundedCapture(a) /\ attempt[a] # "AUTHORIZED"

(* Mutant of CancellableReservations: sold goods are not taken back. *)
ReservedOnly(o) == LinesIn(o, {"RESERVED"})

CancellableReservations(o) == LinesIn(o, {"RESERVED", "CONSUMED"})

(* OrderService.cancel *)
Cancel(o, k) ==
  /\ MayCancel(o)
  /\ Restore(o, CancellableReservations(o),
             [i \in Items |-> CancelKey(o, k)], "RELEASED")
  /\ CancelAttempts(AttemptsOf(o))
  /\ CancelShipments(ShipmentsOf(o))
  /\ Transition(o, "CANCELLED")
  /\ closing' = [closing EXCEPT ![o] = [reason |-> "MEMBER", key |-> k]]
  /\ UNCHANGED lapsed

(* expireOrderByReservation with OrderEntity.expireReservations: the       *)
(* request names one reservation (o, i), which gets the request's own key. *)
ExpireOrder(o, i, k) ==
  /\ i \in LinesOf(o)
  /\ ~Recorded(i, k)
  /\ order[o] = "PENDING"
  /\ LinesIn(o, {"RESERVED", "EXPIRED"}) = LinesOf(o)
  /\ LinesIn(o, {"RESERVED"}) # {}
  /\ Due(o)
  /\ \A a \in AttemptsOf(o) : attempt[a] \in Cancellable \cup {"NONE", "CANCELLED", "FAILED"}
  /\ Restore(o, LinesIn(o, {"RESERVED"}),
             [j \in Items |-> IF j = i THEN k ELSE ExpireKey(o, k)], "EXPIRED")
  /\ CancelAttempts(AttemptsOf(o))
  /\ Transition(o, "CANCELLED")
  /\ closing' = [closing EXCEPT ![o] = [reason |-> "EXPIRY", key |-> k]]
  /\ UNCHANGED <<lapsed, fulfillmentVars>>

(* expire: an administrator, with a key of his own *)
ExpireByAdmin(o, i, k) == k \in Requests /\ ExpireOrder(o, i, k)

(* expireDueBatch, one order of the batch: any of its due reservations may *)
(* be the one the batch selected first.                                    *)
ExpireByBatch(o) == \E i \in LinesOf(o) : ExpireOrder(o, i, BatchKey(o))

-----------------------------------------------------------------------------
(* Every reservation of the order is held and, for this handler, not due. *)
ReservationsValid(o) ==
  /\ LinesIn(o, {"RESERVED"}) = LinesOf(o)
  /\ NotDue(o)

(* PaymentService.createAttempt *)
CreateAttempt(a) ==
  LET o == AttemptOrder[a] IN
  /\ order[o] = "PENDING"
  /\ ReservationsValid(o)
  /\ OpenAttempt(a)
  /\ UNCHANGED <<order, lapsed, closing, inventoryVars, fulfillmentVars>>

(* PaymentService.captureAttempt: money in, goods sold, order CONFIRMED *)
Capture(a, k, p) ==
  LET o == AttemptOrder[a] IN
  /\ order[o] = "PENDING"
  /\ ReservationsValid(o)
  /\ CaptureAttempt(a, k, p)
  /\ Consume(o)
  /\ Transition(o, "CONFIRMED")
  /\ UNCHANGED <<lapsed, closing, fulfillmentVars>>

Fail(a, k) ==
  /\ FailAttempt(a, k)
  /\ UNCHANGED <<order, lapsed, closing, inventoryVars, fulfillmentVars>>

(* Mutant of ShipmentsIdle: only a parcel in transit blocks a full refund. *)
NothingInTransit(o) == \A f \in ShipmentsOf(o) : shipment[f] # "SHIPPED"

ShipmentsIdle(o) == \A f \in ShipmentsOf(o) : shipment[f] \notin InProgress

Refund(a, k, p, amount) ==
  /\ RefundAttempt(a, k, p, amount, ShipmentsIdle(AttemptOrder[a]))
  /\ UNCHANGED <<order, lapsed, closing, inventoryVars, fulfillmentVars>>

-----------------------------------------------------------------------------
(* assertFunded *)
OrderFunded(o) == \E a \in AttemptsOf(o) : attempt[a] \in Funded

CreateFulfillment(f, q) ==
  LET o == ShipmentOrder[f] IN
  /\ order[o] = "CONFIRMED"
  /\ OrderFunded(o)
  /\ CreateShipment(f, ShipmentsOf(o), q, Demand[o])
  /\ UNCHANGED <<order, lapsed, closing, inventoryVars, paymentVars>>

Pack(f) ==
  /\ OrderFunded(ShipmentOrder[f])
  /\ AdvanceShipment(f, {"PENDING"}, "PACKED")
  /\ UNCHANGED <<order, lapsed, closing, inventoryVars, paymentVars>>

Ship(f) ==
  /\ OrderFunded(ShipmentOrder[f])
  /\ AdvanceShipment(f, {"PACKED"}, "SHIPPED")
  /\ UNCHANGED <<order, lapsed, closing, inventoryVars, paymentVars>>

(* deliver: the last delivery completes the order in the same commit.  A   *)
(* repeated one checks again whether the order is complete.                *)
Deliver(f) ==
  LET o == ShipmentOrder[f] IN
  /\ ~(shipment[f] = "DELIVERED" /\ order[o] = "COMPLETED")
  /\ shipment[f] = "SHIPPED" => OrderFunded(o)
  /\ AdvanceShipment(f, {"SHIPPED", "DELIVERED"}, "DELIVERED")
  /\ IF FullyDeliveredWith(f, ShipmentsOf(o), Demand[o])
       THEN Transition(o, "COMPLETED")
       ELSE UNCHANGED order
  /\ UNCHANGED <<lapsed, closing, inventoryVars, paymentVars>>

CancelFulfillment(f) ==
  /\ AdvanceShipment(f, CancellableShipment, "CANCELLED")
  /\ UNCHANGED <<order, lapsed, closing, inventoryVars, paymentVars>>

AdjustStock(i, k, d) ==
  /\ Adjust(i, k, d)
  /\ UNCHANGED <<order, lapsed, closing, paymentVars, fulfillmentVars>>

OrderNext(o) ==
  \/ Place(o)
  \/ Lapse(o)
  \/ \E k \in Requests : Cancel(o, k)
  \/ \E i \in Items, k \in Requests : ExpireByAdmin(o, i, k)
  \/ ExpireByBatch(o)

AttemptNext(a) ==
  \/ CreateAttempt(a)
  \/ \E k \in PaymentKeys :
       \/ Fail(a, k)
       \/ \E p \in ProviderIds :
            \/ Capture(a, k, p)
            \/ \E amount \in RefundAmounts : Refund(a, k, p, amount)

ShipmentNext(f) ==
  \/ \E q \in Quantities : CreateFulfillment(f, q)
  \/ Pack(f)
  \/ Ship(f)
  \/ Deliver(f)
  \/ CancelFulfillment(f)

Next ==
  \/ \E o \in Orders : OrderNext(o)
  \/ \E a \in Attempts : AttemptNext(a)
  \/ \E f \in Shipments : ShipmentNext(f)
  \/ \E i \in Items, k \in Requests, d \in Deltas : AdjustStock(i, k, d)

Spec == Init /\ [][Next]_vars

(* The expiry batch is a command that operations schedule: every order it  *)
(* could expire is tried again until it no longer can be.                  *)
FairSpec == Spec /\ \A o \in Orders : WF_vars(ExpireByBatch(o))

-----------------------------------------------------------------------------
(* The reservations of an order are never behind or ahead of the order:    *)
(* held while it waits for payment, consumed once it is paid, given back    *)
(* when it is cancelled, by expiry or by the member and never by both.     *)
(* Cancellation, expiry and capture race for the same order row            *)
(* (order.entity.ts 243-327, payment.service.ts 308-374).                  *)
ReservationsFollowOrder ==
  \A o \in Orders : \A i \in LinesOf(o) :
    /\ order[o] = "NONE" <=> reservation[o][i] = "NONE"
    /\ order[o] = "PENDING" <=> reservation[o][i] = "RESERVED"
    /\ order[o] \in {"CONFIRMED", "COMPLETED"} <=> reservation[o][i] = "CONSUMED"
    /\ order[o] = "CANCELLED" =>
         reservation[o][i] = IF closing[o].reason = "EXPIRY" THEN "EXPIRED" ELSE "RELEASED"

(* Money and order agree: captured money that was not refunded belongs to  *)
(* an order that is confirmed or completed, a paid order has one captured  *)
(* attempt and no second one, and a cancelled order leaves no attempt that *)
(* could still be captured (order.entity.ts 243-279, 341-369).             *)
MoneyFollowsOrder ==
  \A o \in Orders :
    LET captured == {a \in AttemptsOf(o) : attempt[a] \in Refundable} IN
    /\ \A a, b \in captured : a = b
    /\ order[o] \in {"CONFIRMED", "COMPLETED"} => captured # {}
    /\ order[o] \in {"NONE", "PENDING"} => captured = {}
    /\ order[o] = "CANCELLED" =>
         \A a \in AttemptsOf(o) :
           attempt[a] \in {"NONE", "CANCELLED", "FAILED", "REFUNDED"}

(* Goods on their way are paid for: no refund of the whole payment and no  *)
(* cancellation gets past a shipment that is being prepared or carried     *)
(* (payment.service.ts 440-449, fulfillment.service.ts 98-169).            *)
ShipmentsFunded ==
  \A f \in Shipments :
    shipment[f] \in InProgress =>
      /\ order[ShipmentOrder[f]] \in {"CONFIRMED", "COMPLETED"}
      /\ OrderFunded(ShipmentOrder[f])

(* Split shipments never carry more than was ordered, and the order is     *)
(* COMPLETED exactly when all of it was delivered: the last of several     *)
(* deliveries completes it, none does so early, and nothing is still on    *)
(* its way then (fulfillment.service.ts 58-96, 135-169).                   *)
CompletedMeansDelivered ==
  \A o \in Orders :
    /\ \A i \in Items : Carried(ShipmentsOf(o), i, Live) <= Demand[o][i]
    /\ order[o] = "COMPLETED" <=>
         \A i \in Items : Carried(ShipmentsOf(o), i, {"DELIVERED"}) = Demand[o][i]
    /\ order[o] = "COMPLETED" =>
         \A f \in ShipmentsOf(o) : shipment[f] \notin InProgress

(* A reservation is given back at most once, by the request that closed    *)
(* its order and under a key derived from that request, so that a retry of *)
(* the request finds both the movement and the history row that prove it   *)
(* was done (order-expiration.service.ts 156-163, inventory.service.ts     *)
(* 338-421, inventory-reservation.entity.ts 8-12).                         *)
RestoresOf(o, i) ==
  {m \in ledger : m.order = o /\ m.item = i /\ m.kind # "RESERVATION"}

RestoredOnce ==
  \A o \in Orders : \A i \in LinesOf(o) :
    IF order[o] # "CANCELLED"
      THEN RestoresOf(o, i) = {}
      ELSE \E m \in RestoresOf(o, i) :
             /\ RestoresOf(o, i) = {m}
             /\ m.delta = Demand[o][i]
             /\ m.key \in
                  IF closing[o].reason = "MEMBER"
                    THEN {CancelKey(o, closing[o].key)}
                    ELSE {closing[o].key, ExpireKey(o, closing[o].key)}

(* What one step may never do to what has ended, or to a recorded row. *)
NothingResumes ==
  /\ \A o \in Orders :
       /\ order[o] \in {"CANCELLED", "COMPLETED"} => order'[o] = order[o]
       /\ \A i \in LinesOf(o) :
            reservation[o][i] \in {"RELEASED", "EXPIRED"} =>
              reservation'[o][i] = reservation[o][i]
  /\ \A a \in Attempts :
       attempt[a] \in {"CANCELLED", "FAILED", "REFUNDED"} => attempt'[a] = attempt[a]
  /\ \A f \in Shipments :
       shipment[f] \in {"DELIVERED", "CANCELLED"} => shipment'[f] = shipment[f]
  /\ ledger \subseteq ledger'
  /\ txns \subseteq txns'

(* Nothing that ended starts again, whatever arrives late: a cancelled or  *)
(* completed order, a cancelled, failed or fully refunded attempt, a       *)
(* restored reservation, a delivered or cancelled shipment, and the rows   *)
(* of the two append-only tables.                                          *)
EndedStaysEnded == [][NothingResumes]_vars

(* An order whose reservations are overdue does not hold its stock for     *)
(* ever: it is paid, cancelled or expired.  The one excuse is a stock that  *)
(* operators raised so far that the line no longer fits the column's range *)
(* (order-expiration.service.ts 91-128, inventory.service.ts 432-444).     *)
NoRoom(o) == \E i \in LinesOf(o) : stock[i] + Demand[o][i] > MaxStock

LapsedOrdersClose ==
  \A o \in Orders :
    (order[o] = "PENDING" /\ o \in lapsed) ~> (order[o] # "PENDING" \/ NoRoom(o))
=============================================================================
