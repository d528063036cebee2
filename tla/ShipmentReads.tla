----------------------------- MODULE ShipmentReads -----------------------------
(***************************************************************************)
(* pack, ship, deliver and cancel of a shipment as they really read        *)
(* (src/src/api/fulfillment/application/fulfillment.service.ts 98-210).     *)
(*                                                                         *)
(* findForUpdate first looks the shipment up to learn its order.  That     *)
(* read takes no lock and opens the transaction's snapshot (the isolation  *)
(* level is InnoDB's REPEATABLE READ); then the transaction waits for the   *)
(* order's row.  Behind the lock, order and shipment are read FOR UPDATE,   *)
(* as they are; the payment attempts are populated without a lock and come  *)
(* out of the snapshot, as they were before the wait.  Captures, failures,  *)
(* refunds and cancellations of the order commit in between.               *)
(*                                                                         *)
(* CommerceLifecycle lets these four handlers see the attempts as they     *)
(* are.  This module shows that it may.                                    *)
(***************************************************************************)
EXTENDS CommerceLifecycle

CONSTANTS
  Handlers,        \* requests to pack, ship, deliver or cancel under way
  NoView           \* the view of a handler that has no transaction open

VARIABLE
  view             \* the shipment a handler found and the attempts it saw then

readVars == <<vars, view>>

Views == [shipment : Shipments, seen : [Attempts -> {"NONE"} \cup AttemptStatus]]

ASSUME ReadsAssumption == NoView \notin Views

ReadsInit ==
  /\ Init
  /\ view = [h \in Handlers |-> NoView]

Close(h) == view' = [view EXCEPT ![h] = NoView]

(* findForUpdate up to the wait for the order's row. *)
Discover(h, f) ==
  /\ view[h] = NoView
  /\ shipment[f] # "NONE"
  /\ view' = [view EXCEPT ![h] = [shipment |-> f, seen |-> attempt]]
  /\ UNCHANGED vars

(* assertFunded, on the attempts of the snapshot. *)
SeenFunded(h) ==
  \E a \in AttemptsOf(ShipmentOrder[view[h].shipment]) : view[h].seen[a] \in Funded

PackAsSeen(h, f) ==
  /\ SeenFunded(h)
  /\ AdvanceShipment(f, {"PENDING"}, "PACKED")
  /\ UNCHANGED <<order, lapsed, closing, inventoryVars, paymentVars>>

ShipAsSeen(h, f) ==
  /\ SeenFunded(h)
  /\ AdvanceShipment(f, {"PACKED"}, "SHIPPED")
  /\ UNCHANGED <<order, lapsed, closing, inventoryVars, paymentVars>>

(* deliver reads the order's shipments again, FOR UPDATE, before it sums.  *)
DeliverAsSeen(h, f) ==
  LET o == ShipmentOrder[f] IN
  /\ ~(shipment[f] = "DELIVERED" /\ order[o] = "COMPLETED")
  /\ shipment[f] = "SHIPPED" => SeenFunded(h)
  /\ AdvanceShipment(f, {"SHIPPED", "DELIVERED"}, "DELIVERED")
  /\ IF FullyDeliveredWith(f, ShipmentsOf(o), Demand[o])
       THEN Transition(o, "COMPLETED")
       ELSE UNCHANGED order
  /\ UNCHANGED <<lapsed, closing, inventoryVars, paymentVars>>

(* The handler has the order's row, does its work and commits. *)
Finish(h) ==
  /\ view[h] # NoView
  /\ LET f == view[h].shipment IN
       \/ PackAsSeen(h, f)
       \/ ShipAsSeen(h, f)
       \/ DeliverAsSeen(h, f)
       \/ CancelFulfillment(f)
  /\ Close(h)

(* It refuses, finds its work done, or dies. *)
GiveUp(h) ==
  /\ view[h] # NoView
  /\ Close(h)
  /\ UNCHANGED vars

(* Every other request commits while handlers wait. *)
OtherNext ==
  /\ \/ \E o \in Orders : OrderNext(o)
     \/ \E a \in Attempts : AttemptNext(a)
     \/ \E f \in Shipments, q \in Quantities : CreateFulfillment(f, q)
     \/ \E i \in Items, k \in Requests, d \in Deltas : AdjustStock(i, k, d)
  /\ UNCHANGED view

HandlerNext(h) ==
  \/ \E f \in Shipments : Discover(h, f)
  \/ Finish(h)
  \/ GiveUp(h)

ReadsNext == OtherNext \/ \E h \in Handlers : HandlerNext(h)

ReadsSpec == ReadsInit /\ [][ReadsNext]_readVars

-----------------------------------------------------------------------------
(* Whatever was captured, refunded or cancelled while a handler waited,    *)
(* what it commits on what it saw before is what it would have committed   *)
(* on what there is: every step is a step of the commerce life cycle or    *)
(* leaves it alone (fulfillment.service.ts 183-210).                       *)
StaleReadsHarmless == Spec

(* Nor does it refuse for what it saw before: a handler that holds a       *)
(* shipment still on its way sees its order's payment, and so did everyone *)
(* since (fulfillment.service.ts 196, payment.service.ts 440-449).         *)
ViewsHold ==
  \A h \in Handlers :
    view[h] # NoView =>
      LET f == view[h].shipment IN
      shipment[f] \in InProgress => SeenFunded(h) /\ OrderFunded(ShipmentOrder[f])
===============================================================================
