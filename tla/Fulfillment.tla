------------------------------ MODULE Fulfillment ------------------------------
(***************************************************************************)
(* Shipments of an order (src/src/api/fulfillment): an order's quantities  *)
(* are split over several shipments that move PENDING -> PACKED -> SHIPPED *)
(* -> DELIVERED, or are cancelled before they leave.  Every operation runs *)
(* under the order's row lock; what it requires of the order and of its     *)
(* payment is added by CommerceLifecycle.                                  *)
(***************************************************************************)
EXTENDS Integers, FiniteSets, FiniteSetsExt

CONSTANTS
  Shipments,       \* shipment identities: one per (order, idempotencyKey)
  Goods,           \* the order lines, named by their item
  Quantities       \* the allocations a create request may carry

ASSUME FulfillmentAssumption ==
  /\ Quantities \subseteq [Goods -> Nat]
  /\ \A q \in Quantities : \E i \in Goods : q[i] > 0

VARIABLES
  shipment,        \* Fulfillment.status, "NONE" before the row exists
  allocation       \* allocation[f][i]: quantity of line i in shipment f

fulfillmentVars == <<shipment, allocation>>

ShipmentStatus == {"PENDING", "PACKED", "SHIPPED", "DELIVERED", "CANCELLED"}
CancellableShipment == {"PENDING", "PACKED"}

(* The statuses that refuse a refund of the whole payment. *)
InProgress == {"PENDING", "PACKED", "SHIPPED"}
Departed   == {"SHIPPED", "DELIVERED"}

Nothing == [i \in Goods |-> 0]

FulfillmentTypeOK ==
  /\ shipment \in [Shipments -> {"NONE"} \cup ShipmentStatus]
  /\ allocation \in [Shipments -> [Goods -> Nat]]

FulfillmentInit ==
  /\ shipment = [f \in Shipments |-> "NONE"]
  /\ allocation = [f \in Shipments |-> Nothing]

(* allocatedQuantity and the sums of isOrderFullyDelivered: how much of a  *)
(* line the shipments of S that are in the given statuses carry.           *)
Carried(S, i, statuses) ==
  SumFunctionOnSet([f \in S |-> allocation[f][i]], {f \in S : shipment[f] \in statuses})

Live == ShipmentStatus \ {"CANCELLED"}

-----------------------------------------------------------------------------
(* createInTransaction: S are the order's shipments, wanted its quantities. *)
CreateShipment(f, S, q, wanted) ==
  /\ shipment[f] = "NONE"
  /\ \A i \in Goods : q[i] > 0 => q[i] <= wanted[i] - Carried(S, i, Live)
  /\ shipment' = [shipment EXCEPT ![f] = "PENDING"]
  /\ allocation' = [allocation EXCEPT ![f] = q]

(* pack, ship, deliver and cancel, the shipment's own row. *)
AdvanceShipment(f, from, to) ==
  /\ shipment[f] \in from
  /\ shipment' = [shipment EXCEPT ![f] = to]
  /\ UNCHANGED allocation

(* OrderEntity.cancelByMember cancels every shipment that has not left. *)
CancelShipments(S) ==
  /\ shipment' = [f \in Shipments |->
       IF f \in S /\ shipment[f] \in CancellableShipment THEN "CANCELLED" ELSE shipment[f]]
  /\ UNCHANGED allocation

(* Mutant of FullyDeliveredWith: earlier deliveries are not counted. *)
DeliveredAlone(f, S, wanted) == \A i \in Goods : allocation[f][i] = wanted[i]

(* isOrderFullyDelivered, once f has become DELIVERED. *)
FullyDeliveredWith(f, S, wanted) ==
  \A i \in Goods :
    LET before == Carried(S \ {f}, i, {"DELIVERED"})
    IN before + allocation[f][i] = wanted[i]
=============================================================================
