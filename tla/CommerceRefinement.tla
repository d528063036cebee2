--------------------------- MODULE CommerceRefinement ---------------------------
(***************************************************************************)
(* CommerceLifecycle implements OrderContract.  The goods of an order are  *)
(* read off its reservations, line by line, and its money off its payment  *)
(* attempts, not off Order.status: the contract holds only if every        *)
(* transaction moves all lines together and keeps the three aggregates in  *)
(* step.                                                                   *)
(***************************************************************************)
EXTENDS CommerceLifecycle

(* The place the lines of an order agree on. *)
GoodsOf(o) ==
  IF \A i \in LinesOf(o) : reservation[o][i] = "NONE" THEN "shelf"
  ELSE IF \A i \in LinesOf(o) : reservation[o][i] = "RESERVED" THEN "aside"
  ELSE IF \A i \in LinesOf(o) : reservation[o][i] = "CONSUMED" THEN "sold"
  ELSE IF \A i \in LinesOf(o) : reservation[o][i] \in {"RELEASED", "EXPIRED"} THEN "returned"
  ELSE "scattered"

MoneyOf(o) ==
  IF OrderFunded(o) THEN "paid"
  ELSE IF \E a \in AttemptsOf(o) : attempt[a] = "REFUNDED" THEN "refunded"
  ELSE "unpaid"

WithShipment(statuses) ==
  {o \in Orders : \E f \in ShipmentsOf(o) : shipment[f] \in statuses}

Contract == INSTANCE OrderContract WITH
  goods    <- [o \in Orders |-> GoodsOf(o)],
  money    <- [o \in Orders |-> MoneyOf(o)],
  underway <- WithShipment(InProgress),
  received <- WithShipment({"DELIVERED"})

(* Every committed transaction of the shop is one of the moves the order   *)
(* contract allows, or none (commerce-lifecycle integration tests; the     *)
(* aggregate comments of order.entity.ts 67-71).                           *)
ImplementsContract == Contract!Spec

(* The contract's state is what its type says: an order's goods are never  *)
(* scattered over several states (order-dependents.lock.ts 6-14: every     *)
(* cancellation locks and moves all reservations of the order).            *)
GoodsMoveTogether == Contract!ContractTypeOK
===============================================================================
